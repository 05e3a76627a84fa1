---------------------- MODULE ProjectionParents_proofs ----------------------
(***************************************************************************)
(* Theorems about the parents of a household and about what                *)
(* svc-notifications keeps of them, for any number of parents, requests,   *)
(* links and transactions.                                                 *)
(*                                                                         *)
(* Each property rests on what the transactions hold: the rows they lock,  *)
(* the dates of their BEGIN, the channels they read again.                 *)
(***************************************************************************)
EXTENDS ProjectionParents, TLAPS

Gardees == {"desactiver", "retirer"}
DesCanaux == {"preferences", "desabonner"}

\* What a transaction carries depends on its request and on how far it is.
TxCoherente(t) ==
  /\ t.pc = "repos" => t = Repos
  /\ t.pc # "repos" => t.op \in Operations /\ t.debut # 0
  /\ t.op \in {"ajouter", "modifier"} => t.email \in Emails
  /\ t.op \in {"modifier", "activer", "preferences"} \cup Gardees => t.p \in Parents
  /\ t.op \in {"ajouter", "desabonner"} /\ t.pc # "lire" => t.p \in Parents
  /\ t.jeton # Aucun <=> t.op = "desabonner"
  /\ t.pc = "garde" => t.op \in Gardees
  /\ t.pc \in {"relire", "valider"} => t.op \in DesCanaux
  /\ t.tenus # {} => t.pc = "ecrire" /\ t.op \in Gardees
  /\ t.pc = "ecrire" /\ t.op \in Gardees => t.tenus = t.vus /\ t.vus # {t.p}
  /\ t.op = "desabonner" => t.oui = {}

Types == TypeOK /\ \A c \in Commandes : TxCoherente(tx[c])

----------------------------------------------------------------------------
(* What holds in svc-foyer.                                                *)

Effacements    == {e \in outbox : e.type = "effacement"}
EvenementsDe(p) == {e \in outbox : e.type # "effacement" /\ e.p = p}
EtatsDe(p)     == {e \in EvenementsDe(p) : e.type = "etat"}
RetraitsDe(p)  == {e \in EvenementsDe(p) : e.type = "retrait"}
ChoixDe(p)     == {e \in EvenementsDe(p) : e.type = "preferences"}

EnEcriture(c) == tx[c].pc \in {"relire", "valider"}

\* The rows of a household that was erased do not come back.
Erasure ==
  /\ ~vivant => \A p \in Parents : ~Existe(p)
  /\ Effacements # {} => ~vivant
  /\ \A e, f \in Effacements : e = f

\* The locks of the withdrawals keep their rows active.
Verrous == \A c \in Commandes : tx[c].tenus \subseteq Actifs

\* A link is of a parent who exists, its consumptions are counted, and one
\* transaction at most is taking it.
Comptes ==
  /\ \A j \in Jetons : jetons[j] # Aucun => Existe(jetons[j].p)
  /\ \A j \in Jetons : jetons[j] = Aucun /\ vivant => usages[j] = 0
  /\ \A j \in Jetons : Utilisable(j) => usages[j] = 0
  /\ \A c \in Commandes : EnEcriture(c) /\ tx[c].jeton # Aucun => Utilisable(tx[c].jeton)
  /\ \A c, d \in Commandes :
       EnEcriture(c) /\ EnEcriture(d) /\ tx[c].jeton = tx[d].jeton /\ tx[c].jeton # Aucun => c = d
  /\ LienUnique

\* Between its reads and its commit, the channels of a parent nobody else is
\* writing do not change.
Relus ==
  /\ \A c \in Commandes : tx[c].op \in DesCanaux /\ tx[c].pc = "ecrire" /\ vivant => Existe(tx[c].p)
  /\ \A c \in Commandes : EnEcriture(c) => Existe(tx[c].p)
  /\ \A c \in Commandes :
       tx[c].op = "desabonner" /\ tx[c].pc # "lire" /\ Existe(tx[c].p) /\ tx[c].p \notin croises =>
         prefs[tx[c].p] \ tx[c].non # {}
  /\ \A c \in Commandes :
       tx[c].pc = "valider" /\ tx[c].p \notin croises => tx[c].effectives = Effectives(c)
  /\ \A c \in Commandes : tx[c].pc = "valider" /\ tx[c].op = "preferences" => tx[c].effectives # {}
  /\ Joignable

\* The date of an event is the BEGIN of one transaction.
DatesPropres ==
  /\ \A e \in outbox : e.le <= debuts
  /\ \A c \in Commandes : tx[c].debut <= debuts
  /\ \A c \in Commandes, e \in outbox : tx[c].debut # e.le
  /\ \A c, d \in Commandes : tx[c].debut = tx[d].debut /\ tx[c].pc # "repos" => c = d
  /\ \A e, f \in outbox : e.le = f.le /\ e.type = f.type /\ e.type # "effacement" /\ e.p = f.p => e = f
  /\ \A p \in Parents : \A e \in EtatsDe(p), f \in RetraitsDe(p) : e.le # f.le

\* The youngest events of a parent tell its row and its channels.
Emis ==
  /\ \A p \in Parents : ChoixDe(p) # {} \/ Existe(p) => EtatsDe(p) # {}
  /\ \A p \in Parents : Existe(p) /\ p \notin croises =>
       /\ \E e \in EtatsDe(p) :
            /\ \A f \in EtatsDe(p) : f.le <= e.le
            /\ e.email = parents[p].email
            /\ parents[p].actif <=> e.actif /\ \A f \in RetraitsDe(p) : f.le < e.le
       /\ \E e \in ChoixDe(p) :
            /\ \A f \in ChoixDe(p) : f.le <= e.le
            /\ e.canaux = prefs[p]

----------------------------------------------------------------------------
(* What holds in svc-notifications.                                        *)

\* What was applied of the events of a parent.
EtatsVus(p)    == EtatsDe(p) \cap faits
RetraitsVus(p) == RetraitsDe(p) \cap faits
ChoixVus(p)    == ChoixDe(p) \cap faits

\* The rows are those of the youngest event that was applied.
Copie ==
  Effacements = {} =>
    /\ \A p \in Parents : nParents[p] = Aucun => EtatsVus(p) = {}
    /\ \A p \in Parents : nParents[p] # Aucun =>
         \E e \in EtatsVus(p) :
            /\ \A f \in EtatsVus(p) : f.le <= e.le
            /\ nParents[p].le = e.le /\ nParents[p].email = e.email
            /\ p \notin desordre =>
                 (nParents[p].actif <=> e.actif /\ \A f \in RetraitsVus(p) : f.le < e.le)
    /\ \A p \in Parents : nPrefs[p] = Aucun => ChoixVus(p) = {}
    /\ \A p \in Parents : nPrefs[p] # Aucun =>
         \E e \in ChoixVus(p) :
            /\ \A f \in ChoixVus(p) : f.le <= e.le
            /\ nPrefs[p].le = e.le /\ nPrefs[p].canaux = e.canaux

\* What is kept of a parent, the erasure finds it; after it, only what was on
\* its way comes.
Traces ==
  /\ Effacements \cap faits = {} =>
       /\ \A p \in Parents : EtatsVus(p) # {} => nParents[p] # Aucun
       /\ \A p \in Parents : nParents[p] # Aucun => EtatsVus(p) # {}
       /\ \A p \in Parents : nPrefs[p] # Aucun => ChoixVus(p) # {}
       /\ \A p \in cartes \cup tick : nParents[p] # Aucun
  /\ Effacements \cap faits # {} =>
       /\ tick \subseteq tardifs
       /\ \A f \in outbox \ faits : f.p \in tardifs
  /\ EffacementTenu

----------------------------------------------------------------------------
(* Types.                                                                  *)

LEMMA ReposType == Repos \in TxTypes /\ TxCoherente(Repos)
<1>1. Repos \in TxTypes
  BY ConstantesParents DEF Repos, TxTypes, Phases
<1> QED BY <1>1, ConstantesParents DEF Repos, TxCoherente, Operations, Gardees, DesCanaux

\* One transaction changes.
LEMMA UneTx ==
  ASSUME Types, NEW c \in Commandes, NEW r \in TxTypes, TxCoherente(r), tx' = [tx EXCEPT ![c] = r]
  PROVE  /\ tx' \in [Commandes -> TxTypes]
         /\ \A d \in Commandes : TxCoherente(tx'[d])
         /\ tx'[c] = r /\ \A d \in Commandes \ {c} : tx'[d] = tx[d]
<1>1. tx \in [Commandes -> TxTypes] /\ \A d \in Commandes : TxCoherente(tx[d])
  BY DEF Types, TypeOK, FoyerTypeOK
<1> QED BY <1>1

LEMMA TxSansChangement ==
  ASSUME Types, UNCHANGED tx
  PROVE  tx' \in [Commandes -> TxTypes] /\ \A d \in Commandes : TxCoherente(tx'[d])
BY DEF Types, TypeOK, FoyerTypeOK

\* What a request is given is well formed.
LEMMA DemandesTypees ==
  ASSUME NEW d \in Demandes, NEW k \in Dates
  PROVE  /\ [d EXCEPT !.debut = k] \in TxTypes
         /\ TxCoherente([d EXCEPT !.debut = k])
<1> DEFINE Bonne(x) == [x EXCEPT !.debut = k] \in TxTypes /\ TxCoherente([x EXCEPT !.debut = k])
<1>1. k # 0 /\ k \in 0 .. MAX_TX
  BY ConstantesParents DEF Dates
<1> DEFINE Donnee(op, p, e, j, oui, non) ==
      [pc |-> IF op \in {"modifier", "activer"} THEN "ecrire" ELSE "lire",
       op |-> op, debut |-> k, p |-> p, email |-> e, jeton |-> j, oui |-> oui, non |-> non,
       effectives |-> {}, vus |-> {}, tenus |-> {}]
<1>2. ASSUME NEW op \in Operations, NEW p \in Parents \cup {Aucun}, NEW e \in Emails \cup {Aucun},
             NEW j \in Jetons \cup {Aucun}, NEW oui \in SUBSET Canaux, NEW non \in SUBSET Canaux,
             op \in {"ajouter", "modifier"} => e \in Emails,
             op \in {"modifier", "activer", "preferences"} \cup Gardees => p \in Parents,
             j # Aucun <=> op = "desabonner",
             op = "desabonner" => oui = {}
      PROVE  Bonne(Demande(op, p, e, j, oui, non))
  <2>1. Donnee(op, p, e, j, oui, non) \in TxTypes
    BY <1>1 DEF TxTypes, Phases
  <2>2. TxCoherente(Donnee(op, p, e, j, oui, non))
    BY <1>1, <1>2 DEF TxCoherente, Gardees, DesCanaux
  <2>3. [Demande(op, p, e, j, oui, non) EXCEPT !.debut = k] = Donnee(op, p, e, j, oui, non)
    BY DEF Demande
  <2> QED BY <2>1, <2>2, <2>3
<1> HIDE DEF Bonne
<1>3. \A e \in Emails : Bonne(Demande("ajouter", Aucun, e, Aucun, {}, {}))
  BY <1>2, ConstantesParents DEF Operations, Gardees
<1>4. \A p \in Parents, e \in Emails : Bonne(Demande("modifier", p, e, Aucun, {}, {}))
  BY <1>2, ConstantesParents DEF Operations, Gardees
<1>5. \A op \in {"activer", "desactiver", "retirer"}, p \in Parents :
        Bonne(Demande(op, p, Aucun, Aucun, {}, {}))
  BY <1>2, ConstantesParents DEF Operations, Gardees
<1>6. \A p \in Parents, oui \in SUBSET Canaux, non \in SUBSET Canaux :
        Bonne(Demande("preferences", p, Aucun, Aucun, oui, non))
  BY <1>2, ConstantesParents DEF Operations, Gardees
<1>7. \A j \in Jetons : Bonne(Demande("desabonner", Aucun, Aucun, j, {}, {}))
  BY <1>2, ConstantesParents DEF Operations, Gardees
<1>8. Bonne(Demande("supprimer", Aucun, Aucun, Aucun, {}, {}))
  BY <1>2, ConstantesParents DEF Operations, Gardees
<1>9. Bonne(d)
  BY <1>3, <1>4, <1>5, <1>6, <1>7, <1>8 DEF Demandes
<1> QED BY <1>9 DEF Bonne

\* A transaction goes on as its request has it, whatever the step.
LEMMA TxSuit ==
  ASSUME Types, NEW c \in Commandes, Requete(c)
  PROVE  /\ tx' \in [Commandes -> TxTypes]
         /\ \A d \in Commandes : TxCoherente(tx'[d])
         /\ \A d \in Commandes \ {c} : tx'[d] = tx[d]
<1> DEFINE Suivi == /\ tx' \in [Commandes -> TxTypes]
                    /\ \A d \in Commandes : TxCoherente(tx'[d])
                    /\ \A d \in Commandes \ {c} : tx'[d] = tx[d]
<1> SUFFICES Suivi
  OBVIOUS
<1> DEFINE t == tx[c]
<1>1. t \in TxTypes /\ TxCoherente(t)
  BY DEF Types, TypeOK, FoyerTypeOK
<1>2. ASSUME NEW r \in TxTypes, TxCoherente(r), tx' = [tx EXCEPT ![c] = r]
      PROVE  Suivi
  BY <1>2, UneTx
<1>3. CASE Terminer(c)
  BY <1>3, <1>2, ReposType DEF Terminer
<1> HIDE DEF t, Suivi
<1>4. CASE Commencer(c)
  <2>1. PICK d \in Demandes : tx' = [tx EXCEPT ![c] = [d EXCEPT !.debut = debuts']]
    BY <1>4 DEF Commencer
  <2>2. debuts' \in Dates
    BY <1>4, ConstantesParents DEF Commencer, Types, TypeOK, FoyerTypeOK, Dates
  <2> QED BY <1>2, <2>1, <2>2, DemandesTypees
<1>5. CASE LireInactifs(c)
  <2>1. PICK p \in Parents : tx' = [tx EXCEPT ![c].pc = "ecrire", ![c].p = p]
    BY <1>5 DEF LireInactifs
  <2> DEFINE r == [t EXCEPT !.pc = "ecrire", !.p = p]
  <2>2. t.pc = "lire" /\ t.op = "ajouter"
    BY <1>5 DEF LireInactifs, t
  <2>3. r \in TxTypes
    BY <1>1 DEF TxTypes, Phases
  <2>4. TxCoherente(r)
    BY <1>1, <2>2 DEF TxTypes, TxCoherente, Gardees, DesCanaux
  <2>5. tx' = [tx EXCEPT ![c] = r]
    BY <2>1 DEF t
  <2> HIDE DEF r
  <2> QED BY <1>2, <2>3, <2>4, <2>5
<1>6. CASE LireActifs(c)
  <2> DEFINE r == [t EXCEPT !.pc = "garde", !.vus = Actifs]
  <2>2. t.pc = "lire" /\ t.op \in Gardees
    BY <1>6 DEF LireActifs, t, Gardees
  <2>3. r \in TxTypes
    BY <1>1 DEF TxTypes, Phases, Actifs
  <2>4. TxCoherente(r)
    BY <1>1, <2>2 DEF TxTypes, TxCoherente, Gardees, DesCanaux
  <2>5. tx' = [tx EXCEPT ![c] = r]
    BY <1>6 DEF LireActifs, t
  <2> HIDE DEF r
  <2> QED BY <1>2, <2>3, <2>4, <2>5
<1>7. CASE VerrouillerActifs(c)
  <2> DEFINE restants == t.vus \cap Actifs
             r == [t EXCEPT !.pc = "ecrire", !.vus = restants, !.tenus = restants]
  <2>2. t.pc = "garde" /\ t.op \in Gardees /\ restants # {t.p}
    BY <1>7, <1>1 DEF VerrouillerActifs, t, TxCoherente
  <2>3. r \in TxTypes
    BY <1>1 DEF TxTypes, Phases, Actifs
  <2>4. TxCoherente(r)
    BY <1>1, <2>2 DEF TxTypes, TxCoherente, Gardees, DesCanaux
  <2>5. tx' = [tx EXCEPT ![c] = r]
    BY <1>7 DEF VerrouillerActifs, t
  <2> HIDE DEF r
  <2> QED BY <1>2, <2>3, <2>4, <2>5
<1>8. CASE LireParent(c)
  <2> DEFINE r == [t EXCEPT !.pc = "ecrire"]
  <2>2. t.pc = "lire" /\ t.op = "preferences"
    BY <1>8 DEF LireParent, t
  <2>3. r \in TxTypes
    BY <1>1 DEF TxTypes, Phases
  <2>4. TxCoherente(r)
    BY <1>1, <2>2 DEF TxTypes, TxCoherente, Gardees, DesCanaux
  <2>5. tx' = [tx EXCEPT ![c] = r]
    BY <1>8 DEF LireParent, t
  <2> HIDE DEF r
  <2> QED BY <1>2, <2>3, <2>4, <2>5
<1>9. CASE LireJeton(c)
  <2> DEFINE p == jetons[t.jeton].p
             non == {jetons[t.jeton].canal}
             r == [t EXCEPT !.pc = "ecrire", !.p = p, !.non = non]
  <2>2. t.pc = "lire" /\ t.op = "desabonner"
    BY <1>9 DEF LireJeton, t
  <2>3. p \in Parents /\ non \in SUBSET Canaux
    <3>1. t.jeton \in Jetons
      BY <1>1, <2>2 DEF TxTypes, TxCoherente
    <3>2. jetons[t.jeton] \in Liens
      BY <1>9, <3>1 DEF LireJeton, t, Utilisable, Types, TypeOK, FoyerTypeOK
    <3> QED BY <3>2 DEF Liens
  <2>4. tx' = [tx EXCEPT ![c] = r]
    BY <1>9 DEF LireJeton, t
  <2> HIDE DEF p, non
  <2>5. r \in TxTypes
    BY <1>1, <2>3 DEF TxTypes, Phases
  <2>6. TxCoherente(r)
    BY <1>1, <2>2, <2>3 DEF TxTypes, TxCoherente, Gardees, DesCanaux
  <2> HIDE DEF r
  <2> QED BY <1>2, <2>4, <2>5, <2>6
<1>10. CASE EcrireCanaux(c)
  <2> DEFINE r == [t EXCEPT !.pc = "relire"]
  <2>2. t.pc = "ecrire" /\ t.op \in DesCanaux
    BY <1>10 DEF EcrireCanaux, t, DesCanaux
  <2>3. r \in TxTypes
    BY <1>1 DEF TxTypes, Phases
  <2>4. TxCoherente(r)
    BY <1>1, <2>2 DEF TxTypes, TxCoherente, Gardees, DesCanaux
  <2>5. tx' = [tx EXCEPT ![c] = r]
    BY <1>10 DEF EcrireCanaux, t
  <2> HIDE DEF r
  <2> QED BY <1>2, <2>3, <2>4, <2>5
<1>11. CASE RelireCanaux(c)
  <2> DEFINE e == Effectives(c)
             r == [t EXCEPT !.pc = "valider", !.effectives = e]
  <2>2. t.pc = "relire" /\ t.op \in DesCanaux
    BY <1>11, <1>1 DEF RelireCanaux, t, TxCoherente
  <2>3. e \in SUBSET Canaux
    <3>1. t.p \in Parents
      BY <1>1, <2>2 DEF TxCoherente, DesCanaux
    <3> QED BY <1>1, <3>1 DEF Effectives, t, TxTypes, Types, TypeOK, FoyerTypeOK
  <2>4. tx' = [tx EXCEPT ![c] = r]
    BY <1>11 DEF RelireCanaux, t
  <2> HIDE DEF e
  <2>5. r \in TxTypes
    BY <1>1, <2>3 DEF TxTypes, Phases
  <2>6. TxCoherente(r)
    BY <1>1, <2>2 DEF TxTypes, TxCoherente, Gardees, DesCanaux
  <2> HIDE DEF r
  <2> QED BY <1>2, <2>4, <2>5, <2>6
<1>12. CASE LireIds(c)
  <2> DEFINE r == [t EXCEPT !.pc = "ecrire", !.vus = {p \in Parents : Existe(p)}]
  <2>2. t.pc = "lire" /\ t.op = "supprimer"
    BY <1>12 DEF LireIds, t
  <2>3. r \in TxTypes
    BY <1>1 DEF TxTypes, Phases
  <2>4. TxCoherente(r)
    BY <1>1, <2>2 DEF TxTypes, TxCoherente, Gardees, DesCanaux
  <2>5. tx' = [tx EXCEPT ![c] = r]
    BY <1>12 DEF LireIds, t
  <2> HIDE DEF r
  <2> QED BY <1>2, <2>3, <2>4, <2>5
<1>13. CASE EcrireParent(c) \/ ValiderCanaux(c) \/ Effacer(c) \/ Refuser(c)
  <2>1. Terminer(c)
    BY <1>13 DEF EcrireParent, ValiderCanaux, Effacer, Refuser
  <2> QED BY <1>3, <2>1
<1> QED BY <1>4, <1>5, <1>6, <1>7, <1>8, <1>9, <1>10, <1>11, <1>12, <1>13 DEF Requete

\* The steps that write nothing but the transaction.
Lecture(c) ==
  \/ LireInactifs(c) \/ LireActifs(c) \/ VerrouillerActifs(c) \/ LireParent(c) \/ LireJeton(c)
  \/ EcrireCanaux(c) \/ RelireCanaux(c) \/ LireIds(c) \/ Refuser(c)

LEMMA LectureNEcritRien ==
  ASSUME NEW c \in Commandes, Lecture(c)
  PROVE  UNCHANGED <<vivant, parents, prefs, jetons, outbox, usages, croises, debuts>>
BY DEF Lecture, LireInactifs, LireActifs, VerrouillerActifs, LireParent, LireJeton,
       EcrireCanaux, RelireCanaux, LireIds, Refuser, donnees

LEMMA EvenementsTypes ==
  ASSUME NEW le \in Dates, NEW p \in Parents
  PROVE  /\ \A l \in Lignes : Etat(le, p, l) \in Evenements
         /\ \A c \in SUBSET Canaux : Preferences(le, p, c) \in Evenements
         /\ [type |-> "retrait", le |-> le, p |-> p] \in Evenements
<1>1. ASSUME NEW l \in Lignes
      PROVE  Etat(le, p, l) \in Evenements
  <2>1. l.email \in Emails /\ l.actif \in BOOLEAN
    BY DEF Lignes
  <2> QED BY <2>1 DEF Etat, Evenements
<1>2. \A c \in SUBSET Canaux : Preferences(le, p, c) \in Evenements
  BY DEF Preferences, Evenements
<1>3. [type |-> "retrait", le |-> le, p |-> p] \in Evenements
  BY DEF Evenements
<1> QED BY <1>1, <1>2, <1>3

LEMMA FoyerTypesInit ==
  ASSUME FoyerInit
  PROVE  FoyerTypeOK
<1>1. PICK ps \in SUBSET Parents, e \in [Parents -> Emails] :
        /\ parents = [p \in Parents |-> IF p \in ps THEN [email |-> e[p], actif |-> TRUE] ELSE Aucun]
        /\ prefs = [p \in Parents |-> IF p \in ps THEN Canaux ELSE {}]
        /\ outbox = UNION {{Etat(1, p, parents[p]), Preferences(1, p, Canaux)} : p \in ps}
  BY DEF FoyerInit
<1>2. \A p \in ps : parents[p] = [email |-> e[p], actif |-> TRUE]
  BY <1>1
<1>3. 1 \in Dates
  BY ConstantesParents DEF Dates
<1>4. parents \in [Parents -> Lignes \cup {Aucun}]
  BY <1>1 DEF Lignes
<1>5. \A p \in ps : Etat(1, p, parents[p]) \in Evenements /\ Preferences(1, p, Canaux) \in Evenements
  <2>1. \A p \in ps : parents[p] \in Lignes
    <3>1. \A f \in Emails : [email |-> f, actif |-> TRUE] \in Lignes
      BY DEF Lignes
    <3> QED BY <1>2, <3>1
  <2> QED BY <1>3, <2>1, EvenementsTypes
<1>6. outbox \subseteq Evenements
  BY <1>1, <1>5
<1>7. prefs \in [Parents -> SUBSET Canaux]
  BY <1>1
<1>8. tx \in [Commandes -> TxTypes]
  BY ReposType DEF FoyerInit
<1>9. vivant \in BOOLEAN /\ debuts \in 0 .. MAX_TX /\ croises \subseteq Parents
  BY ConstantesParents DEF FoyerInit
<1>10. jetons \in [Jetons -> Liens \cup {Aucun}] /\ usages \in [Jetons -> Nat]
  BY DEF FoyerInit
<1> QED BY <1>4, <1>6, <1>7, <1>8, <1>9, <1>10 DEF FoyerTypeOK

\* What the transaction of a write holds.
LEMMA EcritureTypee ==
  ASSUME Types, NEW c \in Commandes, EcrireParent(c)
  PROVE  /\ tx[c].p \in Parents /\ tx[c].debut \in Dates
         /\ LigneEcrite(c) \in Lignes
<1> DEFINE t == tx[c]
<1>1. t \in TxTypes /\ TxCoherente(t)
  BY DEF Types, TypeOK, FoyerTypeOK
<1>2. t.pc = "ecrire" /\ t.op \in {"ajouter", "modifier", "activer", "desactiver", "retirer"}
  BY DEF EcrireParent
<1>3. t.p \in Parents /\ t.debut \in Dates
  BY <1>1, <1>2, ConstantesParents DEF TxCoherente, TxTypes, Gardees, Dates
<1>4. t.op # "ajouter" => parents[t.p] \in Lignes
  BY <1>2, <1>3 DEF EcrireParent, Existe, Types, TypeOK, FoyerTypeOK
<1>5. t.op \in {"ajouter", "modifier"} => t.email \in Emails
  BY <1>1 DEF TxCoherente
<1>6. LigneEcrite(c) \in Lignes
  <2>1. CASE t.op = "ajouter"
    BY <1>5, <2>1 DEF LigneEcrite, Lignes
  <2>2. CASE t.op = "modifier"
    BY <1>4, <1>5, <2>2 DEF LigneEcrite, Lignes
  <2>3. CASE t.op = "activer"
    BY <1>4, <2>3 DEF LigneEcrite, Lignes
  <2>4. CASE t.op \in {"desactiver", "retirer"}
    BY <1>4, <2>4 DEF LigneEcrite, Lignes
  <2> QED BY <1>2, <2>1, <2>2, <2>3, <2>4
<1> QED BY <1>3, <1>6

LEMMA CommitTypee ==
  ASSUME Types, NEW c \in Commandes, ValiderCanaux(c)
  PROVE  /\ tx[c].p \in Parents /\ tx[c].debut \in Dates /\ tx[c].op \in DesCanaux
         /\ tx[c].effectives \in SUBSET Canaux /\ tx[c].oui \in SUBSET Canaux
         /\ tx[c].non \in SUBSET Canaux
         /\ tx[c].jeton # Aucun => tx[c].jeton \in Jetons
<1>1. tx[c] \in TxTypes /\ TxCoherente(tx[c])
  BY DEF Types, TypeOK, FoyerTypeOK
<1>2. tx[c].pc = "valider"
  BY DEF ValiderCanaux
<1> QED BY <1>1, <1>2, ConstantesParents DEF TxCoherente, TxTypes, DesCanaux, Dates

\* A link begins its life, or ends it.
LEMMA JetonsTypes ==
  ASSUME Types
  PROVE  /\ \A j \in Jetons, p \in Parents :
              [jetons EXCEPT ![j] = [p |-> p, canal |-> Courriel, libre |-> TRUE]]
                \in [Jetons -> Liens \cup {Aucun}]
         /\ \A j \in Jetons : jetons[j] # Aucun =>
              [jetons EXCEPT ![j].libre = FALSE] \in [Jetons -> Liens \cup {Aucun}]
<1>1. jetons \in [Jetons -> Liens \cup {Aucun}]
  BY DEF Types, TypeOK, FoyerTypeOK
<1>2. \A p \in Parents : [p |-> p, canal |-> Courriel, libre |-> TRUE] \in Liens
  BY ConstantesParents DEF Liens
<1>3. \A l \in Liens : [l EXCEPT !.libre = FALSE] \in Liens
  BY DEF Liens
<1> HIDE DEF Liens
<1>4. \A j \in Jetons : jetons[j] # Aucun =>
        [jetons EXCEPT ![j] = [jetons[j] EXCEPT !.libre = FALSE]] \in [Jetons -> Liens \cup {Aucun}]
  BY <1>1, <1>3
<1> QED BY <1>1, <1>2, <1>4

LEMMA FoyerTypesSuit ==
  ASSUME Types, FoyerNext,
         \A c \in Commandes : EnEcriture(c) /\ tx[c].jeton # Aucun => Utilisable(tx[c].jeton)
  PROVE  FoyerTypeOK' /\ \A c \in Commandes : TxCoherente(tx'[c])
<1>1. FoyerTypeOK
  BY DEF Types, TypeOK
<1>2. ASSUME NEW j \in Jetons, NEW p \in Parents, EmettreJeton(j, p)
      PROVE  FoyerTypeOK' /\ \A c \in Commandes : TxCoherente(tx'[c])
  <2>1. jetons' \in [Jetons -> Liens \cup {Aucun}]
    BY <1>2, JetonsTypes DEF EmettreJeton
  <2>2. \A c \in Commandes : TxCoherente(tx'[c])
    BY <1>2, TxSansChangement DEF EmettreJeton
  <2> QED BY <1>1, <1>2, <2>1, <2>2 DEF EmettreJeton, FoyerTypeOK
<1>3. ASSUME NEW c \in Commandes, Requete(c)
      PROVE  FoyerTypeOK' /\ \A d \in Commandes : TxCoherente(tx'[d])
  <2>1. tx' \in [Commandes -> TxTypes] /\ \A d \in Commandes : TxCoherente(tx'[d])
    BY <1>3, TxSuit
  <2> SUFFICES FoyerTypeOK'
    BY <2>1
  <2>2. CASE Commencer(c)
    <3>1. debuts' \in 0 .. MAX_TX
      BY <1>1, <2>2, ConstantesParents DEF Commencer, FoyerTypeOK
    <3>2. UNCHANGED donnees
      BY <2>2 DEF Commencer
    <3> QED BY <1>1, <2>1, <3>1, <3>2 DEF FoyerTypeOK, donnees
  <2>3. CASE Lecture(c)
    BY <1>1, <2>1, <2>3, LectureNEcritRien DEF FoyerTypeOK
  <2>4. CASE EcrireParent(c)
    <3> DEFINE t == tx[c]
    <3>1. t.p \in Parents /\ t.debut \in Dates /\ LigneEcrite(c) \in Lignes
      BY <2>4, EcritureTypee
    <3>2. parents' \in [Parents -> Lignes \cup {Aucun}]
      BY <1>1, <2>4, <3>1 DEF EcrireParent, FoyerTypeOK
    <3>3. prefs' \in [Parents -> SUBSET Canaux]
      BY <1>1, <2>4, <3>1 DEF EcrireParent, FoyerTypeOK
    <3>4. outbox' \subseteq Evenements
      <4>1. prefs'[t.p] \in SUBSET Canaux
        BY <3>1, <3>3
      <4>2. outbox \subseteq Evenements
        BY <1>1 DEF FoyerTypeOK
      <4> HIDE DEF t
      <4>3. /\ Etat(t.debut, t.p, LigneEcrite(c)) \in Evenements
            /\ Preferences(t.debut, t.p, prefs'[t.p]) \in Evenements
            /\ [type |-> "retrait", le |-> t.debut, p |-> t.p] \in Evenements
        BY <3>1, <4>1, EvenementsTypes
      <4> USE DEF t
      <4> QED BY <2>4, <4>2, <4>3 DEF EcrireParent
    <3>5. croises' \subseteq Parents
      BY <1>1, <2>4, <3>1 DEF EcrireParent, FoyerTypeOK
    <3>6. UNCHANGED <<vivant, jetons, usages, debuts>>
      BY <2>4 DEF EcrireParent
    <3> QED BY <1>1, <2>1, <3>2, <3>3, <3>4, <3>5, <3>6 DEF FoyerTypeOK
  <2>5. CASE ValiderCanaux(c)
    <3> DEFINE t == tx[c]
    <3>1. /\ t.p \in Parents /\ t.debut \in Dates
          /\ t.effectives \in SUBSET Canaux /\ t.oui \in SUBSET Canaux /\ t.non \in SUBSET Canaux
          /\ t.jeton # Aucun => t.jeton \in Jetons
      BY <2>5, CommitTypee
    <3>2. prefs' \in [Parents -> SUBSET Canaux]
      BY <1>1, <2>5, <3>1 DEF ValiderCanaux, FoyerTypeOK
    <3>3. outbox' \subseteq Evenements
      <4>1. Preferences(t.debut, t.p, t.effectives) \in Evenements
        BY <3>1, EvenementsTypes
      <4> QED BY <1>1, <2>5, <4>1 DEF ValiderCanaux, FoyerTypeOK
    <3>4. croises' \subseteq Parents
      BY <1>1, <2>5, <3>1 DEF ValiderCanaux, FoyerTypeOK
    <3>5. jetons' \in [Jetons -> Liens \cup {Aucun}] /\ usages' \in [Jetons -> Nat]
      <4>1. CASE t.jeton = Aucun
        BY <1>1, <2>5, <4>1 DEF ValiderCanaux, FoyerTypeOK
      <4>2. CASE t.jeton # Aucun
        <5>1. jetons[t.jeton] # Aucun
          BY <2>5, <4>2 DEF ValiderCanaux, EnEcriture, Utilisable
        <5>2. jetons' = [jetons EXCEPT ![t.jeton].libre = FALSE]
          BY <2>5, <4>2 DEF ValiderCanaux
        <5>3. usages' = [usages EXCEPT ![t.jeton] = @ + 1]
          BY <2>5, <4>2 DEF ValiderCanaux
        <5>4. jetons' \in [Jetons -> Liens \cup {Aucun}]
          BY <3>1, <4>2, <5>1, <5>2, JetonsTypes
        <5>5. usages' \in [Jetons -> Nat]
          BY <1>1, <3>1, <4>2, <5>3 DEF FoyerTypeOK
        <5> QED BY <5>4, <5>5
      <4> QED BY <4>1, <4>2
    <3>6. UNCHANGED <<vivant, parents, debuts>>
      BY <2>5 DEF ValiderCanaux
    <3> QED BY <1>1, <2>1, <3>2, <3>3, <3>4, <3>5, <3>6 DEF FoyerTypeOK
  <2>6. CASE Effacer(c)
    <3>1. tx[c] \in TxTypes /\ TxCoherente(tx[c]) /\ tx[c].pc = "ecrire"
      BY <2>6 DEF Effacer, Types, TypeOK, FoyerTypeOK
    <3>2. [type |-> "effacement", le |-> tx[c].debut, ids |-> tx[c].vus] \in Evenements
      BY <3>1, ConstantesParents DEF TxTypes, TxCoherente, Evenements, Dates
    <3>3. outbox' \subseteq Evenements
      BY <1>1, <2>6, <3>2 DEF Effacer, FoyerTypeOK
    <3>4. /\ parents' \in [Parents -> Lignes \cup {Aucun}]
          /\ prefs' \in [Parents -> SUBSET Canaux]
          /\ jetons' \in [Jetons -> Liens \cup {Aucun}]
          /\ vivant' \in BOOLEAN
      BY <2>6 DEF Effacer
    <3>5. UNCHANGED <<usages, croises, debuts>>
      BY <2>6 DEF Effacer
    <3> QED BY <1>1, <2>1, <3>3, <3>4, <3>5 DEF FoyerTypeOK
  <2> QED BY <1>3, <2>2, <2>3, <2>4, <2>5, <2>6 DEF Requete, Lecture
<1> QED BY <1>2, <1>3 DEF FoyerNext

\* Events are never withdrawn.
LEMMA OutboxGrandit ==
  ASSUME [FoyerNext]_foyerVars
  PROVE  outbox \subseteq outbox'
<1>1. ASSUME NEW c \in Commandes, Requete(c)
      PROVE  outbox \subseteq outbox'
  BY <1>1, LectureNEcritRien DEF Requete, Lecture, Commencer, EcrireParent, ValiderCanaux, Effacer, donnees
<1>2. ASSUME NEW j \in Jetons, NEW p \in Parents, EmettreJeton(j, p)
      PROVE  outbox \subseteq outbox'
  BY <1>2 DEF EmettreJeton
<1> QED BY <1>1, <1>2 DEF FoyerNext, foyerVars, donnees

\* The steps of svc-notifications.
PasDeCopie == Projeter \/ LireDestinataires \/ \E p \in Parents : CreerCarte(p)

LEMMA CopieNEcritRien ==
  ASSUME PasDeCopie
  PROVE  UNCHANGED foyerVars
BY DEF PasDeCopie, Projeter, ParentEtat, ParentRetire, PreferencesNotif, FoyerSupprime,
       LireDestinataires, CreerCarte

\* What an event carries.
LEMMA EvenementType ==
  ASSUME Types, NEW e \in outbox
  PROVE  /\ e.le \in Dates
         /\ e.type \in {"etat", "retrait", "preferences", "effacement"}
         /\ e.type # "effacement" => e.p \in Parents
         /\ e.type = "etat" => e.email \in Emails /\ e.actif \in BOOLEAN
         /\ e.type = "preferences" => e.canaux \in SUBSET Canaux
         /\ e.type = "effacement" => e.ids \in SUBSET Parents
<1>1. e \in Evenements
  BY DEF Types, TypeOK, FoyerTypeOK
<1> QED BY <1>1 DEF Evenements

LEMMA CopieTypee ==
  ASSUME Types, PasDeCopie
  PROVE  TypeOK'
<1>1. FoyerTypeOK'
  BY CopieNEcritRien DEF Types, TypeOK, FoyerTypeOK, foyerVars, donnees
<1>2. outbox' = outbox
  BY CopieNEcritRien DEF foyerVars, donnees
<1>3. ASSUME NEW e \in outbox, ParentEtat(e)
      PROVE  TypeOK'
  <2>1. e.p \in Parents /\ [le |-> e.le, email |-> e.email, actif |-> e.actif] \in Copies
    BY <1>3, EvenementType DEF ParentEtat, Copies
  <2>2. nParents' \in [Parents -> Copies \cup {Aucun}]
    BY <1>3, <2>1 DEF ParentEtat, Types, TypeOK
  <2> QED BY <1>1, <1>2, <1>3, <2>1, <2>2 DEF ParentEtat, Traiter, Types, TypeOK
<1>4. ASSUME NEW e \in outbox, ParentRetire(e)
      PROVE  TypeOK'
  <2>1. e.p \in Parents
    BY <1>4, EvenementType DEF ParentRetire
  <2>2. \A l \in Copies : [l EXCEPT !.actif = FALSE] \in Copies
    BY DEF Copies
  <2>3. nParents' \in [Parents -> Copies \cup {Aucun}]
    BY <1>4, <2>1, <2>2 DEF ParentRetire, Types, TypeOK
  <2> QED BY <1>1, <1>2, <1>4, <2>1, <2>3 DEF ParentRetire, Traiter, Types, TypeOK
<1>5. ASSUME NEW e \in outbox, PreferencesNotif(e)
      PROVE  TypeOK'
  <2>1. e.p \in Parents /\ [le |-> e.le, canaux |-> e.canaux] \in Choix
    BY <1>5, EvenementType DEF PreferencesNotif, Choix
  <2>2. nPrefs' \in [Parents -> Choix \cup {Aucun}]
    BY <1>5, <2>1 DEF PreferencesNotif, Types, TypeOK
  <2> QED BY <1>1, <1>2, <1>5, <2>1, <2>2 DEF PreferencesNotif, Traiter, Types, TypeOK
<1>6. ASSUME NEW e \in outbox, FoyerSupprime(e)
      PROVE  TypeOK'
  <2>1. EnRoute(e) \subseteq Parents
    BY DEF EnRoute, Types, TypeOK
  <2> QED BY <1>1, <1>2, <1>6, <2>1 DEF FoyerSupprime, Traiter, Types, TypeOK
<1>7. CASE LireDestinataires
  BY <1>1, <1>2, <1>7 DEF LireDestinataires, DestinatairesInApp, Types, TypeOK
<1>8. ASSUME NEW p \in Parents, CreerCarte(p)
      PROVE  TypeOK'
  BY <1>1, <1>2, <1>8 DEF CreerCarte, Types, TypeOK
<1> QED BY <1>3, <1>4, <1>5, <1>6, <1>7, <1>8 DEF PasDeCopie, Projeter

LEMMA TypesInit ==
  ASSUME Init
  PROVE  Types
<1>1. FoyerTypeOK
  BY FoyerTypesInit DEF Init
<1>2. \A c \in Commandes : TxCoherente(tx[c])
  BY ReposType DEF Init, FoyerInit
<1> QED BY <1>1, <1>2 DEF Types, TypeOK, Init

LEMMA TypesNext ==
  ASSUME Types, [Next]_vars,
         \A c \in Commandes : EnEcriture(c) /\ tx[c].jeton # Aucun => Utilisable(tx[c].jeton)
  PROVE  Types'
<1>1. CASE Emettre
  <2>1. FoyerTypeOK' /\ \A c \in Commandes : TxCoherente(tx'[c])
    BY <1>1, FoyerTypesSuit DEF Emettre
  <2>2. UNCHANGED copie /\ outbox \subseteq outbox'
    BY <1>1, OutboxGrandit DEF Emettre
  <2> QED BY <2>1, <2>2 DEF Types, TypeOK, copie
<1>2. CASE PasDeCopie
  <2>1. TypeOK'
    BY <1>2, CopieTypee
  <2>2. UNCHANGED tx
    BY <1>2, CopieNEcritRien DEF foyerVars
  <2> QED BY <2>1, <2>2, TxSansChangement DEF Types
<1>3. CASE UNCHANGED vars
  <2>1. UNCHANGED tx
    BY <1>3 DEF vars, foyerVars
  <2>2. TypeOK'
    BY <1>3 DEF Types, TypeOK, FoyerTypeOK, vars, foyerVars, donnees, copie
  <2> QED BY <2>1, <2>2, TxSansChangement DEF Types
<1> QED BY <1>1, <1>2, <1>3 DEF Next, PasDeCopie

----------------------------------------------------------------------------
(* The steps, field by field.                                              *)

LEMMA Debute ==
  ASSUME Types, NEW c \in Commandes, Commencer(c)
  PROVE  /\ tx'[c].debut = debuts' /\ tx[c] = Repos
         /\ tx'[c].pc \in {"lire", "ecrire"}
         /\ tx'[c].pc = "ecrire" => tx'[c].op \in {"modifier", "activer"}
         /\ tx'[c].tenus = {}
<1>1. PICK d \in Demandes : tx' = [tx EXCEPT ![c] = [d EXCEPT !.debut = debuts']]
  BY DEF Commencer
<1>2. tx[c] = Repos
  BY DEF Commencer, Types, TxCoherente
<1>3. tx'[c] = [d EXCEPT !.debut = debuts']
  BY <1>1 DEF Types, TypeOK, FoyerTypeOK
<1>4. PICK op, p, e, j, oui, non : d = Demande(op, p, e, j, oui, non)
  BY DEF Demandes
<1>5. /\ tx'[c].debut = debuts' /\ tx'[c].tenus = {} /\ tx'[c].op = op
      /\ tx'[c].pc = IF op \in {"modifier", "activer"} THEN "ecrire" ELSE "lire"
  BY <1>3, <1>4 DEF Demande
<1> QED BY <1>2, <1>5

\* What a step that goes on keeps of its transaction.
LEMMA Continue ==
  ASSUME Types, NEW c \in Commandes, Lecture(c), ~Refuser(c)
  PROVE  /\ tx'[c].op = tx[c].op /\ tx'[c].debut = tx[c].debut /\ tx'[c].jeton = tx[c].jeton
         /\ tx'[c].oui = tx[c].oui
         /\ tx'[c].pc # "repos" /\ tx[c].pc # "repos"
<1>1. tx \in [Commandes -> TxTypes]
  BY DEF Types, TypeOK, FoyerTypeOK
<1>2. tx[c] \in TxTypes
  BY <1>1
<1>3. CASE LireInactifs(c)
  BY <1>1, <1>2, <1>3 DEF LireInactifs, TxTypes
<1>4. CASE LireActifs(c)
  BY <1>1, <1>2, <1>4 DEF LireActifs, TxTypes
<1>5. CASE VerrouillerActifs(c)
  BY <1>1, <1>2, <1>5 DEF VerrouillerActifs, TxTypes
<1>6. CASE LireParent(c)
  BY <1>1, <1>2, <1>6 DEF LireParent, TxTypes
<1>7. CASE LireJeton(c)
  BY <1>1, <1>2, <1>7 DEF LireJeton, TxTypes
<1>8. CASE EcrireCanaux(c)
  BY <1>1, <1>2, <1>8 DEF EcrireCanaux, TxTypes
<1>9. CASE RelireCanaux(c)
  BY <1>1, <1>2, <1>9 DEF RelireCanaux, TxTypes
<1>10. CASE LireIds(c)
  BY <1>1, <1>2, <1>10 DEF LireIds, TxTypes
<1> QED BY <1>3, <1>4, <1>5, <1>6, <1>7, <1>8, <1>9, <1>10 DEF Lecture

\* Where the reads lead, and what they found.
LEMMA Lu ==
  ASSUME Types, NEW c \in Commandes
  PROVE  /\ LireInactifs(c) =>
              tx[c].pc = "lire" /\ tx[c].op = "ajouter" /\ tx'[c].pc = "ecrire"
         /\ LireActifs(c) => tx[c].pc = "lire" /\ tx[c].op \in Gardees /\ tx'[c].pc = "garde"
         /\ VerrouillerActifs(c) =>
              /\ tx[c].pc = "garde" /\ tx'[c].pc = "ecrire"
              /\ tx'[c].tenus = tx[c].vus \cap Actifs /\ tx'[c].tenus # {tx'[c].p}
              /\ tx[c].op \in Gardees
         /\ LireParent(c) =>
              /\ tx[c].pc = "lire" /\ tx'[c].pc = "ecrire" /\ tx[c].op = "preferences"
              /\ tx'[c].p = tx[c].p /\ Existe(tx[c].p)
         /\ LireJeton(c) =>
              /\ tx[c].pc = "lire" /\ tx'[c].pc = "ecrire" /\ tx[c].op = "desabonner"
              /\ Utilisable(tx[c].jeton) /\ tx'[c].p = jetons[tx[c].jeton].p
              /\ prefs[tx'[c].p] \ tx'[c].non # {}
         /\ EcrireCanaux(c) =>
              /\ tx[c].pc = "ecrire" /\ tx'[c].pc = "relire" /\ tx[c].op \in DesCanaux
              /\ tx'[c].p = tx[c].p /\ tx'[c].non = tx[c].non
              /\ Existe(tx[c].p) /\ CanauxLibres(c) /\ Prendre(c)
         /\ RelireCanaux(c) =>
              /\ tx[c].pc = "relire" /\ tx'[c].pc = "valider"
              /\ tx'[c].p = tx[c].p /\ tx'[c].non = tx[c].non
              /\ tx'[c].effectives = Effectives(c)
              /\ tx[c].op = "preferences" => Effectives(c) # {}
         /\ LireIds(c) => tx[c].pc = "lire" /\ tx[c].op = "supprimer" /\ tx'[c].pc = "ecrire"
         /\ Refuser(c) => tx'[c] = Repos
<1>1. tx \in [Commandes -> TxTypes] /\ TxCoherente(tx[c])
  BY DEF Types, TypeOK, FoyerTypeOK
<1>2. tx[c] \in TxTypes
  BY <1>1
<1>3. ASSUME LireInactifs(c)
      PROVE  tx[c].pc = "lire" /\ tx[c].op = "ajouter" /\ tx'[c].pc = "ecrire"
  BY <1>1, <1>2, <1>3 DEF LireInactifs, TxTypes
<1>4. ASSUME LireActifs(c)
      PROVE  tx[c].pc = "lire" /\ tx[c].op \in Gardees /\ tx'[c].pc = "garde"
  BY <1>1, <1>2, <1>4 DEF LireActifs, TxTypes, Gardees
<1>5. ASSUME VerrouillerActifs(c)
      PROVE  /\ tx[c].pc = "garde" /\ tx'[c].pc = "ecrire"
             /\ tx'[c].tenus = tx[c].vus \cap Actifs /\ tx'[c].tenus # {tx'[c].p}
             /\ tx[c].op \in Gardees
  BY <1>1, <1>2, <1>5 DEF VerrouillerActifs, TxTypes, TxCoherente
<1>6. ASSUME LireParent(c)
      PROVE  /\ tx[c].pc = "lire" /\ tx'[c].pc = "ecrire" /\ tx[c].op = "preferences"
             /\ tx'[c].p = tx[c].p /\ Existe(tx[c].p)
  BY <1>1, <1>2, <1>6 DEF LireParent, TxTypes
<1>7. ASSUME LireJeton(c)
      PROVE  /\ tx[c].pc = "lire" /\ tx'[c].pc = "ecrire" /\ tx[c].op = "desabonner"
             /\ Utilisable(tx[c].jeton) /\ tx'[c].p = jetons[tx[c].jeton].p
             /\ prefs[tx'[c].p] \ tx'[c].non # {}
  <2>1. /\ tx'[c].pc = "ecrire" /\ tx'[c].p = jetons[tx[c].jeton].p
        /\ tx'[c].non = {jetons[tx[c].jeton].canal}
    BY <1>1, <1>2, <1>7 DEF LireJeton, TxTypes
  <2> QED BY <1>7, <2>1 DEF LireJeton
<1>8. ASSUME EcrireCanaux(c)
      PROVE  /\ tx[c].pc = "ecrire" /\ tx'[c].pc = "relire" /\ tx[c].op \in DesCanaux
             /\ tx'[c].p = tx[c].p /\ tx'[c].non = tx[c].non
             /\ Existe(tx[c].p) /\ CanauxLibres(c) /\ Prendre(c)
  BY <1>1, <1>2, <1>8 DEF EcrireCanaux, TxTypes, DesCanaux
<1>9. ASSUME RelireCanaux(c)
      PROVE  /\ tx[c].pc = "relire" /\ tx'[c].pc = "valider"
             /\ tx'[c].p = tx[c].p /\ tx'[c].non = tx[c].non
             /\ tx'[c].effectives = Effectives(c)
             /\ tx[c].op = "preferences" => Effectives(c) # {}
  BY <1>1, <1>2, <1>9 DEF RelireCanaux, TxTypes
<1>10. ASSUME LireIds(c)
       PROVE  tx[c].pc = "lire" /\ tx[c].op = "supprimer" /\ tx'[c].pc = "ecrire"
  BY <1>1, <1>2, <1>10 DEF LireIds, TxTypes
<1>11. ASSUME Refuser(c)
       PROVE  tx'[c] = Repos
  BY <1>1, <1>11 DEF Refuser, Terminer
<1> QED BY <1>3, <1>4, <1>5, <1>6, <1>7, <1>8, <1>9, <1>10, <1>11

\* The writes.
LEMMA Ecrit ==
  ASSUME Types, NEW c \in Commandes, EcrireParent(c)
  PROVE  /\ tx'[c] = Repos /\ tx[c].pc = "ecrire" /\ vivant
         /\ parents'[tx[c].p] = LigneEcrite(c) /\ parents'[tx[c].p] # Aucun
         /\ \A q \in Parents \ {tx[c].p} : parents'[q] = parents[q] /\ prefs'[q] = prefs[q]
         /\ Existe(tx[c].p) => prefs'[tx[c].p] = prefs[tx[c].p]
         /\ ~Existe(tx[c].p) => prefs'[tx[c].p] = Canaux /\ tx[c].op = "ajouter"
         /\ UNCHANGED <<vivant, jetons, usages, debuts>>
         /\ croises \subseteq croises'
         /\ \A d \in Commandes \ {c} : tx[c].p \notin tx[d].tenus
<1>1. tx[c].p \in Parents /\ LigneEcrite(c) \in Lignes
  BY EcritureTypee
<1>2. /\ parents \in [Parents -> Lignes \cup {Aucun}] /\ prefs \in [Parents -> SUBSET Canaux]
      /\ tx \in [Commandes -> TxTypes]
  BY DEF Types, TypeOK, FoyerTypeOK
<1>3. parents' = [parents EXCEPT ![tx[c].p] = LigneEcrite(c)]
  BY DEF EcrireParent
<1>4. prefs' = IF Existe(tx[c].p) THEN prefs ELSE [prefs EXCEPT ![tx[c].p] = Canaux]
  BY DEF EcrireParent
<1>5. tx'[c] = Repos
  BY <1>2 DEF EcrireParent, Terminer
<1>6. LigneEcrite(c) # Aucun
  BY <1>1, ConstantesParents
<1>7. UNCHANGED <<vivant, jetons, usages, debuts>> /\ croises \subseteq croises'
  BY DEF EcrireParent
<1>8. \A d \in Commandes \ {c} : tx[c].p \notin tx[d].tenus
  BY DEF EcrireParent, LigneLibre
<1>9. tx[c].pc = "ecrire" /\ vivant /\ (tx[c].op # "ajouter" => Existe(tx[c].p))
  BY DEF EcrireParent
<1>10. \A q \in Parents \ {tx[c].p} : parents'[q] = parents[q] /\ prefs'[q] = prefs[q]
  BY <1>2, <1>3, <1>4
<1>11. parents'[tx[c].p] = LigneEcrite(c)
  BY <1>1, <1>2, <1>3
<1> QED BY <1>1, <1>2, <1>4, <1>5, <1>6, <1>7, <1>8, <1>9, <1>10, <1>11

LEMMA Valide ==
  ASSUME Types, NEW c \in Commandes, ValiderCanaux(c)
  PROVE  /\ tx'[c] = Repos /\ tx[c].pc = "valider" /\ tx[c].p \in Parents
         /\ prefs'[tx[c].p] = Effectives(c)
         /\ \A q \in Parents \ {tx[c].p} : prefs'[q] = prefs[q]
         /\ outbox' = outbox \cup {Preferences(tx[c].debut, tx[c].p, tx[c].effectives)}
         /\ UNCHANGED <<vivant, parents, debuts>>
         /\ croises \subseteq croises'
         /\ Chevauche(c, tx[c].p) \/ Double(c, tx[c].p) => tx[c].p \in croises'
         /\ tx[c].jeton = Aucun => UNCHANGED <<jetons, usages>>
         /\ tx[c].jeton # Aucun =>
              /\ jetons' = [jetons EXCEPT ![tx[c].jeton].libre = FALSE]
              /\ usages' = [usages EXCEPT ![tx[c].jeton] = @ + 1]
              /\ tx[c].jeton \in Jetons
<1>1. tx[c].p \in Parents /\ (tx[c].jeton # Aucun => tx[c].jeton \in Jetons)
  BY CommitTypee
<1>2. prefs \in [Parents -> SUBSET Canaux] /\ tx \in [Commandes -> TxTypes]
  BY DEF Types, TypeOK, FoyerTypeOK
<1>3. prefs' = [prefs EXCEPT ![tx[c].p] = (@ \ tx[c].non) \cup tx[c].oui]
  BY DEF ValiderCanaux
<1>4. prefs'[tx[c].p] = Effectives(c) /\ \A q \in Parents \ {tx[c].p} : prefs'[q] = prefs[q]
  BY <1>1, <1>2, <1>3 DEF Effectives
<1>5. tx'[c] = Repos
  BY <1>2 DEF ValiderCanaux, Terminer
<1>6. /\ UNCHANGED <<vivant, parents, debuts>> /\ croises \subseteq croises' /\ tx[c].pc = "valider"
      /\ outbox' = outbox \cup {Preferences(tx[c].debut, tx[c].p, tx[c].effectives)}
      /\ Chevauche(c, tx[c].p) \/ Double(c, tx[c].p) => tx[c].p \in croises'
  BY DEF ValiderCanaux
<1>7. tx[c].jeton = Aucun => UNCHANGED <<jetons, usages>>
  BY DEF ValiderCanaux
<1>8. tx[c].jeton # Aucun =>
         /\ jetons' = [jetons EXCEPT ![tx[c].jeton].libre = FALSE]
         /\ usages' = [usages EXCEPT ![tx[c].jeton] = @ + 1]
  BY DEF ValiderCanaux
<1> QED BY <1>1, <1>4, <1>5, <1>6, <1>7, <1>8

LEMMA Efface ==
  ASSUME Types, NEW c \in Commandes, Effacer(c)
  PROVE  /\ tx'[c] = Repos /\ tx[c].op = "supprimer" /\ vivant /\ ~vivant'
         /\ \A p \in Parents : parents'[p] = Aucun /\ prefs'[p] = {}
         /\ \A j \in Jetons : jetons'[j] = Aucun
         /\ UNCHANGED <<usages, croises, debuts>>
         /\ \A d \in Commandes \ {c} : tx[d].tenus = {} /\ ~EnEcriture(d)
         /\ outbox' = outbox \cup {[type |-> "effacement", le |-> tx[c].debut, ids |-> tx[c].vus]}
BY DEF Effacer, Terminer, EnEcriture, Types, TypeOK, FoyerTypeOK

----------------------------------------------------------------------------
(* svc-foyer.                                                              *)

InvFoyer == Types /\ Erasure /\ Verrous /\ Comptes /\ Relus /\ DatesPropres /\ Emis

\* What the commits add to the outbox.
LEMMA Emet ==
  ASSUME Types, FoyerNext
  PROVE  \/ outbox' = outbox
         \/ \E c \in Commandes : EcrireParent(c)
         \/ \E c \in Commandes : ValiderCanaux(c)
         \/ \E c \in Commandes : Effacer(c)
<1>1. ASSUME NEW c \in Commandes, Commencer(c) \/ Lecture(c)
      PROVE  outbox' = outbox
  BY <1>1, LectureNEcritRien DEF Commencer, donnees
<1> QED BY <1>1 DEF FoyerNext, Requete, Lecture, EmettreJeton

LEMMA EcritEmet ==
  ASSUME Types, NEW c \in Commandes, EcrireParent(c)
  PROVE  /\ tx[c].op = "retirer" =>
              outbox' = outbox \cup {[type |-> "retrait", le |-> tx[c].debut, p |-> tx[c].p]}
         /\ tx[c].op \notin {"retirer", "ajouter"} =>
              outbox' = outbox \cup {Etat(tx[c].debut, tx[c].p, LigneEcrite(c))}
         /\ tx[c].op = "ajouter" =>
              outbox' = outbox \cup {Etat(tx[c].debut, tx[c].p, LigneEcrite(c)),
                                     Preferences(tx[c].debut, tx[c].p, prefs'[tx[c].p])}
BY DEF EcrireParent

LEMMA ErasureSuit ==
  ASSUME InvFoyer, FoyerNext
  PROVE  Erasure'
<1> USE DEF InvFoyer
<1>1. ASSUME NEW c \in Commandes, EcrireParent(c)
      PROVE  Erasure'
  <2>1. vivant /\ vivant'
    BY <1>1, Ecrit
  <2>2. Effacements = {}
    BY <2>1 DEF Erasure
  <2>3. \A e \in outbox' : e \in outbox \/ e.type \in {"etat", "retrait", "preferences"}
    BY <1>1, EcritEmet DEF Etat, Preferences, EcrireParent
  <2>4. Effacements' = {}
    BY <2>2, <2>3 DEF Effacements
  <2> QED BY <2>1, <2>4 DEF Erasure
<1>2. ASSUME NEW c \in Commandes, ValiderCanaux(c)
      PROVE  Erasure'
  <2>1. /\ UNCHANGED <<vivant, parents>>
        /\ outbox' = outbox \cup {Preferences(tx[c].debut, tx[c].p, tx[c].effectives)}
    BY <1>2, Valide
  <2>2. Effacements' = Effacements
    BY <2>1 DEF Effacements, Preferences
  <2> QED BY <2>1, <2>2 DEF Erasure, Existe
<1>3. ASSUME NEW c \in Commandes, Effacer(c)
      PROVE  Erasure'
  <2>1. vivant /\ ~vivant' /\ \A p \in Parents : parents'[p] = Aucun
    BY <1>3, Efface
  <2>2. outbox' = outbox \cup {[type |-> "effacement", le |-> tx[c].debut, ids |-> tx[c].vus]}
    BY <1>3, Efface
  <2>3. Effacements = {}
    BY <2>1 DEF Erasure
  <2>4. \A e, f \in Effacements' : e = f
    BY <2>2, <2>3 DEF Effacements
  <2> QED BY <2>1, <2>4 DEF Erasure, Existe
<1>4. ASSUME NEW c \in Commandes, Commencer(c) \/ Lecture(c)
      PROVE  Erasure'
  BY <1>4, LectureNEcritRien DEF Commencer, donnees, Erasure, Existe, Effacements
<1>5. ASSUME NEW j \in Jetons, NEW p \in Parents, EmettreJeton(j, p)
      PROVE  Erasure'
  BY <1>5 DEF EmettreJeton, Erasure, Existe, Effacements
<1> QED BY <1>1, <1>2, <1>3, <1>4, <1>5 DEF FoyerNext, Requete, Lecture

LEMMA VerrousSuit ==
  ASSUME InvFoyer, FoyerNext
  PROVE  Verrous'
<1> USE DEF InvFoyer
<1> SUFFICES ASSUME NEW d \in Commandes, NEW q \in tx'[d].tenus
             PROVE  q \in Actifs'
  BY DEF Verrous
<1>0. tx \in [Commandes -> TxTypes] /\ tx[d] \in TxTypes /\ \A e \in Commandes : TxCoherente(tx[e])
  BY DEF Types, TypeOK, FoyerTypeOK
<1>1. ASSUME NEW c \in Commandes, Requete(c)
      PROVE  q \in Actifs'
  <2>1. TxCoherente(tx'[d]) /\ (d # c => tx'[d] = tx[d])
    BY <1>1, TxSuit
  <2>2. tx'[d].pc = "ecrire" /\ tx'[d].op \in Gardees
    BY <2>1 DEF TxCoherente
  <2>3. CASE d # c
    <3>1. q \in tx[d].tenus /\ q \in Actifs /\ q \in Parents
      BY <2>1, <2>3 DEF Verrous, Actifs
    <3>2. parents'[q] = parents[q]
      <4>1. CASE EcrireParent(c)
        BY <2>3, <3>1, <4>1, Ecrit
      <4>2. CASE ValiderCanaux(c)
        BY <4>2, Valide
      <4>3. CASE Commencer(c) \/ Lecture(c)
        BY <4>3, LectureNEcritRien DEF Commencer, donnees
      <4>4. ~Effacer(c)
        BY <2>3, <3>1, Efface
      <4> QED BY <1>1, <4>1, <4>2, <4>3, <4>4 DEF Requete, Lecture
    <3> QED BY <3>1, <3>2 DEF Actifs, Actif, Existe
  <2>4. CASE d = c
    <3>1. ~Commencer(c)
      BY <2>4, Debute
    <3>2. ~(EcrireParent(c) \/ ValiderCanaux(c) \/ Effacer(c) \/ Refuser(c))
      <4>1. tx'[c] # Repos
        BY <2>2, <2>4 DEF Repos
      <4>2. EcrireParent(c) => tx'[c] = Repos
        BY Ecrit
      <4>3. ValiderCanaux(c) => tx'[c] = Repos
        BY Valide
      <4>4. Effacer(c) => tx'[c] = Repos
        BY Efface
      <4>5. Refuser(c) => tx'[c] = Repos
        BY Lu
      <4> QED BY <4>1, <4>2, <4>3, <4>4, <4>5
    <3>3. Lecture(c)
      BY <1>1, <3>1, <3>2 DEF Requete, Lecture
    <3>4. tx[c].op \in Gardees
      BY <2>2, <2>4, <3>2, <3>3, Continue
    <3>5. VerrouillerActifs(c)
      BY <2>2, <2>4, <3>2, <3>3, <3>4, Lu DEF Lecture, Gardees, DesCanaux
    <3>6. q \in Actifs
      BY <2>4, <3>5, Lu
    <3> QED BY <3>3, <3>6, LectureNEcritRien DEF Actifs, Actif, Existe
  <2> QED BY <2>3, <2>4
<1>2. ASSUME NEW j \in Jetons, NEW p \in Parents, EmettreJeton(j, p)
      PROVE  q \in Actifs'
  BY <1>2 DEF EmettreJeton, Verrous, Actifs, Actif, Existe
<1> QED BY <1>1, <1>2 DEF FoyerNext

\* Rows of parents disappear with the household only.
LEMMA ExisteReste ==
  ASSUME Types, NEW c \in Commandes, Requete(c), ~Effacer(c), NEW p \in Parents, Existe(p)
  PROVE  Existe(p)'
<1>1. CASE EcrireParent(c)
  BY <1>1, Ecrit DEF Existe
<1>2. CASE ValiderCanaux(c)
  BY <1>2, Valide DEF Existe
<1>3. CASE Commencer(c) \/ Lecture(c)
  BY <1>3, LectureNEcritRien DEF Commencer, donnees, Existe
<1> QED BY <1>1, <1>2, <1>3 DEF Requete, Lecture

\* A step that is neither the first nor the last of its transaction.
LEMMA Milieu ==
  ASSUME Types, NEW c \in Commandes, Requete(c), tx'[c].pc \notin {"repos", "lire"}, ~Commencer(c)
  PROVE  Lecture(c) /\ ~Refuser(c)
<1>1. tx'[c] # Repos
  BY DEF Repos
<1>2. EcrireParent(c) => tx'[c] = Repos
  BY Ecrit
<1>3. ValiderCanaux(c) => tx'[c] = Repos
  BY Valide
<1>4. Effacer(c) => tx'[c] = Repos
  BY Efface
<1>5. Refuser(c) => tx'[c] = Repos
  BY Lu
<1> QED BY <1>1, <1>2, <1>3, <1>4, <1>5 DEF Requete, Lecture

\* Who holds rows of channels held them, or has just written them.
LEMMA EcritureSuit ==
  ASSUME Types, NEW c \in Commandes, Requete(c), NEW d \in Commandes, EnEcriture(d)'
  PROVE  /\ tx'[d].jeton = tx[d].jeton /\ tx'[d].p = tx[d].p /\ tx'[d].op = tx[d].op
         /\ tx'[d].non = tx[d].non /\ tx'[d].oui = tx[d].oui
         /\ EnEcriture(d) \/ (d = c /\ EcrireCanaux(c))
         /\ d = c => EcrireCanaux(c) \/ RelireCanaux(c)
<1>1. CASE d # c
  <2>1. tx'[d] = tx[d]
    BY <1>1, TxSuit
  <2> QED BY <1>1, <2>1 DEF EnEcriture
<1>2. CASE d = c
  <2>1. tx'[c].pc \in {"relire", "valider"}
    BY <1>2 DEF EnEcriture
  <2>2. ~Commencer(c)
    BY <2>1, Debute
  <2>3. Lecture(c) /\ ~Refuser(c)
    BY <2>1, <2>2, Milieu
  <2>4. EcrireCanaux(c) \/ RelireCanaux(c)
    BY <2>1, <2>3, Lu DEF Lecture
  <2>5. tx'[c].jeton = tx[c].jeton /\ tx'[c].op = tx[c].op /\ tx'[c].oui = tx[c].oui
    BY <2>3, Continue
  <2>6. CASE EcrireCanaux(c)
    <3>1. tx'[c].p = tx[c].p /\ tx'[c].non = tx[c].non
      BY <2>6, Lu
    <3> QED BY <1>2, <2>5, <2>6, <3>1
  <2>7. CASE RelireCanaux(c)
    <3>1. tx'[c].p = tx[c].p /\ tx'[c].non = tx[c].non /\ tx[c].pc = "relire"
      BY <2>7, Lu
    <3> QED BY <1>2, <2>5, <2>7, <3>1 DEF EnEcriture
  <2> QED BY <2>4, <2>6, <2>7
<1> QED BY <1>1, <1>2

LEMMA ComptesSuit ==
  ASSUME InvFoyer, FoyerNext
  PROVE  Comptes'
<1> USE DEF InvFoyer
<1>0. /\ jetons \in [Jetons -> Liens \cup {Aucun}] /\ usages \in [Jetons -> Nat]
      /\ tx \in [Commandes -> TxTypes] /\ \A d \in Commandes : TxCoherente(tx[d])
  BY DEF Types, TypeOK, FoyerTypeOK
<1>1. ASSUME NEW c \in Commandes, Requete(c), UNCHANGED <<vivant, jetons, usages>>, ~Effacer(c)
      PROVE  Comptes'
  <2>1. \A j \in Jetons : jetons'[j] # Aucun => Existe(jetons[j].p)'
    <3>1. \A j \in Jetons : jetons[j] # Aucun => jetons[j].p \in Parents /\ Existe(jetons[j].p)
      BY <1>0 DEF Comptes, Liens
    <3> QED BY <1>1, <3>1, ExisteReste
  <2>2. \A d \in Commandes : EnEcriture(d)' /\ tx'[d].jeton # Aucun => Utilisable(tx[d].jeton)
    <3> SUFFICES ASSUME NEW d \in Commandes, EnEcriture(d)', tx'[d].jeton # Aucun
                 PROVE  Utilisable(tx[d].jeton)
      OBVIOUS
    <3>1. tx'[d].jeton = tx[d].jeton /\ (EnEcriture(d) \/ (d = c /\ EcrireCanaux(c)))
      BY <1>1, EcritureSuit
    <3>2. CASE EnEcriture(d)
      BY <3>1, <3>2 DEF Comptes
    <3>3. CASE d = c /\ EcrireCanaux(c)
      BY <3>1, <3>3, Lu DEF Prendre
    <3> QED BY <3>1, <3>2, <3>3
  <2>3. ASSUME NEW d \in Commandes, NEW e \in Commandes, EnEcriture(d)', EnEcriture(e)',
               tx'[d].jeton = tx'[e].jeton, tx'[d].jeton # Aucun
        PROVE  d = e
    <3>1. /\ tx'[d].jeton = tx[d].jeton /\ (EnEcriture(d) \/ (d = c /\ EcrireCanaux(c)))
          /\ tx'[e].jeton = tx[e].jeton /\ (EnEcriture(e) \/ (e = c /\ EcrireCanaux(c)))
      BY <1>1, <2>3, EcritureSuit
    <3>2. CASE EnEcriture(d) /\ EnEcriture(e)
      BY <2>3, <3>1, <3>2 DEF Comptes
    <3>3. CASE EcrireCanaux(c) /\ (d = c \/ e = c)
      <4>1. \A f \in Commandes \ {c} :
              tx[c].jeton # Aucun /\ tx[f].jeton = tx[c].jeton => ~EnEcriture(f)
        BY <3>3, Lu DEF CanauxLibres, EnEcriture
      <4> QED BY <2>3, <3>1, <3>3, <4>1
    <3> QED BY <3>1, <3>2, <3>3
  <2>4. \A d \in Commandes : EnEcriture(d)' /\ tx'[d].jeton # Aucun => Utilisable(tx[d].jeton)'
    BY <1>1, <2>2, EcritureSuit DEF Utilisable
  <2> QED BY <1>1, <2>1, <2>3, <2>4 DEF Comptes, Utilisable, LienUnique
<1>2. ASSUME NEW c \in Commandes, ValiderCanaux(c), tx[c].jeton # Aucun
      PROVE  Comptes'
  <2> DEFINE k == tx[c].jeton
  <2>1. /\ jetons' = [jetons EXCEPT ![k].libre = FALSE] /\ usages' = [usages EXCEPT ![k] = @ + 1]
        /\ k \in Jetons /\ UNCHANGED <<vivant, parents>> /\ tx'[c] = Repos
        /\ tx[c].pc = "valider"
    BY <1>2, Valide
  <2>2. Utilisable(k) /\ usages[k] = 0
    BY <1>2, <2>1 DEF Comptes, EnEcriture
  <2>3. jetons[k] \in Liens
    BY <1>0, <2>1, <2>2 DEF Utilisable
  <2>4. /\ jetons'[k] = [jetons[k] EXCEPT !.libre = FALSE]
        /\ usages'[k] = 1
        /\ \A j \in Jetons \ {k} : jetons'[j] = jetons[j] /\ usages'[j] = usages[j]
    <3> HIDE DEF k
    <3>1. jetons'[k] = [jetons[k] EXCEPT !.libre = FALSE]
      BY <1>0, <2>1
    <3>2. usages'[k] = 1
      BY <1>0, <2>1, <2>2
    <3>3. \A j \in Jetons \ {k} : jetons'[j] = jetons[j] /\ usages'[j] = usages[j]
      BY <1>0, <2>1
    <3> QED BY <3>1, <3>2, <3>3
  <2>5. jetons'[k].p = jetons[k].p /\ jetons'[k].libre = FALSE /\ jetons'[k] # Aucun
    <3>1. jetons'[k] \in Liens
      BY <2>3, <2>4 DEF Liens
    <3>2. jetons'[k].p = jetons[k].p /\ jetons'[k].libre = FALSE
      BY <2>3, <2>4 DEF Liens
    <3> QED BY <3>1, <3>2, ConstantesParents
  <2>6. Requete(c)
    BY <1>2 DEF Requete
  <2>7. \A d \in Commandes : EnEcriture(d)' => d # c /\ tx'[d] = tx[d] /\ EnEcriture(d)
    <3>1. ~EnEcriture(c)'
      BY <2>1 DEF EnEcriture, Repos
    <3> QED BY <2>6, <3>1, TxSuit DEF EnEcriture
  <2> HIDE DEF k
  <2>8. \A d \in Commandes : EnEcriture(d)' => tx[d].jeton # k
    BY <1>2, <2>1, <2>7 DEF Comptes, EnEcriture, k
  <2>9. \A d \in Commandes : EnEcriture(d)' /\ tx'[d].jeton # Aucun => Utilisable(tx[d].jeton)'
    <3> SUFFICES ASSUME NEW d \in Commandes, EnEcriture(d)', tx'[d].jeton # Aucun
                 PROVE  Utilisable(tx[d].jeton)'
      OBVIOUS
    <3>1. tx'[d] = tx[d] /\ EnEcriture(d) /\ tx[d].jeton # k
      BY <2>7, <2>8
    <3>2. tx[d].jeton \in Jetons
      <4>1. tx[d] \in TxTypes
        BY <1>0
      <4> QED BY <3>1, <4>1 DEF TxTypes
    <3>3. Utilisable(tx[d].jeton)
      BY <3>1 DEF Comptes
    <3> QED BY <2>4, <3>1, <3>2, <3>3 DEF Utilisable
  <2>10. \A d, e \in Commandes :
           EnEcriture(d)' /\ EnEcriture(e)' /\ tx'[d].jeton = tx'[e].jeton /\ tx'[d].jeton # Aucun => d = e
    BY <2>7 DEF Comptes
  <2>11. \A j \in Jetons : jetons'[j] # Aucun => Existe(jetons[j].p)'
    <3>1. \A j \in Jetons : jetons'[j] # Aucun => jetons[j] # Aucun /\ jetons'[j].p = jetons[j].p
      BY <2>2, <2>4, <2>5 DEF Utilisable
    <3> QED BY <2>1, <3>1 DEF Comptes, Existe
  <2>12. /\ \A j \in Jetons : jetons'[j] = Aucun /\ vivant' => usages'[j] = 0
         /\ \A j \in Jetons : Utilisable(j)' => usages'[j] = 0
         /\ LienUnique'
    BY <2>1, <2>4, <2>5 DEF Comptes, Utilisable, LienUnique
  <2> QED BY <2>9, <2>10, <2>11, <2>12 DEF Comptes
<1>3. ASSUME NEW c \in Commandes, Effacer(c)
      PROVE  Comptes'
  <2>1. /\ ~vivant' /\ \A j \in Jetons : jetons'[j] = Aucun
        /\ usages' = usages /\ tx'[c] = Repos
        /\ \A d \in Commandes \ {c} : ~EnEcriture(d)
    BY <1>3, Efface
  <2>2. \A d \in Commandes : ~EnEcriture(d)'
    <3>1. Requete(c)
      BY <1>3 DEF Requete
    <3> QED BY <2>1, <3>1, TxSuit DEF EnEcriture, Repos
  <2> QED BY <2>1, <2>2 DEF Comptes, Utilisable, LienUnique
<1>4. ASSUME NEW j \in Jetons, NEW p \in Parents, EmettreJeton(j, p)
      PROVE  Comptes'
  <2>1. /\ Existe(p) /\ jetons[j] = Aucun /\ UNCHANGED <<vivant, parents, usages, tx>>
        /\ jetons' = [jetons EXCEPT ![j] = [p |-> p, canal |-> Courriel, libre |-> TRUE]]
    BY <1>4 DEF EmettreJeton
  <2>2. vivant /\ usages[j] = 0
    BY <2>1 DEF Erasure, Comptes
  <2>3. /\ jetons'[j].p = p
        /\ \A k \in Jetons \ {j} : jetons'[k] = jetons[k]
    BY <1>0, <2>1
  <2>4. \A k \in Jetons : Utilisable(k) => k # j /\ Utilisable(k)'
    BY <2>1, <2>3 DEF Utilisable
  <2>5. \A d \in Commandes : tx[d].jeton # Aucun => tx[d].jeton \in Jetons
    BY <1>0 DEF TxTypes
  <2>6. \A d \in Commandes : EnEcriture(d)' /\ tx'[d].jeton # Aucun => Utilisable(tx[d].jeton)'
    BY <2>1, <2>4, <2>5 DEF Comptes, EnEcriture
  <2>7. \A d, e \in Commandes :
          EnEcriture(d)' /\ EnEcriture(e)' /\ tx'[d].jeton = tx'[e].jeton /\ tx'[d].jeton # Aucun => d = e
    BY <2>1 DEF Comptes, EnEcriture
  <2>8. \A k \in Jetons : jetons'[k] # Aucun => Existe(jetons[k].p)'
    BY <2>1, <2>3 DEF Comptes, Existe
  <2>9. /\ \A k \in Jetons : jetons'[k] = Aucun /\ vivant' => usages'[k] = 0
        /\ \A k \in Jetons : Utilisable(k)' => usages'[k] = 0
        /\ LienUnique'
    BY <2>1, <2>2, <2>3 DEF Comptes, Utilisable, LienUnique
  <2> QED BY <2>6, <2>7, <2>8, <2>9 DEF Comptes
<1>5. ASSUME NEW c \in Commandes, Requete(c), ~Effacer(c), ~(ValiderCanaux(c) /\ tx[c].jeton # Aucun)
      PROVE  UNCHANGED <<vivant, jetons, usages>>
  <2>1. CASE EcrireParent(c)
    BY <2>1, Ecrit
  <2>2. CASE ValiderCanaux(c) /\ tx[c].jeton = Aucun
    BY <2>2, Valide
  <2>3. CASE Commencer(c) \/ Lecture(c)
    BY <2>3, LectureNEcritRien DEF Commencer, donnees
  <2> QED BY <1>5, <2>1, <2>2, <2>3 DEF Requete, Lecture
<1> QED BY <1>1, <1>2, <1>3, <1>4, <1>5 DEF FoyerNext

\* Relus, of one transaction.
RelusDe(d) ==
  /\ tx[d].op \in DesCanaux /\ tx[d].pc = "ecrire" /\ vivant => Existe(tx[d].p)
  /\ EnEcriture(d) => Existe(tx[d].p)
  /\ tx[d].op = "desabonner" /\ tx[d].pc # "lire" /\ Existe(tx[d].p) /\ tx[d].p \notin croises =>
       prefs[tx[d].p] \ tx[d].non # {}
  /\ tx[d].pc = "valider" /\ tx[d].p \notin croises => tx[d].effectives = Effectives(d)
  /\ tx[d].pc = "valider" /\ tx[d].op = "preferences" => tx[d].effectives # {}

LEMMA RelusParTransaction ==
  Relus <=> Joignable /\ \A d \in Commandes : RelusDe(d)
BY DEF Relus, RelusDe

LEMMA ReposRelu ==
  ASSUME NEW d \in Commandes, tx'[d] = Repos
  PROVE  RelusDe(d)'
BY ConstantesParents DEF RelusDe, Repos, EnEcriture, Operations

\* The channels of a parent who exists, or existed, under a transaction.
LEMMA ParentDuLien ==
  ASSUME Types, NEW d \in Commandes, tx[d].op \in DesCanaux, tx[d].pc # "lire" \/ tx[d].op = "preferences"
  PROVE  tx[d].p \in Parents
<1>1. tx[d] \in TxTypes /\ TxCoherente(tx[d])
  BY DEF Types, TypeOK, FoyerTypeOK
<1> QED BY <1>1 DEF TxCoherente, DesCanaux

LEMMA LectureRelue ==
  ASSUME InvFoyer, NEW c \in Commandes, Lecture(c)
  PROVE  RelusDe(c)'
<1> USE DEF InvFoyer
<1>0. UNCHANGED <<vivant, parents, prefs, jetons, outbox, usages, croises, debuts>>
  BY LectureNEcritRien
<1>00. jetons \in [Jetons -> Liens \cup {Aucun}] /\ tx[c] \in TxTypes /\ TxCoherente(tx[c])
  BY DEF Types, TypeOK, FoyerTypeOK
<1>1. CASE Refuser(c)
  BY <1>1, Lu, ReposRelu
<1>2. CASE ~Refuser(c)
  <2>0. tx'[c].op = tx[c].op /\ tx'[c].oui = tx[c].oui
    BY <1>2, Continue
  <2>1. CASE tx[c].op \notin DesCanaux
    <3>1. ~(EcrireCanaux(c) \/ RelireCanaux(c))
      BY <1>00, <2>1, Lu DEF TxCoherente
    <3>2. tx'[c].pc \in {"ecrire", "garde"}
      BY <1>2, <3>1, Lu DEF Lecture
    <3> QED BY <2>0, <2>1, <3>2 DEF RelusDe, EnEcriture, DesCanaux
  <2>2. CASE LireParent(c)
    <3>1. tx'[c].pc = "ecrire" /\ tx[c].op = "preferences" /\ tx'[c].p = tx[c].p /\ Existe(tx[c].p)
      BY <2>2, Lu
    <3> QED BY <1>0, <2>0, <3>1 DEF RelusDe, EnEcriture, Existe
  <2>3. CASE LireJeton(c)
    <3>1. /\ tx'[c].pc = "ecrire" /\ tx[c].op = "desabonner"
          /\ Utilisable(tx[c].jeton) /\ tx'[c].p = jetons[tx[c].jeton].p
          /\ prefs[tx'[c].p] \ tx'[c].non # {}
      BY <2>3, Lu
    <3>2. tx[c].jeton \in Jetons
      BY <1>00, <3>1 DEF TxTypes, TxCoherente
    <3>3. Existe(jetons[tx[c].jeton].p)
      BY <3>1, <3>2 DEF Utilisable, Comptes
    <3> QED BY <1>0, <2>0, <3>1, <3>3 DEF RelusDe, EnEcriture, Existe
  <2>4. CASE EcrireCanaux(c)
    <3>1. /\ tx[c].pc = "ecrire" /\ tx'[c].pc = "relire"
          /\ tx'[c].p = tx[c].p /\ tx'[c].non = tx[c].non /\ Existe(tx[c].p)
      BY <2>4, Lu
    <3>2. RelusDe(c)
      BY RelusParTransaction
    <3> QED BY <1>0, <2>0, <3>1, <3>2 DEF RelusDe, EnEcriture, Existe
  <2>5. CASE RelireCanaux(c)
    <3>1. /\ tx[c].pc = "relire" /\ tx'[c].pc = "valider"
          /\ tx'[c].p = tx[c].p /\ tx'[c].non = tx[c].non
          /\ tx'[c].effectives = Effectives(c)
          /\ tx[c].op = "preferences" => Effectives(c) # {}
      BY <2>5, Lu
    <3>2. RelusDe(c)
      BY RelusParTransaction
    <3>3. Effectives(c)' = Effectives(c)
      BY <1>0, <2>0, <3>1 DEF Effectives
    <3> QED BY <1>0, <2>0, <3>1, <3>2, <3>3 DEF RelusDe, EnEcriture, Existe
  <2>6. tx[c].op \in DesCanaux => LireParent(c) \/ LireJeton(c) \/ EcrireCanaux(c) \/ RelireCanaux(c)
    BY <1>2, Lu DEF Lecture, DesCanaux, Gardees
  <2> QED BY <2>1, <2>2, <2>3, <2>4, <2>5, <2>6
<1> QED BY <1>1, <1>2

LEMMA RelusSuit ==
  ASSUME InvFoyer, FoyerNext
  PROVE  Relus'
<1> USE DEF InvFoyer
<1>0. Joignable /\ \A d \in Commandes : RelusDe(d)
  BY RelusParTransaction
<1> SUFFICES Joignable' /\ \A d \in Commandes : RelusDe(d)'
  BY DEF Relus, RelusDe
<1>1. ASSUME NEW c \in Commandes, Commencer(c)
      PROVE  Joignable' /\ \A d \in Commandes : RelusDe(d)'
  <2>1. UNCHANGED <<vivant, parents, prefs, croises>> /\ Requete(c)
    BY <1>1 DEF Commencer, donnees, Requete
  <2>2. ASSUME NEW d \in Commandes \ {c}
        PROVE  RelusDe(d)'
    <3>1. tx'[d] = tx[d]
      BY <2>1, TxSuit
    <3> QED BY <1>0, <2>1, <3>1 DEF RelusDe, EnEcriture, Existe, Effectives
  <2>3. RelusDe(c)'
    <3>1. tx'[c].pc \in {"lire", "ecrire"} /\ (tx'[c].pc = "ecrire" => tx'[c].op \in {"modifier", "activer"})
      BY <1>1, Debute
    <3> QED BY <3>1 DEF RelusDe, EnEcriture, DesCanaux
  <2>4. Joignable'
    BY <1>0, <2>1 DEF Joignable, Existe
  <2> QED BY <2>2, <2>3, <2>4
<1>2. ASSUME NEW c \in Commandes, Lecture(c)
      PROVE  Joignable' /\ \A d \in Commandes : RelusDe(d)'
  <2>1. UNCHANGED <<vivant, parents, prefs, croises>> /\ Requete(c)
    BY <1>2, LectureNEcritRien DEF Lecture, Requete
  <2>2. ASSUME NEW d \in Commandes \ {c}
        PROVE  RelusDe(d)'
    <3>1. tx'[d] = tx[d]
      BY <2>1, TxSuit
    <3> QED BY <1>0, <2>1, <3>1 DEF RelusDe, EnEcriture, Existe, Effectives
  <2>3. RelusDe(c)'
    BY <1>2, LectureRelue
  <2>4. Joignable'
    BY <1>0, <2>1 DEF Joignable, Existe
  <2> QED BY <2>2, <2>3, <2>4
<1>3. ASSUME NEW c \in Commandes, EcrireParent(c)
      PROVE  Joignable' /\ \A d \in Commandes : RelusDe(d)'
  <2>0. Requete(c)
    BY <1>3 DEF Requete
  <2>1. /\ tx'[c] = Repos /\ vivant /\ vivant'
        /\ \A q \in Parents \ {tx[c].p} : parents'[q] = parents[q] /\ prefs'[q] = prefs[q]
        /\ Existe(tx[c].p) => prefs'[tx[c].p] = prefs[tx[c].p]
        /\ ~Existe(tx[c].p) => prefs'[tx[c].p] = Canaux
        /\ croises \subseteq croises'
    BY <1>3, Ecrit
  <2>2. \A q \in Parents : Existe(q) => Existe(q)' /\ prefs'[q] = prefs[q]
    <3>1. ~Effacer(c)
      BY <2>1, Efface
    <3> QED BY <2>0, <2>1, <3>1, ExisteReste
  <2>3. ASSUME NEW d \in Commandes \ {c}
        PROVE  RelusDe(d)'
    <3>1. tx'[d] = tx[d] /\ RelusDe(d) /\ TxCoherente(tx[d]) /\ tx[d] \in TxTypes
      BY <1>0, <2>0, TxSuit DEF Types, TypeOK, FoyerTypeOK
    <3>2. CASE tx[d].op \in DesCanaux /\ tx[d].pc # "lire"
      <4>1. tx[d].p \in Parents
        BY <3>2, ParentDuLien
      <4>2. tx[d].pc \in {"ecrire", "relire", "valider"}
        <5>1. tx[d].pc # "repos"
          BY <3>1, <3>2, ConstantesParents DEF TxCoherente, Repos, DesCanaux, Operations
        <5>2. tx[d].pc # "garde"
          BY <3>1, <3>2 DEF TxCoherente, DesCanaux, Gardees
        <5> QED BY <3>1, <3>2, <5>1, <5>2 DEF TxTypes, Phases
      <4>3. Existe(tx[d].p)
        BY <2>1, <3>1, <3>2, <4>2 DEF RelusDe, EnEcriture
      <4>4. parents'[tx[d].p] # Aucun /\ prefs'[tx[d].p] = prefs[tx[d].p]
        BY <2>2, <4>1, <4>3 DEF Existe
      <4>5. Effectives(d)' = Effectives(d) /\ Existe(tx[d].p)'
        BY <3>1, <4>4 DEF Effectives, Existe
      <4> QED BY <2>1, <3>1, <4>3, <4>4, <4>5 DEF RelusDe, EnEcriture
    <3>3. CASE ~(tx[d].op \in DesCanaux /\ tx[d].pc # "lire")
      <4>1. tx[d].pc \notin {"relire", "valider"}
        BY <3>1, <3>3 DEF TxCoherente
      <4> QED BY <3>1, <3>3, <4>1 DEF RelusDe, EnEcriture, DesCanaux
    <3> QED BY <3>2, <3>3
  <2>4. RelusDe(c)'
    BY <2>1, ReposRelu
  <2>5. Joignable'
    <3> SUFFICES ASSUME NEW q \in Parents, Existe(q)', q \notin croises'
                 PROVE  prefs'[q] # {}
      BY DEF Joignable
    <3>1. CASE Existe(q)
      BY <1>0, <2>1, <2>2, <3>1 DEF Joignable
    <3>2. CASE ~Existe(q)
      <4>1. q = tx[c].p
        BY <2>1, <3>2 DEF Existe
      <4> QED BY <2>1, <3>2, <4>1, ConstantesParents
    <3> QED BY <3>1, <3>2
  <2> QED BY <2>3, <2>4, <2>5
<1>4. ASSUME NEW c \in Commandes, ValiderCanaux(c)
      PROVE  Joignable' /\ \A d \in Commandes : RelusDe(d)'
  <2>0. Requete(c)
    BY <1>4 DEF Requete
  <2>1. /\ tx'[c] = Repos /\ tx[c].pc = "valider" /\ tx[c].p \in Parents
        /\ prefs'[tx[c].p] = Effectives(c)
        /\ \A q \in Parents \ {tx[c].p} : prefs'[q] = prefs[q]
        /\ UNCHANGED <<vivant, parents>>
        /\ croises \subseteq croises'
        /\ Chevauche(c, tx[c].p) => tx[c].p \in croises'
    BY <1>4, Valide
  <2>2. ASSUME NEW d \in Commandes \ {c}
        PROVE  RelusDe(d)'
    <3>1. tx'[d] = tx[d] /\ RelusDe(d) /\ TxCoherente(tx[d])
      BY <1>0, <2>0, TxSuit DEF Types
    <3>2. CASE tx[d].op \in DesCanaux /\ tx[d].pc # "lire"
      <4>1. tx[d].p \in Parents
        BY <3>2, ParentDuLien
      <4>2. tx[d].pc # "repos"
        BY <3>1, <3>2, ConstantesParents DEF TxCoherente, Repos, DesCanaux, Operations
      <4>3. tx[d].p = tx[c].p => tx[d].p \in croises'
        BY <2>1, <4>2 DEF Chevauche
      <4>4. tx[d].p # tx[c].p => prefs'[tx[d].p] = prefs[tx[d].p] /\ Effectives(d)' = Effectives(d)
        BY <2>1, <3>1, <4>1 DEF Effectives
      <4> QED BY <2>1, <3>1, <4>3, <4>4 DEF RelusDe, EnEcriture, Existe
    <3>3. CASE ~(tx[d].op \in DesCanaux /\ tx[d].pc # "lire")
      <4>1. tx[d].pc \notin {"relire", "valider"}
        BY <3>1, <3>3 DEF TxCoherente
      <4> QED BY <3>1, <3>3, <4>1 DEF RelusDe, EnEcriture, DesCanaux
    <3> QED BY <3>2, <3>3
  <2>3. RelusDe(c)'
    BY <2>1, ReposRelu
  <2>4. Joignable'
    <3> SUFFICES ASSUME NEW q \in Parents, Existe(q)', q \notin croises'
                 PROVE  prefs'[q] # {}
      BY DEF Joignable
    <3>1. CASE q # tx[c].p
      BY <1>0, <2>1, <3>1 DEF Joignable, Existe
    <3>2. CASE q = tx[c].p
      <4>1. RelusDe(c) /\ TxCoherente(tx[c])
        BY <1>0 DEF Types
      <4>2. CASE tx[c].op = "preferences"
        BY <2>1, <3>2, <4>1, <4>2 DEF RelusDe
      <4>3. CASE tx[c].op = "desabonner"
        <5>1. prefs[q] \ tx[c].non # {}
          BY <2>1, <3>2, <4>1, <4>3 DEF RelusDe, EnEcriture
        <5> QED BY <2>1, <3>2, <5>1 DEF Effectives
      <4> QED BY <2>1, <4>1, <4>2, <4>3 DEF TxCoherente, DesCanaux
    <3> QED BY <3>1, <3>2
  <2> QED BY <2>2, <2>3, <2>4
<1>5. ASSUME NEW c \in Commandes, Effacer(c)
      PROVE  Joignable' /\ \A d \in Commandes : RelusDe(d)'
  <2>0. Requete(c)
    BY <1>5 DEF Requete
  <2>1. /\ tx'[c] = Repos /\ ~vivant' /\ \A p \in Parents : parents'[p] = Aucun
        /\ \A d \in Commandes \ {c} : ~EnEcriture(d)
    BY <1>5, Efface
  <2>2. ASSUME NEW d \in Commandes \ {c}
        PROVE  RelusDe(d)'
    <3>1. tx'[d] = tx[d] /\ ~EnEcriture(d)' /\ ~EnEcriture(d)
      BY <2>0, <2>1, TxSuit DEF EnEcriture
    <3>2. tx[d].op = "desabonner" /\ tx[d].pc # "lire" => ~Existe(tx[d].p)'
      <4>1. tx[d].op = "desabonner" /\ tx[d].pc # "lire" => tx[d].p \in Parents
        BY ParentDuLien DEF DesCanaux
      <4> QED BY <2>1, <3>1, <4>1 DEF Existe
    <3> QED BY <2>1, <3>1, <3>2 DEF RelusDe, EnEcriture
  <2>3. RelusDe(c)'
    BY <2>1, ReposRelu
  <2> QED BY <2>1, <2>2, <2>3 DEF Joignable, Existe
<1>6. ASSUME NEW j \in Jetons, NEW p \in Parents, EmettreJeton(j, p)
      PROVE  Joignable' /\ \A d \in Commandes : RelusDe(d)'
  <2>1. UNCHANGED <<vivant, parents, prefs, croises, tx>>
    BY <1>6 DEF EmettreJeton
  <2> QED BY <1>0, <2>1 DEF Joignable, RelusDe, EnEcriture, Existe, Effectives
<1> QED BY <1>1, <1>2, <1>3, <1>4, <1>5, <1>6 DEF FoyerNext, Requete, Lecture

\* The events of a step are those of one transaction, which ends.
LEMMA Nouveaux ==
  ASSUME Types, NEW c \in Commandes, Requete(c)
  PROVE  /\ \A e \in outbox' \ outbox : e.le = tx[c].debut /\ tx'[c] = Repos /\ tx[c].pc # "repos"
         /\ \A e, f \in outbox' \ outbox : e.type = f.type => e = f
         /\ \A e, f \in outbox' \ outbox : ~(e.type = "etat" /\ f.type = "retrait")
<1> DEFINE Bien == /\ \A e \in outbox' \ outbox :
                        e.le = tx[c].debut /\ tx'[c] = Repos /\ tx[c].pc # "repos"
                   /\ \A e, f \in outbox' \ outbox : e.type = f.type => e = f
                   /\ \A e, f \in outbox' \ outbox : ~(e.type = "etat" /\ f.type = "retrait")
<1> SUFFICES Bien
  OBVIOUS
<1>1. CASE EcrireParent(c)
  <2>1. tx'[c] = Repos /\ tx[c].pc = "ecrire"
    BY <1>1, Ecrit
  <2>2. CASE tx[c].op = "retirer"
    BY <1>1, <2>1, <2>2, EcritEmet
  <2>3. CASE tx[c].op \notin {"retirer", "ajouter"}
    BY <1>1, <2>1, <2>3, EcritEmet DEF Etat
  <2>4. CASE tx[c].op = "ajouter"
    BY <1>1, <2>1, <2>4, EcritEmet DEF Etat, Preferences
  <2> QED BY <2>2, <2>3, <2>4
<1>2. CASE ValiderCanaux(c)
  <2>1. /\ tx'[c] = Repos /\ tx[c].pc = "valider"
        /\ outbox' = outbox \cup {Preferences(tx[c].debut, tx[c].p, tx[c].effectives)}
    BY <1>2, Valide
  <2> QED BY <2>1 DEF Preferences
<1>3. CASE Effacer(c)
  <2>1. tx[c].pc = "ecrire"
    BY <1>3 DEF Effacer
  <2> QED BY <1>3, <2>1, Efface
<1>4. CASE Commencer(c) \/ Lecture(c)
  BY <1>4, LectureNEcritRien DEF Commencer, donnees
<1> QED BY <1>1, <1>2, <1>3, <1>4 DEF Requete, Lecture

\* A transaction keeps its date until it ends.
LEMMA DateGardee ==
  ASSUME Types, NEW c \in Commandes, Requete(c), ~Commencer(c)
  PROVE  /\ debuts' = debuts
         /\ \/ tx'[c] = Repos
            \/ tx'[c].debut = tx[c].debut /\ tx'[c].pc # "repos" /\ tx[c].pc # "repos"
<1>1. CASE EcrireParent(c)
  BY <1>1, Ecrit
<1>2. CASE ValiderCanaux(c)
  BY <1>2, Valide
<1>3. CASE Effacer(c)
  BY <1>3, Efface
<1>4. CASE Lecture(c)
  BY <1>4, LectureNEcritRien, Continue, Lu
<1> QED BY <1>1, <1>2, <1>3, <1>4 DEF Requete, Lecture

LEMMA DatesPropresSuit ==
  ASSUME InvFoyer, FoyerNext
  PROVE  DatesPropres'
<1> USE DEF InvFoyer
<1>0. /\ debuts \in Nat /\ MAX_TX \in Nat
      /\ \A d \in Commandes : tx[d].debut \in Nat /\ TxCoherente(tx[d])
      /\ \A e \in outbox : e.le \in Nat \ {0} /\ e.type \in {"etat", "retrait", "preferences", "effacement"}
  <2>1. \A d \in Commandes : tx[d].debut \in 0 .. MAX_TX
    BY DEF Types, TypeOK, FoyerTypeOK, TxTypes
  <2>2. \A e \in outbox : e.le \in Dates
    BY EvenementType
  <2> QED BY <2>1, <2>2, EvenementType, ConstantesParents DEF Types, TypeOK, FoyerTypeOK, Dates
<1>1. ASSUME NEW c \in Commandes, Requete(c)
      PROVE  DatesPropres'
  <2>1. \A d \in Commandes \ {c} : tx'[d] = tx[d]
    BY <1>1, TxSuit
  <2>2. \A d \in Commandes : TxCoherente(tx'[d])
    BY <1>1, TxSuit
  <2>3. CASE Commencer(c)
    <3>1. debuts' = debuts + 1 /\ outbox' = outbox /\ tx'[c].debut = debuts'
      BY <2>3, Debute DEF Commencer, donnees
    <3>2. \A e \in outbox' : e.le <= debuts'
      BY <1>0, <3>1 DEF DatesPropres
    <3>3. \A d \in Commandes : tx'[d].debut <= debuts'
      BY <1>0, <2>1, <3>1 DEF DatesPropres
    <3>4. \A d \in Commandes, e \in outbox' : tx'[d].debut # e.le
      BY <1>0, <2>1, <3>1 DEF DatesPropres
    <3>5. \A d, g \in Commandes : tx'[d].debut = tx'[g].debut /\ tx'[d].pc # "repos" => d = g
      <4>1. \A d \in Commandes \ {c} : tx'[d].debut # debuts'
        BY <1>0, <2>1, <3>1 DEF DatesPropres
      <4> QED BY <2>1, <3>1, <4>1 DEF DatesPropres
    <3>6. /\ \A e, f \in outbox' : e.le = f.le /\ e.type = f.type /\ e.type # "effacement" /\ e.p = f.p => e = f
          /\ \A p \in Parents : \A e \in EtatsDe(p)', f \in RetraitsDe(p)' : e.le # f.le
      BY <3>1 DEF DatesPropres, EtatsDe, RetraitsDe, EvenementsDe
    <3> QED BY <3>2, <3>3, <3>4, <3>5, <3>6 DEF DatesPropres
  <2>4. CASE ~Commencer(c)
    <3>1. /\ debuts' = debuts
          /\ \/ tx'[c] = Repos
             \/ tx'[c].debut = tx[c].debut /\ tx'[c].pc # "repos" /\ tx[c].pc # "repos"
      BY <1>1, <2>4, DateGardee
    <3>2. \A e \in outbox' \ outbox : e.le = tx[c].debut /\ tx'[c] = Repos /\ tx[c].pc # "repos"
      BY <1>1, Nouveaux
    <3>3. tx'[c] = Repos => tx'[c].debut = 0 /\ tx'[c].pc = "repos"
      BY DEF Repos
    <3>4. \A d \in Commandes : tx[d].pc # "repos" => tx[d].debut # 0
      BY <1>0 DEF TxCoherente
    <3>5. \A e \in outbox' : e.le <= debuts'
      BY <1>0, <3>1, <3>2 DEF DatesPropres
    <3>6. \A d \in Commandes : tx'[d].debut <= debuts'
      BY <1>0, <2>1, <3>1, <3>3 DEF DatesPropres
    <3>7. ASSUME NEW d \in Commandes, NEW e \in outbox'
          PROVE  tx'[d].debut # e.le
      <4>1. CASE e \in outbox
        BY <1>0, <2>1, <3>1, <3>3, <4>1 DEF DatesPropres
      <4>2. CASE e \notin outbox
        <5>1. e.le = tx[c].debut /\ tx'[c] = Repos /\ tx[c].pc # "repos"
          BY <3>2, <4>2
        <5>2. CASE d = c
          BY <3>3, <3>4, <5>1, <5>2
        <5>3. CASE d # c
          BY <2>1, <5>1, <5>3 DEF DatesPropres
        <5> QED BY <5>2, <5>3
      <4> QED BY <4>1, <4>2
    <3>8. ASSUME NEW d \in Commandes, NEW g \in Commandes,
                 tx'[d].debut = tx'[g].debut, tx'[d].pc # "repos"
          PROVE  d = g
      <4>1. tx'[d].debut = tx[d].debut /\ tx[d].pc # "repos"
        BY <2>1, <3>1, <3>3, <3>8
      <4>2. tx'[g].debut = tx[g].debut \/ tx'[g].debut = 0
        BY <2>1, <3>1, <3>3
      <4> QED BY <3>4, <3>8, <4>1, <4>2 DEF DatesPropres
    <3>9. ASSUME NEW e \in outbox', NEW f \in outbox', e.le = f.le
          PROVE  /\ e.type = f.type /\ e.type # "effacement" /\ e.p = f.p => e = f
                 /\ ~(e.type = "etat" /\ f.type = "retrait" /\ e.p = f.p)
      <4>1. CASE e \in outbox /\ f \in outbox
        <5>1. e.type = "etat" /\ f.type = "retrait" /\ e.p = f.p =>
                e.p \in Parents /\ e \in EtatsDe(e.p) /\ f \in RetraitsDe(e.p)
          BY <4>1, EvenementType DEF EtatsDe, RetraitsDe, EvenementsDe
        <5> QED BY <3>9, <4>1, <5>1 DEF DatesPropres
      <4>2. CASE e \notin outbox /\ f \notin outbox
        BY <1>1, <4>2, Nouveaux
      <4>3. CASE (e \in outbox) # (f \in outbox)
        BY <3>2, <3>9, <4>3 DEF DatesPropres
      <4> QED BY <4>1, <4>2, <4>3
    <3>10. \A p \in Parents : \A e \in EtatsDe(p)', f \in RetraitsDe(p)' : e.le # f.le
      BY <3>9 DEF EtatsDe, RetraitsDe, EvenementsDe
    <3>11. \A e, f \in outbox' : e.le = f.le /\ e.type = f.type /\ e.type # "effacement" /\ e.p = f.p => e = f
      BY <3>9
    <3>12. \A d, g \in Commandes : tx'[d].debut = tx'[g].debut /\ tx'[d].pc # "repos" => d = g
      BY <3>8
    <3> QED BY <3>5, <3>6, <3>7, <3>10, <3>11, <3>12 DEF DatesPropres
  <2> QED BY <2>3, <2>4
<1>2. ASSUME NEW j \in Jetons, NEW p \in Parents, EmettreJeton(j, p)
      PROVE  DatesPropres'
  BY <1>2 DEF EmettreJeton, DatesPropres, EtatsDe, RetraitsDe, EvenementsDe
<1> QED BY <1>1, <1>2 DEF FoyerNext

\* Emis, of one parent.
EmisDe(p) ==
  /\ ChoixDe(p) # {} \/ Existe(p) => EtatsDe(p) # {}
  /\ Existe(p) /\ p \notin croises =>
       /\ \E e \in EtatsDe(p) :
            /\ \A f \in EtatsDe(p) : f.le <= e.le
            /\ e.email = parents[p].email
            /\ parents[p].actif <=> e.actif /\ \A f \in RetraitsDe(p) : f.le < e.le
       /\ \E e \in ChoixDe(p) :
            /\ \A f \in ChoixDe(p) : f.le <= e.le
            /\ e.canaux = prefs[p]

LEMMA EmisParParent == Emis <=> \A p \in Parents : EmisDe(p)
BY DEF Emis, EmisDe

\* A step that leaves the row and the events of a parent leaves what they tell.
LEMMA EmisReste ==
  ASSUME NEW p \in Parents, EmisDe(p),
         EtatsDe(p)' = EtatsDe(p), RetraitsDe(p)' = RetraitsDe(p), ChoixDe(p)' = ChoixDe(p),
         (parents'[p] = parents[p] /\ prefs'[p] = prefs[p]) \/ parents'[p] = Aucun,
         croises \subseteq croises'
  PROVE  EmisDe(p)'
<1>1. Existe(p)' => Existe(p) /\ parents'[p] = parents[p] /\ prefs'[p] = prefs[p]
  BY DEF Existe
<1>2. p \notin croises' => p \notin croises
  OBVIOUS
<1> HIDE DEF Existe
<1> QED BY <1>1, <1>2 DEF EmisDe

\* The events of a parent after a step.
LEMMA Ajoutes ==
  ASSUME NEW p \in Parents, outbox \subseteq outbox'
  PROVE  /\ (\A e \in outbox' \ outbox : e.p = p => e.type # "etat") => EtatsDe(p)' = EtatsDe(p)
         /\ (\A e \in outbox' \ outbox : e.p = p => e.type # "retrait") => RetraitsDe(p)' = RetraitsDe(p)
         /\ (\A e \in outbox' \ outbox : e.p = p => e.type # "preferences") => ChoixDe(p)' = ChoixDe(p)
         /\ \A n \in outbox' :
              /\ n.type = "etat" /\ n.p = p
              /\ \A e \in outbox' \ outbox : e.type = "etat" => e = n
              => EtatsDe(p)' = EtatsDe(p) \cup {n}
         /\ \A n \in outbox' :
              /\ n.type = "preferences" /\ n.p = p
              /\ \A e \in outbox' \ outbox : e.type = "preferences" => e = n
              => ChoixDe(p)' = ChoixDe(p) \cup {n}
BY DEF EtatsDe, RetraitsDe, ChoixDe, EvenementsDe

\* A transaction that no younger event met is the youngest writer of its parent.
LEMMA PlusJeune ==
  ASSUME InvFoyer, NEW c \in Commandes, NEW p \in Parents, ~Double(c, p)
  PROVE  /\ \A e \in EtatsDe(p) \cup RetraitsDe(p) \cup ChoixDe(p) : e.le < tx[c].debut
         /\ tx[c].debut \in Nat
<1>1. tx[c].debut \in 0 .. MAX_TX
  BY DEF InvFoyer, Types, TypeOK, FoyerTypeOK, TxTypes
<1>2. tx[c].debut \in Nat
  BY <1>1, ConstantesParents
<1>3. ASSUME NEW e \in outbox, e.type # "effacement", e.p = p
      PROVE  e.le < tx[c].debut
  <2>1. e.le \in Dates
    BY EvenementType DEF InvFoyer
  <2>2. e.le \in Nat
    BY <2>1, ConstantesParents DEF Dates
  <2>3. ~(e.le > tx[c].debut) /\ e.le # tx[c].debut
    BY <1>3 DEF Double, InvFoyer, DatesPropres
  <2> QED BY <1>2, <2>2, <2>3
<1> QED BY <1>2, <1>3 DEF EtatsDe, RetraitsDe, ChoixDe, EvenementsDe

LEMMA EcritEmis ==
  ASSUME InvFoyer, NEW c \in Commandes, EcrireParent(c)
  PROVE  Emis'
<1> USE DEF InvFoyer
<1>0. PICK p, k, l : p = tx[c].p /\ k = tx[c].debut /\ l = LigneEcrite(c)
  OBVIOUS
<1>1. /\ p \in Parents /\ l \in Lignes /\ parents'[p] = l /\ l # Aucun
      /\ \A q \in Parents \ {p} : parents'[q] = parents[q] /\ prefs'[q] = prefs[q]
      /\ Existe(p) => prefs'[p] = prefs[p]
      /\ croises \subseteq croises'
  BY <1>0, EcritureTypee, Ecrit
<1>2. Double(c, p) => p \in croises'
  BY <1>0 DEF EcrireParent
<1>3. tx[c].op # "ajouter" => Existe(p)
  BY <1>0 DEF EcrireParent
<1>4. \A q \in Parents : EmisDe(q)
  BY EmisParParent
<1>5. tx[c].op = "retirer" => l = [parents[p] EXCEPT !.actif = FALSE]
  BY <1>0 DEF LigneEcrite
<1>6. tx[c].op = "retirer" => parents[p] \in Lignes
  BY <1>1, <1>3 DEF Existe, Types, TypeOK, FoyerTypeOK
<1>7. tx[c].op = "retirer" => l.email = parents[p].email /\ ~l.actif
  BY <1>5, <1>6 DEF Lignes
<1>8. /\ tx[c].op = "retirer" => outbox' = outbox \cup {[type |-> "retrait", le |-> k, p |-> p]}
      /\ tx[c].op \notin {"retirer", "ajouter"} => outbox' = outbox \cup {Etat(k, p, l)}
      /\ tx[c].op = "ajouter" =>
           outbox' = outbox \cup {Etat(k, p, l), Preferences(k, p, prefs'[p])}
  BY <1>0, EcritEmet
<1>9. ~Double(c, p) => /\ \A e \in EtatsDe(p) \cup RetraitsDe(p) \cup ChoixDe(p) : e.le < k
                       /\ k \in Nat
  BY <1>0, <1>1, PlusJeune
<1>10. \A e \in EtatsDe(p) \cup ChoixDe(p) : e.le \in Nat
  BY EvenementType, ConstantesParents DEF EtatsDe, ChoixDe, EvenementsDe, Dates
<1>11. p \notin croises' => p \notin croises /\ ~Double(c, p)
  BY <1>1, <1>2
<1>12. \A q \in Parents : Existe(q)' <=> parents'[q] # Aucun
  BY DEF Existe
<1>20. ASSUME NEW q \in Parents, q # p
       PROVE  EmisDe(q)'
  <2>1. EtatsDe(q)' = EtatsDe(q) /\ RetraitsDe(q)' = RetraitsDe(q) /\ ChoixDe(q)' = ChoixDe(q)
    <3>1. CASE tx[c].op = "retirer"
      BY <1>8, <1>20, <3>1, Ajoutes
    <3>2. CASE tx[c].op \notin {"retirer", "ajouter"}
      BY <1>8, <1>20, <3>2, Ajoutes DEF Etat
    <3>3. CASE tx[c].op = "ajouter"
      BY <1>8, <1>20, <3>3, Ajoutes DEF Etat, Preferences
    <3> QED BY <3>1, <3>2, <3>3
  <2> QED BY <1>1, <1>4, <1>20, <2>1, EmisReste
<1>21. ASSUME tx[c].op = "retirer"
       PROVE  EmisDe(p)'
  <2> DEFINE r == [type |-> "retrait", le |-> k, p |-> p]
  <2>0. r.le = k /\ r.type = "retrait" /\ r.p = p
    OBVIOUS
  <2>1. EtatsDe(p)' = EtatsDe(p) /\ ChoixDe(p)' = ChoixDe(p) /\ r \in RetraitsDe(p)'
    <3>1. outbox' = outbox \cup {r}
      BY <1>8, <1>21
    <3> HIDE DEF r
    <3>2. r \in RetraitsDe(p)'
      BY <2>0, <3>1 DEF RetraitsDe, EvenementsDe
    <3> QED BY <1>1, <2>0, <3>1, <3>2, Ajoutes
  <2> HIDE DEF r
  <2>2. EmisDe(p) /\ Existe(p)
    BY <1>1, <1>3, <1>4, <1>21
  <2>3. EtatsDe(p)' # {}
    BY <2>1, <2>2 DEF EmisDe
  <2>4. ASSUME p \notin croises'
        PROVE  /\ \E e \in EtatsDe(p)' :
                    /\ \A f \in EtatsDe(p)' : f.le <= e.le
                    /\ e.email = parents'[p].email
                    /\ parents'[p].actif <=> e.actif /\ \A f \in RetraitsDe(p)' : f.le < e.le
               /\ \E e \in ChoixDe(p)' :
                    /\ \A f \in ChoixDe(p)' : f.le <= e.le
                    /\ e.canaux = prefs'[p]
    <3>1. PICK e \in EtatsDe(p) : /\ \A f \in EtatsDe(p) : f.le <= e.le
                                  /\ e.email = parents[p].email
      BY <1>11, <2>2, <2>4 DEF EmisDe
    <3>2. e.le < k /\ e.le \in Nat /\ k \in Nat
      BY <1>9, <1>10, <1>11, <2>4
    <3>3. ~(\A f \in RetraitsDe(p)' : f.le < e.le)
      BY <2>0, <2>1, <3>2
    <3>4. e.email = parents'[p].email /\ ~parents'[p].actif
      BY <1>1, <1>7, <1>21, <3>1
    <3>5. \E g \in ChoixDe(p) : (\A f \in ChoixDe(p) : f.le <= g.le) /\ g.canaux = prefs[p]
      BY <1>11, <2>2, <2>4 DEF EmisDe
    <3> QED BY <1>1, <2>1, <2>2, <3>1, <3>3, <3>4, <3>5
  <2> QED BY <1>1, <2>3, <2>4 DEF EmisDe
<1>22. ASSUME tx[c].op # "retirer"
       PROVE  EmisDe(p)'
  <2> DEFINE n == Etat(k, p, l)
  <2>0. n.le = k /\ n.type = "etat" /\ n.p = p /\ n.email = l.email /\ (n.actif <=> l.actif)
    <3>1. n.actif = l.actif
      BY DEF Etat
    <3> QED BY <3>1 DEF Etat
  <2>1. EtatsDe(p)' = EtatsDe(p) \cup {n} /\ RetraitsDe(p)' = RetraitsDe(p)
    <3>1. CASE tx[c].op # "ajouter"
      <4> HIDE DEF n
      <4>1. outbox' = outbox \cup {n}
        BY <1>8, <1>22, <3>1 DEF n
      <4> QED BY <1>1, <2>0, <4>1, Ajoutes
    <3>2. CASE tx[c].op = "ajouter"
      <4> DEFINE m == Preferences(k, p, prefs'[p])
      <4>1. m.type = "preferences"
        BY DEF Preferences
      <4> HIDE DEF n, m
      <4>2. outbox' = outbox \cup {n, m}
        BY <1>8, <3>2 DEF n, m
      <4> QED BY <1>1, <2>0, <4>1, <4>2, Ajoutes
    <3> QED BY <3>1, <3>2
  <2>2. tx[c].op # "ajouter" => ChoixDe(p)' = ChoixDe(p)
    <3> HIDE DEF n
    <3>1. tx[c].op # "ajouter" => outbox' = outbox \cup {n}
      BY <1>8, <1>22 DEF n
    <3> QED BY <1>1, <2>0, <3>1, Ajoutes
  <2>3. tx[c].op = "ajouter" =>
          \E m : m.le = k /\ m.canaux = prefs'[p] /\ ChoixDe(p)' = ChoixDe(p) \cup {m}
    <3> DEFINE m == Preferences(k, p, prefs'[p])
    <3>1. m.type = "preferences" /\ m.le = k /\ m.p = p /\ m.canaux = prefs'[p]
      BY DEF Preferences
    <3> HIDE DEF n, m
    <3>2. tx[c].op = "ajouter" => outbox' = outbox \cup {n, m}
      BY <1>8 DEF n, m
    <3>3. tx[c].op = "ajouter" => ChoixDe(p)' = ChoixDe(p) \cup {m}
      BY <1>1, <2>0, <3>1, <3>2, Ajoutes
    <3> QED BY <3>1, <3>3
  <2> HIDE DEF n
  <2>4. ASSUME p \notin croises'
        PROVE  \E e \in EtatsDe(p)' :
                    /\ \A f \in EtatsDe(p)' : f.le <= e.le
                    /\ e.email = parents'[p].email
                    /\ parents'[p].actif <=> e.actif /\ \A f \in RetraitsDe(p)' : f.le < e.le
    <3>1. \A f \in EtatsDe(p)' : f.le <= n.le
      BY <1>9, <1>10, <1>11, <2>0, <2>1, <2>4
    <3>2. \A f \in RetraitsDe(p)' : f.le < n.le
      BY <1>9, <1>11, <2>0, <2>1, <2>4
    <3> QED BY <1>1, <2>0, <2>1, <3>1, <3>2
  <2>5. ASSUME p \notin croises'
        PROVE  \E e \in ChoixDe(p)' : (\A f \in ChoixDe(p)' : f.le <= e.le) /\ e.canaux = prefs'[p]
    <3>1. CASE tx[c].op = "ajouter"
      <4>1. PICK m : m.le = k /\ m.canaux = prefs'[p] /\ ChoixDe(p)' = ChoixDe(p) \cup {m}
        BY <2>3, <3>1
      <4>2. \A f \in ChoixDe(p)' : f.le <= m.le
        BY <1>9, <1>10, <1>11, <2>5, <4>1
      <4> QED BY <4>1, <4>2
    <3>2. CASE tx[c].op # "ajouter"
      <4>1. EmisDe(p) /\ Existe(p)
        BY <1>1, <1>3, <1>4, <3>2
      <4>2. \E e \in ChoixDe(p) : (\A f \in ChoixDe(p) : f.le <= e.le) /\ e.canaux = prefs[p]
        BY <1>11, <2>5, <4>1 DEF EmisDe
      <4> QED BY <1>1, <2>2, <3>2, <4>1, <4>2
    <3> QED BY <3>1, <3>2
  <2> QED BY <1>1, <2>1, <2>4, <2>5 DEF EmisDe
<1>23. EmisDe(p)'
  BY <1>21, <1>22
<1>24. \A q \in Parents : EmisDe(q)'
  BY <1>20, <1>23
<1> QED BY <1>24, EmisParParent DEF Emis, EmisDe

LEMMA CommitEmis ==
  ASSUME InvFoyer, NEW c \in Commandes, ValiderCanaux(c)
  PROVE  Emis'
<1> USE DEF InvFoyer
<1>0. PICK p, k, v : p = tx[c].p /\ k = tx[c].debut /\ v = tx[c].effectives
  OBVIOUS
<1>1. /\ p \in Parents /\ tx[c].pc = "valider"
      /\ prefs'[p] = Effectives(c)
      /\ \A q \in Parents \ {p} : prefs'[q] = prefs[q]
      /\ outbox' = outbox \cup {Preferences(k, p, v)}
      /\ parents' = parents
      /\ croises \subseteq croises' /\ (Double(c, p) => p \in croises')
  BY <1>0, Valide
<1>2. PICK m : /\ outbox' = outbox \cup {m} /\ m.type = "preferences"
               /\ m.le = k /\ m.p = p /\ m.canaux = v
  <2>1. /\ Preferences(k, p, v).type = "preferences" /\ Preferences(k, p, v).le = k
        /\ Preferences(k, p, v).p = p /\ Preferences(k, p, v).canaux = v
    BY DEF Preferences
  <2> QED BY <1>1, <2>1
<1>3. \A q \in Parents : EmisDe(q)
  BY EmisParParent
<1>4. \A q \in Parents : EtatsDe(q)' = EtatsDe(q) /\ RetraitsDe(q)' = RetraitsDe(q)
  BY <1>2, Ajoutes
<1>5. ChoixDe(p)' = ChoixDe(p) \cup {m}
  BY <1>1, <1>2, Ajoutes
<1>6. \A q \in Parents \ {p} : ChoixDe(q)' = ChoixDe(q)
  BY <1>2, Ajoutes
<1>7. Existe(p)
  BY <1>0, <1>1 DEF Relus, EnEcriture
<1>8. ASSUME p \notin croises'
      PROVE  \E e \in ChoixDe(p)' : (\A f \in ChoixDe(p)' : f.le <= e.le) /\ e.canaux = prefs'[p]
  <2>1. v = Effectives(c)
    BY <1>0, <1>1, <1>8 DEF Relus
  <2>2. (\A e \in ChoixDe(p) : e.le < k) /\ k \in Nat
    BY <1>0, <1>1, <1>8, PlusJeune
  <2>3. \A e \in ChoixDe(p) : e.le \in Nat
    BY EvenementType, ConstantesParents DEF ChoixDe, EvenementsDe, Dates
  <2>4. \A f \in ChoixDe(p)' : f.le <= m.le
    BY <1>2, <1>5, <2>2, <2>3
  <2> QED BY <1>1, <1>2, <1>5, <2>1, <2>4
<1>9. EmisDe(p)'
  <2>1. EtatsDe(p)' # {}
    BY <1>1, <1>3, <1>4, <1>7 DEF EmisDe
  <2>2. p \notin croises' =>
          \E e \in EtatsDe(p)' :
            /\ \A f \in EtatsDe(p)' : f.le <= e.le
            /\ e.email = parents'[p].email
            /\ parents'[p].actif <=> e.actif /\ \A f \in RetraitsDe(p)' : f.le < e.le
    <3>1. p \notin croises' => p \notin croises
      BY <1>1
    <3> QED BY <1>1, <1>3, <1>4, <1>7, <3>1 DEF EmisDe
  <2> QED BY <1>8, <2>1, <2>2 DEF EmisDe
<1>10. ASSUME NEW q \in Parents, q # p
       PROVE  EmisDe(q)'
  BY <1>1, <1>3, <1>4, <1>6, <1>10, EmisReste
<1>11. \A q \in Parents : EmisDe(q)'
  BY <1>9, <1>10
<1> QED BY <1>11, EmisParParent DEF Emis, EmisDe

LEMMA EmisSuit ==
  ASSUME InvFoyer, FoyerNext
  PROVE  Emis'
<1> USE DEF InvFoyer
<1>1. \A q \in Parents : EmisDe(q)
  BY EmisParParent
<1>2. ASSUME UNCHANGED <<parents, prefs, outbox, croises>>
      PROVE  Emis'
  BY <1>2 DEF Emis, Existe, EtatsDe, RetraitsDe, ChoixDe, EvenementsDe
<1>3. ASSUME NEW c \in Commandes, Effacer(c)
      PROVE  Emis'
  <2>1. /\ \A q \in Parents : parents'[q] = Aucun
        /\ croises' = croises
        /\ outbox' = outbox \cup {[type |-> "effacement", le |-> tx[c].debut, ids |-> tx[c].vus]}
    BY <1>3, Efface
  <2>2. ASSUME NEW q \in Parents
        PROVE  EmisDe(q)'
    <3>1. EtatsDe(q)' = EtatsDe(q) /\ RetraitsDe(q)' = RetraitsDe(q) /\ ChoixDe(q)' = ChoixDe(q)
      <4>1. \A e \in outbox' \ outbox : e.type = "effacement"
        BY <2>1
      <4> QED BY <2>1, <4>1, Ajoutes
    <3> QED BY <1>1, <2>1, <3>1, EmisReste
  <2> QED BY <2>2, EmisParParent DEF Emis, EmisDe
<1>4. ASSUME NEW c \in Commandes, Commencer(c) \/ Lecture(c)
      PROVE  Emis'
  BY <1>2, <1>4, LectureNEcritRien DEF Commencer, donnees
<1>5. ASSUME NEW j \in Jetons, NEW p \in Parents, EmettreJeton(j, p)
      PROVE  Emis'
  BY <1>2, <1>5 DEF EmettreJeton
<1> QED BY <1>3, <1>4, <1>5, EcritEmis, CommitEmis DEF FoyerNext, Requete, Lecture

\* The household as it is created.
LEMMA InvFoyerInit ==
  ASSUME Init
  PROVE  InvFoyer
<1>1. PICK ps \in SUBSET Parents, e \in [Parents -> Emails] :
        /\ parents = [p \in Parents |-> IF p \in ps THEN [email |-> e[p], actif |-> TRUE] ELSE Aucun]
        /\ prefs = [p \in Parents |-> IF p \in ps THEN Canaux ELSE {}]
        /\ outbox = UNION {{Etat(1, p, parents[p]), Preferences(1, p, Canaux)} : p \in ps}
  BY DEF Init, FoyerInit
<1>2. /\ vivant = TRUE /\ jetons = [j \in Jetons |-> Aucun] /\ debuts = 1
      /\ usages = [j \in Jetons |-> 0] /\ croises = {} /\ \A c \in Commandes : tx[c] = Repos
  BY DEF Init, FoyerInit
<1>3. Types
  BY TypesInit
<1>4. \A p \in Parents : Existe(p) => p \in ps /\ parents[p].email = e[p] /\ parents[p].actif
  BY <1>1 DEF Existe
<1>5. \A x \in outbox : \E p \in ps : x = Etat(1, p, parents[p]) \/ x = Preferences(1, p, Canaux)
  BY <1>1
<1>6. ASSUME NEW p \in ps
      PROVE  Etat(1, p, parents[p]) \in outbox /\ Preferences(1, p, Canaux) \in outbox
  <2> DEFINE Paire(q) == {Etat(1, q, parents[q]), Preferences(1, q, Canaux)}
  <2>1. Etat(1, p, parents[p]) \in Paire(p) /\ Preferences(1, p, Canaux) \in Paire(p)
    OBVIOUS
  <2>2. outbox = UNION {Paire(q) : q \in ps}
    BY <1>1
  <2> HIDE DEF Paire
  <2>3. Paire(p) \in {Paire(q) : q \in ps}
    OBVIOUS
  <2> QED BY <2>1, <2>2, <2>3
<1>7. \A p : /\ Etat(1, p, parents[p]).type = "etat" /\ Etat(1, p, parents[p]).le = 1
             /\ Etat(1, p, parents[p]).p = p /\ Etat(1, p, parents[p]).email = parents[p].email
             /\ Preferences(1, p, Canaux).type = "preferences" /\ Preferences(1, p, Canaux).le = 1
             /\ Preferences(1, p, Canaux).p = p /\ Preferences(1, p, Canaux).canaux = Canaux
  BY DEF Etat, Preferences
<1>8. \A p : Etat(1, p, parents[p]).actif = parents[p].actif
  BY DEF Etat
<1>9. \A x \in outbox : x.type \in {"etat", "preferences"} /\ x.le = 1 /\ x.p \in ps
  BY <1>5, <1>7
<1>10. Erasure
  BY <1>2, <1>9 DEF Erasure, Effacements
<1>11. Verrous
  <2>1. \A c \in Commandes : tx[c].tenus = {}
    BY <1>2 DEF Repos
  <2> QED BY <2>1 DEF Verrous
<1>12. Comptes
  <2>1. \A c \in Commandes : tx[c].pc = "repos"
    BY <1>2 DEF Repos
  <2> QED BY <1>2, <2>1 DEF Comptes, EnEcriture, Utilisable, LienUnique
<1>13. Relus
  <2>1. Joignable
    BY <1>1, <1>4, ConstantesParents DEF Joignable
  <2>2. \A c \in Commandes : tx[c].pc = "repos" /\ tx[c].op = Aucun
    BY <1>2 DEF Repos
  <2> QED BY <2>1, <2>2, ConstantesParents DEF Relus, EnEcriture, DesCanaux, Operations
<1>14. DatesPropres
  <2>1. \A c \in Commandes : tx[c].pc = "repos" /\ tx[c].debut = 0
    BY <1>2 DEF Repos
  <2>2. \A x, y \in outbox : x.type = y.type /\ x.p = y.p => x = y
    BY <1>5, <1>7
  <2>3. \A p \in Parents : RetraitsDe(p) = {}
    BY <1>9 DEF RetraitsDe, EvenementsDe
  <2> QED BY <1>2, <1>9, <2>1, <2>2, <2>3 DEF DatesPropres
<1>15. Emis
  <2>1. ASSUME NEW p \in Parents
        PROVE  EmisDe(p)
    <3>1. RetraitsDe(p) = {}
      BY <1>9 DEF RetraitsDe, EvenementsDe
    <3>2. \A x \in EtatsDe(p) \cup ChoixDe(p) : x.le = 1
      BY <1>9 DEF EtatsDe, ChoixDe, EvenementsDe
    <3>3. p \in ps => Etat(1, p, parents[p]) \in EtatsDe(p) /\ Preferences(1, p, Canaux) \in ChoixDe(p)
      BY <1>6, <1>7 DEF EtatsDe, ChoixDe, EvenementsDe
    <3>4. ChoixDe(p) # {} => p \in ps
      BY <1>9 DEF ChoixDe, EvenementsDe
    <3>5. Existe(p) => p \in ps /\ prefs[p] = Canaux
      BY <1>1, <1>4
    <3> QED BY <1>7, <1>8, <3>1, <3>2, <3>3, <3>4, <3>5 DEF EmisDe
  <2> QED BY <2>1, EmisParParent
<1> QED BY <1>3, <1>10, <1>11, <1>12, <1>13, <1>14, <1>15 DEF InvFoyer

\* svc-foyer does not depend on what svc-notifications does.
LEMMA InvFoyerNext ==
  ASSUME InvFoyer, [Next]_vars
  PROVE  InvFoyer'
<1>1. Types'
  BY TypesNext DEF InvFoyer, Comptes
<1>2. CASE Emettre
  <2>1. FoyerNext
    BY <1>2 DEF Emettre
  <2> QED BY <1>1, <2>1, ErasureSuit, VerrousSuit, ComptesSuit, RelusSuit, DatesPropresSuit, EmisSuit DEF InvFoyer
<1>3. CASE UNCHANGED foyerVars
  <2>1. UNCHANGED <<vivant, parents, prefs, jetons, outbox, tx, debuts, usages, croises>>
    BY <1>3 DEF foyerVars, donnees
  <2>2. Erasure' /\ Verrous'
    BY <2>1 DEF InvFoyer, Erasure, Verrous, Effacements, Existe, Actifs, Actif
  <2>3. Comptes'
    BY <2>1 DEF InvFoyer, Comptes, LienUnique, Existe, EnEcriture, Utilisable
  <2>4. Relus'
    BY <2>1 DEF InvFoyer, Relus, Joignable, Existe, EnEcriture, Effectives
  <2>5. DatesPropres' /\ Emis'
    BY <2>1 DEF InvFoyer, DatesPropres, Emis, Existe, EtatsDe, RetraitsDe, ChoixDe, EvenementsDe
  <2> QED BY <1>1, <2>2, <2>3, <2>4, <2>5 DEF InvFoyer
<1> QED BY <1>2, <1>3, CopieNEcritRien DEF Next, PasDeCopie, vars

----------------------------------------------------------------------------
(* svc-notifications.                                                      *)

InvCopie == InvFoyer /\ Copie /\ Traces

\* Copie, of one parent.
LigneCopiee(p) ==
  /\ nParents[p] = Aucun => EtatsVus(p) = {}
  /\ nParents[p] # Aucun =>
       \E e \in EtatsVus(p) :
          /\ \A f \in EtatsVus(p) : f.le <= e.le
          /\ nParents[p].le = e.le /\ nParents[p].email = e.email
          /\ p \notin desordre =>
               (nParents[p].actif <=> e.actif /\ \A f \in RetraitsVus(p) : f.le < e.le)

ChoixCopie(p) ==
  /\ nPrefs[p] = Aucun => ChoixVus(p) = {}
  /\ nPrefs[p] # Aucun =>
       \E e \in ChoixVus(p) :
          /\ \A f \in ChoixVus(p) : f.le <= e.le
          /\ nPrefs[p].le = e.le /\ nPrefs[p].canaux = e.canaux

LEMMA CopieParParent ==
  Copie <=> (Effacements = {} => \A p \in Parents : LigneCopiee(p) /\ ChoixCopie(p))
BY DEF Copie, LigneCopiee, ChoixCopie

\* What is emitted was not applied.
LEMMA EmisPasVu ==
  ASSUME Types, [FoyerNext]_foyerVars, faits' = faits
  PROVE  /\ \A p : /\ EtatsVus(p)' = EtatsVus(p)
                   /\ RetraitsVus(p)' = RetraitsVus(p)
                   /\ ChoixVus(p)' = ChoixVus(p)
         /\ (Effacements \cap faits)' = Effacements \cap faits
<1>1. outbox \subseteq outbox' /\ faits \subseteq outbox
  BY OutboxGrandit DEF Types, TypeOK
<1> QED BY <1>1 DEF EtatsVus, RetraitsVus, ChoixVus, EtatsDe, RetraitsDe, ChoixDe, EvenementsDe, Effacements

\* The events of a parent that were applied, one more of them.
LEMMA Vus ==
  ASSUME NEW e \in outbox \ faits, faits' = faits \cup {e}, outbox' = outbox, NEW p
  PROVE  /\ e.type # "etat" \/ e.p # p => EtatsVus(p)' = EtatsVus(p)
         /\ e.type # "retrait" \/ e.p # p => RetraitsVus(p)' = RetraitsVus(p)
         /\ e.type # "preferences" \/ e.p # p => ChoixVus(p)' = ChoixVus(p)
         /\ e.type = "etat" /\ e.p = p => EtatsVus(p)' = EtatsVus(p) \cup {e}
         /\ e.type = "retrait" /\ e.p = p => RetraitsVus(p)' = RetraitsVus(p) \cup {e}
         /\ e.type = "preferences" /\ e.p = p => ChoixVus(p)' = ChoixVus(p) \cup {e}
         /\ e.type # "effacement" => (Effacements \cap faits)' = Effacements \cap faits
BY DEF EtatsVus, RetraitsVus, ChoixVus, EtatsDe, RetraitsDe, ChoixDe, EvenementsDe, Effacements

LEMMA LigneReste ==
  ASSUME NEW p \in Parents, LigneCopiee(p), nParents'[p] = nParents[p],
         EtatsVus(p)' = EtatsVus(p), RetraitsVus(p)' = RetraitsVus(p), desordre \subseteq desordre'
  PROVE  LigneCopiee(p)'
<1>1. p \notin desordre' => p \notin desordre
  OBVIOUS
<1> QED BY <1>1 DEF LigneCopiee

LEMMA ChoixReste ==
  ASSUME NEW p \in Parents, ChoixCopie(p), nPrefs'[p] = nPrefs[p], ChoixVus(p)' = ChoixVus(p)
  PROVE  ChoixCopie(p)'
BY DEF ChoixCopie

\* Two events of the same kind on a parent, two dates.
LEMMA DatesDesVus ==
  ASSUME InvFoyer, NEW p \in Parents, NEW e \in outbox, e.p = p
  PROVE  /\ e.type # "effacement" => e.le \in Nat
         /\ e.type = "etat" /\ e \notin faits => \A f \in EtatsVus(p) : f.le # e.le /\ f.le \in Nat
         /\ e.type = "preferences" /\ e \notin faits => \A f \in ChoixVus(p) : f.le # e.le /\ f.le \in Nat
         /\ e.type = "etat" => \A f \in RetraitsVus(p) : f.le # e.le /\ f.le \in Nat
         /\ e.type = "retrait" => \A f \in EtatsVus(p) : f.le # e.le /\ f.le \in Nat
<1> USE DEF InvFoyer
<1>1. \A f \in outbox : f.le \in Nat
  BY EvenementType, ConstantesParents DEF Dates
<1>2. \A f \in EtatsVus(p) : f \in outbox /\ f \in faits /\ f \in EtatsDe(p) /\ f.type = "etat" /\ f.p = p
  BY DEF EtatsVus, EtatsDe, EvenementsDe
<1>3. \A f \in RetraitsVus(p) : f \in outbox /\ f \in RetraitsDe(p)
  BY DEF RetraitsVus, RetraitsDe, EvenementsDe
<1>4. \A f \in ChoixVus(p) : f \in outbox /\ f \in faits /\ f.type = "preferences" /\ f.p = p
  BY DEF ChoixVus, ChoixDe, EvenementsDe
<1>5. e.type = "etat" => e \in EtatsDe(p)
  BY DEF EtatsDe, EvenementsDe
<1>6. e.type = "retrait" => e \in RetraitsDe(p)
  BY DEF RetraitsDe, EvenementsDe
<1>7. e.type = "etat" /\ e \notin faits => \A f \in EtatsVus(p) : f.le # e.le
  BY <1>2 DEF DatesPropres
<1>8. e.type = "preferences" /\ e \notin faits => \A f \in ChoixVus(p) : f.le # e.le
  BY <1>4 DEF DatesPropres
<1>9. e.type = "etat" => \A f \in RetraitsVus(p) : f.le # e.le
  BY <1>3, <1>5 DEF DatesPropres
<1>10. e.type = "retrait" => \A f \in EtatsVus(p) : f.le # e.le
  BY <1>2, <1>6 DEF DatesPropres
<1> QED BY <1>1, <1>2, <1>3, <1>4, <1>7, <1>8, <1>9, <1>10

\* ParentAjoute or ParentModifie: the younger of the row and the event.
LEMMA EtatCopie ==
  ASSUME InvFoyer, NEW e \in outbox, ParentEtat(e), \A q \in Parents : LigneCopiee(q)
  PROVE  \A q \in Parents : LigneCopiee(q)'
<1> USE DEF InvFoyer
<1>0. PICK p : p = e.p
  OBVIOUS
<1>1. /\ p \in Parents /\ e.type = "etat" /\ e \in outbox \ faits /\ faits' = faits \cup {e}
      /\ outbox' = outbox /\ desordre \subseteq desordre' /\ e.le \in Nat
  BY <1>0, EvenementType, DatesDesVus DEF ParentEtat, Traiter, foyerVars, donnees
<1>2. nParents \in [Parents -> Copies \cup {Aucun}]
  BY DEF Types, TypeOK
<1>3. Recent(nParents[p], e.le) =>
        nParents' = [nParents EXCEPT ![p] = [le |-> e.le, email |-> e.email, actif |-> e.actif]]
  BY <1>0 DEF ParentEtat
<1>4. ~Recent(nParents[p], e.le) => nParents' = nParents
  BY <1>0 DEF ParentEtat
<1>5. p \notin desordre' => p \notin desordre /\ ~Depasse(e)
  BY <1>0, <1>1 DEF ParentEtat
<1>6. /\ EtatsVus(p)' = EtatsVus(p) \cup {e} /\ RetraitsVus(p)' = RetraitsVus(p)
      /\ \A q \in Parents : RetraitsVus(q)' = RetraitsVus(q)
      /\ \A q \in Parents \ {p} : EtatsVus(q)' = EtatsVus(q)
  BY <1>0, <1>1, Vus
<1>7. \A f \in EtatsVus(p) \cup RetraitsVus(p) : f.le # e.le /\ f.le \in Nat
  BY <1>0, <1>1, DatesDesVus
<1>8. ASSUME NEW q \in Parents, q # p
      PROVE  LigneCopiee(q)'
  <2>1. nParents'[q] = nParents[q]
    BY <1>2, <1>3, <1>4, <1>8
  <2> QED BY <1>1, <1>6, <1>8, <2>1, LigneReste
<1>9. CASE Recent(nParents[p], e.le)
  <2>1. /\ nParents'[p].le = e.le /\ nParents'[p].email = e.email /\ nParents'[p].actif = e.actif
        /\ nParents'[p] # Aucun
    <3>1. nParents'[p] = [le |-> e.le, email |-> e.email, actif |-> e.actif]
      BY <1>1, <1>2, <1>3, <1>9
    <3>2. [le |-> e.le, email |-> e.email, actif |-> e.actif] \in Copies
      BY <1>1, EvenementType DEF Copies
    <3> QED BY <3>1, <3>2, ConstantesCopie
  <2>2. \A f \in EtatsVus(p) : f.le <= e.le
    <3>1. CASE nParents[p] = Aucun
      BY <1>1, <3>1 DEF LigneCopiee
    <3>2. CASE nParents[p] # Aucun
      <4>1. PICK g \in EtatsVus(p) : (\A f \in EtatsVus(p) : f.le <= g.le) /\ nParents[p].le = g.le
        BY <1>1, <3>2 DEF LigneCopiee
      <4>2. g.le <= e.le
        BY <1>9, <3>2, <4>1 DEF Recent
      <4> QED BY <1>1, <1>7, <4>1, <4>2
    <3> QED BY <3>1, <3>2
  <2>3. p \notin desordre' => \A f \in RetraitsVus(p) : f.le < e.le
    <3> SUFFICES ASSUME p \notin desordre', NEW f \in RetraitsVus(p)
                 PROVE  f.le < e.le
      OBVIOUS
    <3>1. f \in faits /\ f.type = "retrait" /\ f.p = e.p
      BY <1>0 DEF RetraitsVus, RetraitsDe, EvenementsDe
    <3>2. ~(f.le > e.le)
      BY <1>1, <1>5, <3>1 DEF Depasse
    <3> QED BY <1>1, <1>7, <3>2
  <2>4. \A f \in EtatsVus(p)' : f.le <= e.le
    BY <1>1, <1>6, <2>2
  <2> QED BY <1>6, <1>8, <2>1, <2>3, <2>4 DEF LigneCopiee
<1>10. CASE ~Recent(nParents[p], e.le)
  <2>1. nParents'[p] = nParents[p] /\ nParents[p] # Aucun /\ ~(nParents[p].le <= e.le)
    BY <1>4, <1>10 DEF Recent
  <2>2. PICK g \in EtatsVus(p) :
               /\ \A f \in EtatsVus(p) : f.le <= g.le
               /\ nParents[p].le = g.le /\ nParents[p].email = g.email
               /\ p \notin desordre =>
                    (nParents[p].actif <=> g.actif /\ \A f \in RetraitsVus(p) : f.le < g.le)
    BY <1>1, <2>1 DEF LigneCopiee
  <2>3. e.le <= g.le
    BY <1>1, <1>7, <2>1, <2>2
  <2>4. g \in EtatsVus(p)' /\ \A f \in EtatsVus(p)' : f.le <= g.le
    BY <1>6, <2>2, <2>3
  <2> QED BY <1>5, <1>6, <1>8, <2>1, <2>2, <2>4 DEF LigneCopiee
<1> QED BY <1>9, <1>10

\* ParentRetire: the row, if it is there, becomes inactive.
LEMMA RetraitCopie ==
  ASSUME InvFoyer, NEW e \in outbox, ParentRetire(e), \A q \in Parents : LigneCopiee(q)
  PROVE  \A q \in Parents : LigneCopiee(q)'
<1> USE DEF InvFoyer
<1>0. PICK p : p = e.p
  OBVIOUS
<1>1. /\ p \in Parents /\ e.type = "retrait" /\ e \in outbox \ faits /\ faits' = faits \cup {e}
      /\ outbox' = outbox /\ desordre \subseteq desordre' /\ e.le \in Nat
  BY <1>0, EvenementType, DatesDesVus DEF ParentRetire, Traiter, foyerVars, donnees
<1>2. nParents \in [Parents -> Copies \cup {Aucun}]
  BY DEF Types, TypeOK
<1>3. nParents[p] # Aucun => nParents' = [nParents EXCEPT ![p].actif = FALSE]
  BY <1>0 DEF ParentRetire
<1>4. nParents[p] = Aucun => nParents' = nParents
  BY <1>0 DEF ParentRetire
<1>5. p \notin desordre' => ~Depasse(e)
  BY <1>0 DEF ParentRetire
<1>6. /\ RetraitsVus(p)' = RetraitsVus(p) \cup {e} /\ EtatsVus(p)' = EtatsVus(p)
      /\ \A q \in Parents : EtatsVus(q)' = EtatsVus(q)
      /\ \A q \in Parents \ {p} : RetraitsVus(q)' = RetraitsVus(q)
  BY <1>0, <1>1, Vus
<1>7. \A f \in EtatsVus(p) : f.le # e.le /\ f.le \in Nat
  BY <1>0, <1>1, DatesDesVus
<1>8. ASSUME NEW q \in Parents, q # p
      PROVE  LigneCopiee(q)'
  <2>1. nParents'[q] = nParents[q]
    BY <1>1, <1>2, <1>3, <1>4, <1>8
  <2> QED BY <1>1, <1>6, <1>8, <2>1, LigneReste
<1>9. CASE nParents[p] = Aucun
  BY <1>1, <1>4, <1>6, <1>8, <1>9 DEF LigneCopiee
<1>10. CASE nParents[p] # Aucun
  <2>1. nParents[p] \in Copies
    BY <1>1, <1>2, <1>10
  <2>2. /\ nParents'[p] \in Copies /\ nParents'[p].le = nParents[p].le
        /\ nParents'[p].email = nParents[p].email /\ ~nParents'[p].actif
    <3>1. nParents'[p] = [nParents[p] EXCEPT !.actif = FALSE]
      BY <1>1, <1>2, <1>3, <1>10
    <3> QED BY <2>1, <3>1 DEF Copies
  <2>3. PICK g \in EtatsVus(p) :
               /\ \A f \in EtatsVus(p) : f.le <= g.le
               /\ nParents[p].le = g.le /\ nParents[p].email = g.email
    BY <1>1, <1>10 DEF LigneCopiee
  <2>4. p \notin desordre' => ~(\A f \in RetraitsVus(p)' : f.le < g.le)
    <3>1. g \in faits /\ g.type = "etat" /\ g.p = e.p
      BY <1>0, <2>3 DEF EtatsVus, EtatsDe, EvenementsDe
    <3>2. p \notin desordre' => ~(g.le > e.le)
      BY <1>1, <1>5, <3>1 DEF Depasse
    <3> QED BY <1>1, <1>6, <1>7, <2>3, <3>2
  <2> QED BY <1>6, <1>8, <2>2, <2>3, <2>4, ConstantesCopie DEF LigneCopiee
<1> QED BY <1>9, <1>10

LEMMA PreferencesCopiees ==
  ASSUME InvFoyer, NEW e \in outbox, PreferencesNotif(e), \A q \in Parents : ChoixCopie(q)
  PROVE  \A q \in Parents : ChoixCopie(q)'
<1> USE DEF InvFoyer
<1>0. PICK p : p = e.p
  OBVIOUS
<1>1. /\ p \in Parents /\ e.type = "preferences" /\ e \in outbox \ faits /\ faits' = faits \cup {e}
      /\ outbox' = outbox /\ e.le \in Nat
  BY <1>0, EvenementType, DatesDesVus DEF PreferencesNotif, Traiter, foyerVars, donnees
<1>2. nPrefs \in [Parents -> Choix \cup {Aucun}]
  BY DEF Types, TypeOK
<1>3. Recent(nPrefs[p], e.le) => nPrefs' = [nPrefs EXCEPT ![p] = [le |-> e.le, canaux |-> e.canaux]]
  BY <1>0 DEF PreferencesNotif
<1>4. ~Recent(nPrefs[p], e.le) => nPrefs' = nPrefs
  BY <1>0 DEF PreferencesNotif
<1>6. /\ ChoixVus(p)' = ChoixVus(p) \cup {e}
      /\ \A q \in Parents \ {p} : ChoixVus(q)' = ChoixVus(q)
  BY <1>0, <1>1, Vus
<1>7. \A f \in ChoixVus(p) : f.le # e.le /\ f.le \in Nat
  BY <1>0, <1>1, DatesDesVus
<1>8. ASSUME NEW q \in Parents, q # p
      PROVE  ChoixCopie(q)'
  <2>1. nPrefs'[q] = nPrefs[q]
    BY <1>2, <1>3, <1>4, <1>8
  <2> QED BY <1>6, <1>8, <2>1, ChoixReste
<1>9. CASE Recent(nPrefs[p], e.le)
  <2>1. nPrefs'[p].le = e.le /\ nPrefs'[p].canaux = e.canaux /\ nPrefs'[p] # Aucun
    <3>1. nPrefs'[p] = [le |-> e.le, canaux |-> e.canaux]
      BY <1>1, <1>2, <1>3, <1>9
    <3>2. [le |-> e.le, canaux |-> e.canaux] \in Choix
      BY <1>1, EvenementType DEF Choix
    <3> QED BY <3>1, <3>2, ConstantesCopie
  <2>2. \A f \in ChoixVus(p) : f.le <= e.le
    <3>1. CASE nPrefs[p] = Aucun
      BY <1>1, <3>1 DEF ChoixCopie
    <3>2. CASE nPrefs[p] # Aucun
      <4>1. PICK g \in ChoixVus(p) : (\A f \in ChoixVus(p) : f.le <= g.le) /\ nPrefs[p].le = g.le
        BY <1>1, <3>2 DEF ChoixCopie
      <4>2. g.le <= e.le
        BY <1>9, <3>2, <4>1 DEF Recent
      <4> QED BY <1>1, <1>7, <4>1, <4>2
    <3> QED BY <3>1, <3>2
  <2>4. \A f \in ChoixVus(p)' : f.le <= e.le
    BY <1>1, <1>6, <2>2
  <2> QED BY <1>6, <1>8, <2>1, <2>4 DEF ChoixCopie
<1>10. CASE ~Recent(nPrefs[p], e.le)
  <2>1. nPrefs'[p] = nPrefs[p] /\ nPrefs[p] # Aucun /\ ~(nPrefs[p].le <= e.le)
    BY <1>4, <1>10 DEF Recent
  <2>2. PICK g \in ChoixVus(p) :
               /\ \A f \in ChoixVus(p) : f.le <= g.le
               /\ nPrefs[p].le = g.le /\ nPrefs[p].canaux = g.canaux
    BY <1>1, <2>1 DEF ChoixCopie
  <2>3. e.le <= g.le
    BY <1>1, <1>7, <2>1, <2>2
  <2>4. g \in ChoixVus(p)' /\ \A f \in ChoixVus(p)' : f.le <= g.le
    BY <1>6, <2>2, <2>3
  <2> QED BY <1>6, <1>8, <2>1, <2>2, <2>4 DEF ChoixCopie
<1> QED BY <1>9, <1>10

LEMMA CopieSuit ==
  ASSUME InvCopie, [Next]_vars
  PROVE  Copie'
<1> USE DEF InvCopie
<1>1. ASSUME [FoyerNext]_foyerVars, UNCHANGED copie
      PROVE  Copie'
  <2>1. /\ UNCHANGED <<nParents, nPrefs, faits, desordre>>
        /\ \A p : /\ EtatsVus(p)' = EtatsVus(p) /\ RetraitsVus(p)' = RetraitsVus(p)
                  /\ ChoixVus(p)' = ChoixVus(p)
    BY <1>1, EmisPasVu DEF InvFoyer, copie
  <2>2. Effacements' = {} => Effacements = {}
    BY <1>1, OutboxGrandit DEF Effacements
  <2> QED BY <2>1, <2>2 DEF Copie
<1>2. ASSUME PasDeCopie
      PROVE  Copie'
  <2>1. outbox' = outbox /\ Effacements' = Effacements
    BY <1>2, CopieNEcritRien DEF foyerVars, donnees, Effacements
  <2> SUFFICES ASSUME Effacements = {}
               PROVE  (\A p \in Parents : LigneCopiee(p)') /\ \A p \in Parents : ChoixCopie(p)'
    <3>1. Effacements' # {} => Copie'
      BY DEF Copie
    <3>2. (\A p \in Parents : LigneCopiee(p)') /\ (\A p \in Parents : ChoixCopie(p)') => Copie'
      BY DEF Copie, LigneCopiee, ChoixCopie
    <3> QED BY <2>1, <3>1, <3>2
  <2>2. \A p \in Parents : LigneCopiee(p) /\ ChoixCopie(p)
    BY CopieParParent
  <2>3. ASSUME NEW e \in outbox, ParentEtat(e)
        PROVE  (\A p \in Parents : LigneCopiee(p)') /\ \A p \in Parents : ChoixCopie(p)'
    <3>1. e.type = "etat" /\ e \in outbox \ faits /\ faits' = faits \cup {e} /\ nPrefs' = nPrefs
      BY <2>3 DEF ParentEtat, Traiter
    <3>2. \A p : ChoixVus(p)' = ChoixVus(p)
      BY <2>1, <3>1, Vus
    <3>3. \A p \in Parents : ChoixCopie(p)'
      BY <2>2, <3>1, <3>2, ChoixReste
    <3> QED BY <2>2, <2>3, <3>3, EtatCopie
  <2>4. ASSUME NEW e \in outbox, ParentRetire(e)
        PROVE  (\A p \in Parents : LigneCopiee(p)') /\ \A p \in Parents : ChoixCopie(p)'
    <3>1. e.type = "retrait" /\ e \in outbox \ faits /\ faits' = faits \cup {e} /\ nPrefs' = nPrefs
      BY <2>4 DEF ParentRetire, Traiter
    <3>2. \A p : ChoixVus(p)' = ChoixVus(p)
      BY <2>1, <3>1, Vus
    <3>3. \A p \in Parents : ChoixCopie(p)'
      BY <2>2, <3>1, <3>2, ChoixReste
    <3> QED BY <2>2, <2>4, <3>3, RetraitCopie
  <2>5. ASSUME NEW e \in outbox, PreferencesNotif(e)
        PROVE  (\A p \in Parents : LigneCopiee(p)') /\ \A p \in Parents : ChoixCopie(p)'
    <3>1. /\ e.type = "preferences" /\ e \in outbox \ faits /\ faits' = faits \cup {e}
          /\ nParents' = nParents /\ desordre' = desordre
      BY <2>5 DEF PreferencesNotif, Traiter
    <3>2. \A p : EtatsVus(p)' = EtatsVus(p) /\ RetraitsVus(p)' = RetraitsVus(p)
      BY <2>1, <3>1, Vus
    <3>3. \A p \in Parents : LigneCopiee(p)'
      BY <2>2, <3>1, <3>2, LigneReste
    <3> QED BY <2>2, <2>5, <3>3, PreferencesCopiees
  <2>6. ASSUME NEW e \in outbox, FoyerSupprime(e)
        PROVE  FALSE
    BY <2>6 DEF FoyerSupprime, Effacements
  <2>7. ASSUME UNCHANGED <<nParents, nPrefs, faits, desordre>>
        PROVE  (\A p \in Parents : LigneCopiee(p)') /\ \A p \in Parents : ChoixCopie(p)'
    <3>1. \A p : /\ EtatsVus(p)' = EtatsVus(p) /\ RetraitsVus(p)' = RetraitsVus(p)
                 /\ ChoixVus(p)' = ChoixVus(p)
      BY <2>1, <2>7 DEF EtatsVus, RetraitsVus, ChoixVus, EtatsDe, RetraitsDe, ChoixDe, EvenementsDe
    <3>2. \A p \in Parents : LigneCopiee(p)'
      BY <2>2, <2>7, <3>1, LigneReste
    <3>3. \A p \in Parents : ChoixCopie(p)'
      BY <2>2, <2>7, <3>1, ChoixReste
    <3> QED BY <3>2, <3>3
  <2> QED BY <1>2, <2>3, <2>4, <2>5, <2>6, <2>7 DEF PasDeCopie, Projeter, LireDestinataires, CreerCarte
<1> QED BY <1>1, <1>2 DEF Next, Emettre, PasDeCopie, vars

\* Traces, before the erasure is applied and after it.
Avant ==
  /\ \A p \in Parents : EtatsVus(p) # {} => nParents[p] # Aucun
  /\ \A p \in Parents : nParents[p] # Aucun => EtatsVus(p) # {}
  /\ \A p \in Parents : nPrefs[p] # Aucun => ChoixVus(p) # {}
  /\ \A p \in cartes \cup tick : nParents[p] # Aucun

Apres ==
  /\ tick \subseteq tardifs
  /\ \A f \in outbox \ faits : f.p \in tardifs
  /\ \A p \in Parents \ tardifs : nParents[p] = Aucun /\ nPrefs[p] = Aucun /\ p \notin cartes

LEMMA AvantApres ==
  ASSUME Types
  PROVE  /\ Effacements \cap faits # {} <=> \E e \in faits : e.type = "effacement"
         /\ Traces <=> IF Effacements \cap faits = {} THEN Avant ELSE Apres
<1>1. Effacements \cap faits # {} <=> \E e \in faits : e.type = "effacement"
  BY DEF Types, TypeOK, Effacements
<1> QED BY <1>1 DEF Traces, Avant, Apres, EffacementTenu

\* Nothing is emitted by a household that was erased.
LEMMA PlusRien ==
  ASSUME InvFoyer, [FoyerNext]_foyerVars, Effacements # {}
  PROVE  outbox' = outbox
<1> USE DEF InvFoyer
<1>1. ~vivant /\ \A p \in Parents : ~Existe(p)
  BY DEF Erasure
<1>2. ASSUME NEW c \in Commandes, EcrireParent(c) \/ Effacer(c)
      PROVE  FALSE
  BY <1>1, <1>2, Ecrit, Efface
<1>3. ASSUME NEW c \in Commandes, ValiderCanaux(c)
      PROVE  FALSE
  <2>1. EnEcriture(c) /\ tx[c].p \in Parents
    BY <1>3, Valide DEF EnEcriture
  <2> QED BY <1>1, <2>1 DEF Relus
<1>4. FoyerNext => outbox' = outbox
  BY <1>2, <1>3, Emet
<1> QED BY <1>4 DEF foyerVars, donnees

LEMMA ProjectionTrace ==
  ASSUME InvCopie, NEW e \in outbox, ParentEtat(e) \/ ParentRetire(e) \/ PreferencesNotif(e)
  PROVE  /\ Effacements \cap faits = {} => Avant'
         /\ Effacements \cap faits # {} => Apres'
         /\ (Effacements \cap faits)' = Effacements \cap faits
<1> USE DEF InvCopie, InvFoyer
<1>0. PICK p : p = e.p
  OBVIOUS
<1>1. /\ e.type \in {"etat", "retrait", "preferences"} /\ e \in outbox \ faits /\ faits' = faits \cup {e}
      /\ UNCHANGED <<outbox, tick, cartes, tardifs>>
  BY DEF ParentEtat, ParentRetire, PreferencesNotif, Traiter, foyerVars, donnees
<1>2. /\ p \in Parents /\ nParents \in [Parents -> Copies \cup {Aucun}]
      /\ nPrefs \in [Parents -> Choix \cup {Aucun}]
  BY <1>0, <1>1, EvenementType DEF Types, TypeOK
<1>3. /\ \A q \in Parents \ {p} : nParents'[q] = nParents[q] /\ nPrefs'[q] = nPrefs[q]
  BY <1>0, <1>2 DEF ParentEtat, ParentRetire, PreferencesNotif
<1>4. /\ nParents[p] # Aucun => nParents'[p] # Aucun
      /\ e.type = "etat" => nParents'[p] # Aucun
      /\ e.type # "etat" => (nParents'[p] # Aucun <=> nParents[p] # Aucun)
  <2>1. CASE ParentEtat(e)
    <3>1. [le |-> e.le, email |-> e.email, actif |-> e.actif] \in Copies
      BY <2>1, EvenementType DEF ParentEtat, Copies
    <3>2. CASE Recent(nParents[p], e.le)
      <4>1. nParents' = [nParents EXCEPT ![p] = [le |-> e.le, email |-> e.email, actif |-> e.actif]]
        BY <1>0, <2>1, <3>2 DEF ParentEtat
      <4>2. nParents'[p] \in Copies
        BY <1>2, <3>1, <4>1
      <4> QED BY <2>1, <4>2, ConstantesCopie DEF ParentEtat
    <3>3. CASE ~Recent(nParents[p], e.le)
      <4>1. nParents' = nParents /\ nParents[p] # Aucun
        BY <1>0, <2>1, <3>3 DEF ParentEtat, Recent
      <4> QED BY <2>1, <4>1 DEF ParentEtat
    <3> QED BY <3>2, <3>3
  <2>2. CASE ParentRetire(e)
    <3>1. CASE nParents[p] = Aucun
      BY <1>0, <2>2, <3>1 DEF ParentRetire
    <3>2. CASE nParents[p] # Aucun
      <4>1. nParents[p] \in Copies /\ nParents'[p] = [nParents[p] EXCEPT !.actif = FALSE]
        BY <1>0, <1>2, <2>2, <3>2 DEF ParentRetire
      <4>2. nParents'[p] \in Copies
        BY <4>1 DEF Copies
      <4> QED BY <2>2, <3>2, <4>2, ConstantesCopie DEF ParentRetire
    <3> QED BY <3>1, <3>2
  <2>3. CASE PreferencesNotif(e)
    BY <2>3 DEF PreferencesNotif
  <2> QED BY <2>1, <2>2, <2>3
<1>5. e.type # "preferences" => nPrefs' = nPrefs
  BY DEF ParentEtat, ParentRetire, PreferencesNotif
<1>6. (Effacements \cap faits)' = Effacements \cap faits
  BY <1>1, Vus
<1>7. ASSUME Avant
      PROVE  Avant'
  <2>1. /\ \A q \in Parents : e.type # "etat" \/ q # p => EtatsVus(q)' = EtatsVus(q)
        /\ \A q \in Parents : e.type # "preferences" \/ q # p => ChoixVus(q)' = ChoixVus(q)
        /\ e.type = "etat" => EtatsVus(p)' = EtatsVus(p) \cup {e}
        /\ e.type = "preferences" => ChoixVus(p)' = ChoixVus(p) \cup {e}
    BY <1>0, <1>1, Vus
  <2>2. \A q \in Parents : (EtatsVus(q)' # {} <=> nParents'[q] # Aucun)
    BY <1>3, <1>4, <1>7, <2>1 DEF Avant
  <2>3. \A q \in Parents : nPrefs'[q] # Aucun => ChoixVus(q)' # {}
    BY <1>3, <1>5, <1>7, <2>1 DEF Avant
  <2>4. \A q \in cartes' \cup tick' : nParents'[q] # Aucun
    <3>1. cartes \cup tick \subseteq Parents
      BY DEF Types, TypeOK
    <3> QED BY <1>1, <1>3, <1>4, <1>7, <3>1 DEF Avant
  <2> QED BY <2>2, <2>3, <2>4 DEF Avant
<1>8. ASSUME Apres
      PROVE  Apres'
  <2>1. p \in tardifs
    BY <1>0, <1>1, <1>8 DEF Apres
  <2> QED BY <1>1, <1>3, <1>8, <2>1 DEF Apres
<1> QED BY <1>6, <1>7, <1>8, AvantApres

\* FoyerSupprime finds all that was kept, or it is still on its way.
LEMMA EffacementTrace ==
  ASSUME InvCopie, NEW e \in outbox, FoyerSupprime(e)
  PROVE  Apres' /\ (Effacements \cap faits)' # {}
<1> USE DEF InvCopie, InvFoyer
<1>1. /\ e.type = "effacement" /\ e \notin faits /\ faits' = faits \cup {e}
      /\ UNCHANGED <<outbox, tick>>
      /\ cartes' = cartes \ Effaces(e) /\ tardifs' = tardifs \cup EnRoute(e)
      /\ \A p \in Parents : nParents'[p] = Aucun
      /\ \A p \in Parents : nPrefs'[p] = IF p \in Effaces(e) THEN Aucun ELSE nPrefs[p]
  BY DEF FoyerSupprime, Traiter, foyerVars, donnees
<1>2. e \in Effacements /\ \A f \in Effacements : f = e
  BY <1>1 DEF Effacements, Erasure
<1>3. Effacements \cap faits = {}
  BY <1>1, <1>2
<1>4. Avant
  BY <1>3, AvantApres
<1>5. (Effacements \cap faits)' # {}
  BY <1>1, <1>2 DEF Effacements
<1>6. \A f \in outbox' \ faits' : f.p \in tardifs'
  <2> SUFFICES ASSUME NEW f \in outbox, f \notin faits, f # e
               PROVE  f.p \in EnRoute(e)
    BY <1>1
  <2>1. f.type # "effacement"
    BY <1>2 DEF Effacements
  <2>2. f.p \in Parents
    BY <2>1, EvenementType
  <2> QED BY <2>2 DEF EnRoute
<1>7. tick' \subseteq tardifs'
  BY <1>1 DEF EnRoute
<1>8. ASSUME NEW p \in Parents, p \notin tardifs'
      PROVE  nPrefs'[p] = Aucun /\ p \notin cartes'
  <2>1. p \notin cartes'
    <3>1. p \in cartes => p \in Effaces(e)
      BY <1>4 DEF Avant, Effaces
    <3> QED BY <1>1, <3>1
  <2>2. ASSUME p \notin Effaces(e), nPrefs[p] # Aucun
        PROVE  FALSE
    <3>1. nParents[p] = Aucun
      BY <2>2 DEF Effaces
    <3>2. EtatsVus(p) = {} /\ ChoixDe(p) # {}
      BY <1>4, <2>2, <3>1 DEF Avant, ChoixVus
    <3>3. PICK f : f \in EtatsDe(p)
      BY <3>2 DEF Emis
    <3>4. f \in outbox \ faits /\ f.p = p /\ f # e
      BY <1>1, <3>2, <3>3 DEF EtatsVus, EtatsDe, EvenementsDe
    <3>5. p \in EnRoute(e)
      BY <3>4 DEF EnRoute
    <3> QED BY <1>1, <1>8, <3>5
  <2> QED BY <1>1, <2>1, <2>2
<1>9. Apres'
  BY <1>1, <1>6, <1>7, <1>8 DEF Apres
<1> QED BY <1>5, <1>9

LEMMA TracesSuit ==
  ASSUME InvCopie, [Next]_vars
  PROVE  Traces'
<1> USE DEF InvCopie, InvFoyer
<1>1. Types'
  BY InvFoyerNext
<1>2. Traces' <=> IF (Effacements \cap faits)' = {} THEN Avant' ELSE Apres'
  BY <1>1, AvantApres DEF Traces, Avant, Apres, EffacementTenu, Effacements, Types, TypeOK
<1>3. /\ Effacements \cap faits = {} => Avant
      /\ Effacements \cap faits # {} => Apres
  BY AvantApres
<1>4. ASSUME [FoyerNext]_foyerVars, UNCHANGED copie
      PROVE  Traces'
  <2>1. UNCHANGED <<nParents, nPrefs, cartes, tick, tardifs, faits>>
    BY <1>4 DEF copie
  <2>2. /\ (Effacements \cap faits)' = Effacements \cap faits
        /\ \A p : EtatsVus(p)' = EtatsVus(p) /\ ChoixVus(p)' = ChoixVus(p)
    BY <1>4, <2>1, EmisPasVu
  <2>3. Effacements \cap faits # {} => outbox' = outbox
    BY <1>4, PlusRien
  <2> QED BY <1>2, <1>3, <2>1, <2>2, <2>3 DEF Avant, Apres
<1>5. ASSUME NEW e \in outbox, ParentEtat(e) \/ ParentRetire(e) \/ PreferencesNotif(e)
      PROVE  Traces'
  BY <1>2, <1>5, ProjectionTrace
<1>6. ASSUME NEW e \in outbox, FoyerSupprime(e)
      PROVE  Traces'
  BY <1>2, <1>6, EffacementTrace
<1>7. ASSUME LireDestinataires \/ \E p \in Parents : CreerCarte(p)
      PROVE  Traces'
  <2>1. UNCHANGED <<nParents, nPrefs, tardifs, faits, outbox>>
    BY <1>7 DEF LireDestinataires, CreerCarte, foyerVars, donnees
  <2>2. /\ (Effacements \cap faits)' = Effacements \cap faits
        /\ \A p : EtatsVus(p)' = EtatsVus(p) /\ ChoixVus(p)' = ChoixVus(p)
    BY <2>1 DEF EtatsVus, ChoixVus, EtatsDe, ChoixDe, EvenementsDe, Effacements
  <2>3. /\ cartes' \subseteq cartes \cup tick
        /\ tick' \subseteq tick \cup {p \in Parents : nParents[p] # Aucun}
    BY <1>7 DEF LireDestinataires, CreerCarte, DestinatairesInApp
  <2>4. Avant => Avant'
    BY <2>1, <2>2, <2>3 DEF Avant
  <2>5. Apres => Apres'
    BY <2>1, <2>3 DEF Apres
  <2> QED BY <1>2, <1>3, <2>2, <2>4, <2>5
<1> QED BY <1>4, <1>5, <1>6, <1>7 DEF Next, Emettre, Projeter, vars

----------------------------------------------------------------------------
(* The theorems.                                                           *)

LEMMA Invariant == Spec => []InvCopie
<1>1. Init => InvCopie
  <2> SUFFICES ASSUME Init
               PROVE  InvCopie
    OBVIOUS
  <2>1. InvFoyer
    BY InvFoyerInit
  <2>2. /\ faits = {} /\ cartes = {} /\ tick = {}
        /\ \A p \in Parents : nParents[p] = Aucun /\ nPrefs[p] = Aucun
    BY DEF Init
  <2>3. \A p \in Parents : EtatsVus(p) = {} /\ ChoixVus(p) = {}
    BY <2>2 DEF EtatsVus, ChoixVus
  <2>4. Effacements \cap faits = {}
    BY <2>2
  <2>5. Copie
    BY <2>2, <2>3 DEF Copie
  <2>6. Traces
    BY <2>2, <2>3, <2>4 DEF Traces, EffacementTenu
  <2> QED BY <2>1, <2>5, <2>6 DEF InvCopie
<1>2. InvCopie /\ [Next]_vars => InvCopie'
  BY InvFoyerNext, CopieSuit, TracesSuit DEF InvCopie
<1> QED BY <1>1, <1>2, PTL DEF Spec

\* The tables of both services and the transactions keep their shapes, the
\* read model holds only what an event of the outbox said (schema.ts of
\* svc-foyer and of svc-notifications).
THEOREM TypeCorrect == Spec => []TypeOK
<1>1. InvCopie => TypeOK
  BY DEF InvCopie, InvFoyer, Types
<1> QED BY <1>1, Invariant, PTL

\* An unsubscription link is consumed at most once, by any number of requests
\* that replay it (DesabonnementService.consommer): the UPDATE that asks for
\* utilise_le IS NULL waits for the one that has the row.
THEOREM LienConsommeUneFois == Spec => []LienUnique
<1>1. InvCopie => LienUnique
  BY DEF InvCopie, InvFoyer, Comptes
<1> QED BY <1>1, Invariant, PTL

\* No request leaves a parent without a channel (preferences.util.ts and
\* majPreferences), except two that overlap on the same parent.
THEOREM ToujoursJoignable == Spec => []Joignable
<1>1. InvCopie => Joignable
  BY DEF InvCopie, InvFoyer, Relus
<1> QED BY <1>1, Invariant, PTL

\* A withdrawal leaves active another of the rows that it holds, if it holds any.
LEMMA UnAutreReste ==
  ASSUME InvFoyer, NEW c \in Commandes, EcrireParent(c), Actifs # {}, ~GardeSansObjet(c)
  PROVE  Actifs' # {}
<1> USE DEF InvFoyer
<1>0. PICK p : p = tx[c].p
  OBVIOUS
<1>1. /\ p \in Parents /\ parents'[p] = LigneEcrite(c) /\ parents'[p] # Aucun
      /\ \A q \in Parents \ {p} : parents'[q] = parents[q]
  BY <1>0, EcritureTypee, Ecrit
<1>2. /\ tx[c].pc = "ecrire" /\ tx[c].op \in {"ajouter", "modifier", "activer", "desactiver", "retirer"}
      /\ tx[c].op # "ajouter" => parents[p] \in Lignes
  BY <1>0, <1>1 DEF EcrireParent, Existe, Types, TypeOK, FoyerTypeOK
<1>3. \A q \in Actifs \ {p} : q \in Actifs'
  BY <1>1 DEF Actifs, Actif, Existe
<1>4. CASE tx[c].op \in {"ajouter", "activer"}
  <2>1. LigneEcrite(c).actif
    BY <1>0, <1>2, <1>4 DEF LigneEcrite, Lignes
  <2> QED BY <1>1, <2>1 DEF Actifs, Actif, Existe
<1>5. CASE tx[c].op = "modifier"
  <2>1. LigneEcrite(c) = [parents[p] EXCEPT !.email = tx[c].email]
    BY <1>0, <1>5 DEF LigneEcrite
  <2>2. parents'[p].actif = parents[p].actif
    BY <1>1, <1>2, <1>5, <2>1 DEF Lignes
  <2>3. p \in Actifs => p \in Actifs'
    BY <1>1, <2>2 DEF Actifs, Actif, Existe
  <2> QED BY <1>3, <2>3
<1>6. CASE tx[c].op \in Gardees
  <2>1. tx[c].tenus = tx[c].vus /\ tx[c].vus # {p}
    BY <1>0, <1>2, <1>6 DEF Types, TxCoherente
  <2>2. tx[c].vus # {}
    BY <1>2, <1>6 DEF GardeSansObjet, Gardees
  <2>3. PICK q : q \in tx[c].vus /\ q # p
    BY <2>1, <2>2
  <2>4. q \in Actifs
    BY <2>1, <2>3 DEF Verrous
  <2> QED BY <1>3, <2>3, <2>4
<1> QED BY <1>2, <1>4, <1>5, <1>6 DEF Gardees

\* "Au moins un parent actif par foyer" (gardeDernierParentActif): no
\* interleaving of withdrawals, e-mail changes and reactivations takes the last
\* active parent, but for a withdrawal that had found nothing to lock.
THEOREM JamaisLeDernier == Spec => DernierParentGarde
<1> DEFINE Garde == vivant' /\ Actifs # {} /\ (\A c \in Commandes : ~GardeSansObjet(c)) => Actifs' # {}
<1>1. InvCopie /\ [Next]_vars => [Garde]_foyerVars
  <2> SUFFICES ASSUME InvCopie, [Next]_vars, ~UNCHANGED foyerVars,
                      vivant', Actifs # {}, \A c \in Commandes : ~GardeSansObjet(c)
               PROVE  Actifs' # {}
    OBVIOUS
  <2> USE DEF InvCopie
  <2>1. FoyerNext
    BY CopieNEcritRien DEF Next, Emettre, PasDeCopie, vars
  <2>2. ASSUME UNCHANGED parents
        PROVE  Actifs' # {}
    BY <2>2 DEF Actifs, Actif, Existe
  <2>3. ASSUME NEW c \in Commandes, Requete(c)
        PROVE  Actifs' # {}
    <3>1. CASE EcrireParent(c)
      BY <3>1, UnAutreReste
    <3>2. CASE Effacer(c)
      BY <3>2, Efface DEF InvFoyer
    <3>3. CASE ValiderCanaux(c)
      BY <2>2, <3>3 DEF ValiderCanaux
    <3>4. CASE Commencer(c) \/ Lecture(c)
      BY <2>2, <3>4, LectureNEcritRien DEF Commencer, donnees
    <3> QED BY <2>3, <3>1, <3>2, <3>3, <3>4 DEF Requete, Lecture
  <2>4. ASSUME NEW j \in Jetons, NEW p \in Parents, EmettreJeton(j, p)
        PROVE  Actifs' # {}
    BY <2>2, <2>4 DEF EmettreJeton
  <2> QED BY <2>1, <2>3, <2>4 DEF FoyerNext
<1> QED BY <1>1, Invariant, PTL DEF Spec, DernierParentGarde

\* FoyerSupprime leaves no address, preference or card, whatever the order in
\* which the events come and whatever the weekly reminder was doing, but for
\* parents something was on its way for (appliquerFoyerSupprime).
THEOREM Effacement == Spec => []EffacementTenu
<1>1. InvCopie => EffacementTenu
  BY DEF InvCopie, Traces
<1> QED BY <1>1, Invariant, PTL

\* All events applied, in any order, the read model is the household: the
\* upserts keep the youngest date, and the youngest event of a parent is the
\* one of the last transaction to write it (ProjectionService).
THEOREM CopieFidele == Spec => []PropagationFidele
<1>1. InvCopie => PropagationFidele
  <2> SUFFICES ASSUME InvCopie, faits = outbox, vivant,
                      NEW p \in Parents \ (croises \cup desordre), Existe(p)
               PROVE  /\ nParents[p] # Aucun /\ nPrefs[p] # Aucun
                      /\ nParents[p].email = parents[p].email
                      /\ nParents[p].actif = parents[p].actif
                      /\ nPrefs[p].canaux = prefs[p]
    BY DEF PropagationFidele
  <2> USE DEF InvCopie, InvFoyer
  <2>1. EmisDe(p) /\ LigneCopiee(p) /\ ChoixCopie(p)
    BY EmisParParent, CopieParParent DEF Erasure
  <2>2. EtatsVus(p) = EtatsDe(p) /\ RetraitsVus(p) = RetraitsDe(p) /\ ChoixVus(p) = ChoixDe(p)
    BY DEF EtatsVus, RetraitsVus, ChoixVus, EtatsDe, RetraitsDe, ChoixDe, EvenementsDe
  <2>3. \A e \in EtatsDe(p) \cup ChoixDe(p) : e.le \in Nat
    BY EvenementType, ConstantesParents DEF EtatsDe, ChoixDe, EvenementsDe, Dates
  <2>4. \A e, f \in EtatsDe(p) : e.le = f.le => e = f
    BY DEF DatesPropres, EtatsDe, EvenementsDe
  <2>5. \A e, f \in ChoixDe(p) : e.le = f.le => e = f
    BY DEF DatesPropres, ChoixDe, EvenementsDe
  <2>6. PICK e \in EtatsDe(p) :
           /\ \A f \in EtatsDe(p) : f.le <= e.le
           /\ e.email = parents[p].email
           /\ parents[p].actif <=> e.actif /\ \A f \in RetraitsDe(p) : f.le < e.le
    BY <2>1 DEF EmisDe
  <2>7. PICK m \in ChoixDe(p) : (\A f \in ChoixDe(p) : f.le <= m.le) /\ m.canaux = prefs[p]
    BY <2>1 DEF EmisDe
  <2>8. nParents[p] # Aucun /\ nPrefs[p] # Aucun
    BY <2>1, <2>2, <2>6, <2>7 DEF LigneCopiee, ChoixCopie
  <2>9. PICK g \in EtatsDe(p) :
           /\ \A f \in EtatsDe(p) : f.le <= g.le
           /\ nParents[p].email = g.email
           /\ nParents[p].actif <=> g.actif /\ \A f \in RetraitsDe(p) : f.le < g.le
    BY <2>1, <2>2, <2>8 DEF LigneCopiee
  <2>10. PICK n \in ChoixDe(p) : (\A f \in ChoixDe(p) : f.le <= n.le) /\ nPrefs[p].canaux = n.canaux
    BY <2>1, <2>2, <2>8 DEF ChoixCopie
  <2>11. e = g
    <3>1. e.le <= g.le /\ g.le <= e.le
      BY <2>6, <2>9
    <3> QED BY <2>3, <2>4, <3>1
  <2>12. m = n
    <3>1. m.le <= n.le /\ n.le <= m.le
      BY <2>7, <2>10
    <3> QED BY <2>3, <2>5, <3>1
  <2>13. nParents[p].actif <=> parents[p].actif
    BY <2>6, <2>9, <2>11
  <2>14. nParents[p].actif \in BOOLEAN /\ parents[p].actif \in BOOLEAN
    BY <2>8 DEF Types, TypeOK, FoyerTypeOK, Copies, Lignes, Existe
  <2>15. nParents[p].actif = parents[p].actif
    BY <2>13, <2>14
  <2> QED BY <2>6, <2>7, <2>8, <2>9, <2>10, <2>11, <2>12, <2>15
<1> QED BY <1>1, Invariant, PTL
=============================================================================
