----------------------- MODULE RessourcesFoyer_proofs -----------------------
(***************************************************************************)
(* Proofs about RessourcesFoyer, for any number of requests in progress,   *)
(* any incomes, any horizon and any number of transactions.                *)
(***************************************************************************)
EXTENDS RessourcesFoyer, FiniteSetTheorems, WellFoundedInduction, TLAPS

(***************************************************************************)
(* The lock: a save that has read the history is the only one that may     *)
(* change it until it commits, so that what it read still holds.           *)
(***************************************************************************)
Sous == {"saisie", "calcul", "validation"}

\* What the step of a request says of what it holds.
Entamees ==
  \A c \in Commandes :
    /\ tx[c].pc # "repos" => tx[c].debut # 0
    /\ tx[c].pc \in Sous => tx[c].valeur # Absente
    /\ tx[c].pc = "validation" => tx[c].suite[tx[c].jour] # Absente

VerrouTenu == \A c \in Commandes : tx[c].pc \in Sous => verrou = c /\ vivant

AvantLu ==
  \A c \in Commandes : tx[c].pc \in {"calcul", "validation"} =>
    tx[c].avant = IF versions[tx[c].jour] = Absente THEN Absente ELSE versions[tx[c].jour].valeur

Contigue(s) == \A d \in Presentes(s) : s[d].fin = Fin(Presentes(s), d)

\* What a save is about to commit: the history, with the version of its date.
SuiteDe(t) ==
  /\ t.suite[t.jour].valeur = t.valeur /\ t.jour \in t.ecrits
  /\ Contigue(t.suite)
  /\ \A d \in Jours \ {t.jour} :
       /\ t.suite[d] = Absente <=> versions[d] = Absente
       /\ versions[d] # Absente => t.suite[d].valeur = versions[d].valeur
  /\ \A d \in Jours \ t.ecrits : t.suite[d] = versions[d]

SuiteCalculee == \A c \in Commandes : tx[c].pc = "validation" => SuiteDe(tx[c])

JournalPresent == \A i \in DOMAIN journal : versions[journal[i].jour] # Absente

InvVersions ==
  /\ VerrouTenu /\ AvantLu /\ SuiteCalculee
  /\ Contigue(versions)
  /\ JournalPresent /\ JournalFidele
  /\ LigneFidele

(***************************************************************************)
(* The events: a transaction has a date of its own; the last one that      *)
(* committed, the youngest unless transactions crossed, told the whole     *)
(* history; the mirror keeps, for each date, the youngest event applied.   *)
(***************************************************************************)
EnCours(c) == tx[c].pc # "repos"

DatesPropres ==
  /\ \A e \in outbox : e.le <= debuts
  /\ \A c \in Commandes : EnCours(c) =>
       /\ tx[c].debut \in 1 .. debuts
       /\ \A e \in outbox : e.le # tx[c].debut
       /\ \A d \in Commandes \ {c} : EnCours(d) => tx[d].debut # tx[c].debut

EmisVivant == vivant => \A e \in outbox : e.type = "version" /\ versions[e.jour] # Absente

EmisMort ==
  ~vivant => /\ \A d \in Jours : versions[d] = Absente
             /\ \E e \in outbox : e.type = "effacement"

Evenement(le, d, v) == [type |-> "version", le |-> le, jour |-> d, valeur |-> v.valeur, fin |-> v.fin]

\* The events of date m tell the history, and no other is younger.
ToutDitPar(m) ==
  /\ \A e \in outbox : e.le <= m
  /\ \A e \in outbox : e.le = m => e.valeur = versions[e.jour].valeur /\ e.fin = versions[e.jour].fin
  /\ \A d \in Presentes(versions) : Evenement(m, d, versions[d]) \in outbox

ToutDit == vivant /\ ~croise => \E m \in 1 .. MAX_TX : ToutDitPar(m)

Efface == \E f \in traites : f.type = "effacement"

MiroirSuit ==
  /\ \A d \in Jours : miroir[d] # Absente => Evenement(miroir[d].le, d, miroir[d]) \in traites
  /\ ~Efface => \A e \in traites : miroir[e.jour] # Absente /\ miroir[e.jour].le >= e.le
  /\ Efface /\ ~depasse => \A d \in Jours : miroir[d] = Absente

InvMiroir == DatesPropres /\ EmisVivant /\ EmisMort /\ ToutDit /\ MiroirSuit

(***************************************************************************)
(* The days of a history.                                                  *)
(***************************************************************************)
\* A finite set of integers that is not empty has a least element: the element
\* below which the set of smaller ones is minimal for inclusion.
LEMMA PlusPetit ==
  ASSUME NEW S \in SUBSET Int, S # {}, IsFiniteSet(S)
  PROVE  \E x \in S : \A y \in S : x <= y
<1> DEFINE Avant(x) == {y \in S : y < x}
           T == {Avant(x) : x \in S}
<1>1. T \subseteq FiniteSubsetsOf(S) /\ T # {}
  <2>1. ASSUME NEW x \in S PROVE Avant(x) \in FiniteSubsetsOf(S)
    <3>1. Avant(x) \in SUBSET S
      OBVIOUS
    <3>2. IsFiniteSet(Avant(x))
      BY <3>1, FS_Subset
    <3> QED BY <3>1, <3>2 DEF FiniteSubsetsOf
  <2> HIDE DEF Avant
  <2>2. T # {}
    OBVIOUS
  <2> QED BY <2>1, <2>2
<1>2. PICK t \in T : \A u \in T : ~(<<u, t>> \in StrictSubsetOrdering(S))
  BY <1>1, FS_StrictSubsetOrderingWellFounded, WFMin
<1>3. PICK x \in S : t = Avant(x)
  BY <1>2
<1>4. ASSUME NEW y \in S, y < x PROVE FALSE
  <2>1. Avant(y) \in T /\ Avant(y) \subseteq Avant(x) /\ y \in Avant(x) /\ y \notin Avant(y)
    <3>1. x \in Int /\ y \in Int
      OBVIOUS
    <3>2. \A z \in S : z < y => z < x
      BY <1>4, <3>1
    <3>3. Avant(y) \subseteq Avant(x) /\ y \in Avant(x) /\ y \notin Avant(y)
      <4>1. Avant(y) \subseteq Avant(x)
        BY <3>2
      <4>2. y \in Avant(x)
        BY <1>4
      <4>3. y \notin Avant(y)
        BY <3>1
      <4> QED BY <4>1, <4>2, <4>3
    <3>4. Avant(y) \in T
      <4> HIDE DEF Avant
      <4> QED OBVIOUS
    <3> QED BY <3>3, <3>4
  <2>2. <<Avant(y), Avant(x)>> \in StrictSubsetOrdering(S)
    BY <2>1 DEF StrictSubsetOrdering
  <2> QED BY <1>2, <1>3, <2>1, <2>2
<1> QED BY <1>4

\* It also has a greatest one.
LEMMA PlusGrand ==
  ASSUME NEW S \in SUBSET Int, S # {}, IsFiniteSet(S)
  PROVE  \E x \in S : \A y \in S : y <= x
<1> DEFINE T == {-x : x \in S}
<1>1. T \in SUBSET Int /\ T # {}
  <2>1. PICK x \in S : TRUE
    OBVIOUS
  <2>2. -x \in T
    BY <2>1
  <2>3. \A y \in S : -y \in Int
    OBVIOUS
  <2> QED BY <2>2, <2>3
<1>2. IsFiniteSet(T)
  <2> DEFINE f == [x \in S |-> -x]
  <2>1. f \in Surjection(S, T)
    BY DEF Surjection
  <2> QED BY <2>1, FS_Surjection
<1>3. PICK t \in T : \A u \in T : t <= u
  BY <1>1, <1>2, PlusPetit
<1>4. PICK x \in S : t = -x
  BY <1>3
<1>5. \A y \in S : -x <= -y
  BY <1>3, <1>4
<1> QED BY <1>5

LEMMA JoursFinis == IsFiniteSet(Jours)
<1>1. 1 \in Int /\ DERNIER \in Int
  BY ConstantesRessources
<1> QED BY <1>1, FS_Interval DEF Jours

LEMMA PremierJour ==
  ASSUME NEW S \in SUBSET Jours, S # {}
  PROVE  \E d \in S : \A e \in S : d <= e
<1>1. IsFiniteSet(S)
  BY JoursFinis, FS_Subset
<1>2. S \in SUBSET Int
  BY ConstantesRessources DEF Jours
<1> QED BY <1>1, <1>2, PlusPetit

LEMMA DernierJour ==
  ASSUME NEW S \in SUBSET Jours, S # {}
  PROVE  \E d \in S : \A e \in S : e <= d
<1>1. IsFiniteSet(S)
  BY JoursFinis, FS_Subset
<1>2. S \in SUBSET Int
  BY ConstantesRessources DEF Jours
<1> QED BY <1>1, <1>2, PlusGrand

\* cloreVersionPrecedente: a version that has a next one ends on its eve, and
\* the last one never ends.
LEMMA FinEstLaVeille ==
  ASSUME NEW P \in SUBSET Jours, NEW d \in Jours
  PROVE  /\ Fin(P, d) \in Fins
         /\ d <= Fin(P, d)
         /\ \A e \in P : e > d => Fin(P, d) < e
         /\ Fin(P, d) = Infini \/ (Fin(P, d) + 1 \in P /\ Fin(P, d) < Infini)
<1> DEFINE suivantes == {e \in P : e > d}
<1>0. \A e \in Jours : e \in Nat /\ 1 <= e /\ e <= DERNIER
  BY ConstantesRessources DEF Jours
<1>1. CASE suivantes = {}
  <2>1. Fin(P, d) = Infini
    BY <1>1 DEF Fin
  <2>2. \A e \in P : ~(e > d)
    BY <1>1
  <2> QED BY <1>0, <2>1, <2>2, ConstantesRessources DEF Infini, Fins
<1>2. CASE suivantes # {}
  <2> DEFINE m == CHOOSE e \in suivantes : \A f \in suivantes : e <= f
  <2>1. suivantes \in SUBSET Jours
    OBVIOUS
  <2>2. m \in suivantes /\ \A f \in suivantes : m <= f
    BY <1>2, <2>1, PremierJour
  <2>3. Fin(P, d) = m - 1
    BY <1>2 DEF Fin
  <2>4. m \in P /\ m \in Jours /\ m > d
    BY <2>2
  <2>5. \A e \in P : e > d => m <= e
    BY <2>2
  <2> HIDE DEF m
  <2>6. m \in Nat /\ d \in Nat /\ 1 <= d /\ m <= DERNIER /\ m > d
    BY <1>0, <2>4
  <2>7. m - 1 \in Jours /\ d <= m - 1 /\ m - 1 < Infini /\ m - 1 + 1 = m
    BY <2>6, ConstantesRessources DEF Jours, Infini
  <2>8. \A e \in P : e > d => m - 1 < e
    BY <1>0, <2>5, <2>6
  <2> QED BY <2>3, <2>4, <2>7, <2>8 DEF Fins
<1> QED BY <1>1, <1>2

\* materialiserFins keeps the versions and their values, and leaves each one
\* ending on the eve of the next.
LEMMA MaterialiserRangeTout ==
  ASSUME NEW s \in Suites, NEW d
  PROVE  LET m == MaterialiserFins(s, d) IN
         /\ m \in Suites
         /\ Presentes(m) = Presentes(s)
         /\ \A e \in Presentes(s) : m[e].valeur = s[e].valeur
         /\ Contigue(m)
<1> DEFINE m == MaterialiserFins(s, d)
<1>1. ASSUME NEW e \in Jours
      PROVE  /\ s[e] = Absente => m[e] = Absente
             /\ s[e] # Absente => /\ s[e] \in Versions /\ m[e] \in Versions
                                 /\ m[e].valeur = s[e].valeur
                                 /\ m[e].fin = Fin(Presentes(s), e)
  <2>1. m[e] = IF s[e] = Absente THEN Absente ELSE [s[e] EXCEPT !.fin = Fin(Presentes(s), e)]
    BY DEF MaterialiserFins
  <2>2. s[e] \in Versions \cup {Absente}
    BY DEF Suites
  <2>3. Presentes(s) \in SUBSET Jours
    BY DEF Presentes
  <2>4. Fin(Presentes(s), e) \in Fins
    BY <2>3, FinEstLaVeille
  <2> QED BY <2>1, <2>2, <2>4 DEF Versions
<1>2. m = [e \in Jours |-> m[e]]
  BY DEF MaterialiserFins
<1> HIDE DEF m
<1>3. m \in Suites
  BY <1>1, <1>2 DEF Suites
<1>4. Presentes(m) = Presentes(s)
  <2>1. \A e \in Jours : m[e] # Absente <=> s[e] # Absente
    BY <1>1, ConstantesRessources
  <2> QED BY <2>1 DEF Presentes
<1>5. \A e \in Presentes(s) : m[e].valeur = s[e].valeur /\ m[e].fin = Fin(Presentes(s), e)
  BY <1>1 DEF Presentes
<1>6. Contigue(m)
  BY <1>4, <1>5 DEF Contigue
<1> QED BY <1>3, <1>4, <1>5, <1>6 DEF m

\* versionApplicable finds a version as soon as there is one.
LEMMA ApplicablePresente ==
  ASSUME NEW s, NEW d, Presentes(s) # {}
  PROVE  \E e \in Presentes(s) : VersionApplicable(s, d) = s[e]
<1> DEFINE passees == {e \in Presentes(s) : e <= d}
<1>0. Presentes(s) \in SUBSET Jours
  BY DEF Presentes
<1>1. CASE passees # {}
  <2>1. PICK e \in passees : e = CHOOSE f \in passees : \A g \in passees : g <= f
    BY <1>0, <1>1, DernierJour
  <2> QED BY <1>1, <2>1 DEF VersionApplicable
<1>2. CASE passees = {}
  <2>1. PICK e \in Presentes(s) : e = CHOOSE f \in Presentes(s) : \A g \in Presentes(s) : f <= g
    BY <1>0, PremierJour
  <2> QED BY <1>2, <2>1 DEF VersionApplicable
<1> QED BY <1>1, <1>2

(***************************************************************************)
(* Types.                                                                  *)
(***************************************************************************)
Types == TypeOK /\ Entamees

LEMMA EvenementsTypes ==
  ASSUME NEW le \in 1 .. MAX_TX, NEW s \in Suites
  PROVE  EvenementsDe(le, s) \subseteq Evenements
BY DEF EvenementsDe, Evenements, Suites, Presentes, Versions

LEMMA ReposType == Repos \in TxTypes /\ Repos.pc = "repos"
<1> USE ConstantesRessources
<1>1. [d \in Jours |-> Absente] \in Suites /\ 1 \in Jours /\ 0 \in 0 .. MAX_TX
  BY DEF Suites, Jours
<1> QED BY <1>1 DEF Repos, TxTypes

LEMMA TypesInit == Init => Types
<1> SUFFICES ASSUME Init PROVE Types
  OBVIOUS
<1> USE ConstantesRessources
<1>1. PICK d \in bareme .. DERNIER, v \in Valeurs : Creer(d, v)
  BY DEF Init
<1> DEFINE s == [e \in Jours |-> IF e = d THEN [valeur |-> v, fin |-> Infini] ELSE Absente]
<1>2. s \in Suites /\ versions = MaterialiserFins(s, d) /\ outbox = EvenementsDe(1, versions)
      /\ courante \in Valeurs
  BY <1>1 DEF Creer, Suites, Versions, Fins
<1> HIDE DEF s
<1>3. versions \in Suites
  BY <1>2, MaterialiserRangeTout
<1>4. outbox \subseteq Evenements
  <2>1. 1 \in 1 .. MAX_TX
    OBVIOUS
  <2> QED BY <1>2, <1>3, <2>1, EvenementsTypes
<1>5. Repos \in TxTypes /\ Repos.pc = "repos"
  BY ReposType
<1>6. tx \in [Commandes -> TxTypes] /\ Entamees
  BY <1>5 DEF Init, Entamees, Sous
<1>7. miroir \in [Jours -> Projetees \cup {Absente}]
  BY DEF Init
<1>8. journal \in Seq([jour : Jours, avant : Valeurs, apres : Valeurs])
  BY DEF Init
<1>9. 1 \in Jours /\ 1 \in 0 .. MAX_TX
  BY DEF Jours
<1> QED BY <1>2, <1>3, <1>4, <1>6, <1>7, <1>8, <1>9 DEF Init, TypeOK, Types

\* A step that writes the transaction of one request.
LEMMA UneRequete ==
  ASSUME tx \in [Commandes -> TxTypes], Entamees, NEW c \in Commandes, NEW r \in TxTypes,
         r.pc # "repos" => r.debut # 0,
         r.pc \in Sous => r.valeur # Absente,
         r.pc = "validation" => r.suite[r.jour] # Absente,
         tx' = [tx EXCEPT ![c] = r]
  PROVE  tx' \in [Commandes -> TxTypes] /\ Entamees'
<1>1. tx' \in [Commandes -> TxTypes]
  OBVIOUS
<1>2. \A d \in Commandes : tx'[d] = IF d = c THEN r ELSE tx[d]
  OBVIOUS
<1> QED BY <1>1, <1>2 DEF Entamees

\* The history a save computes.
Lue(t) == [versions EXCEPT ![t.jour] =
             [valeur |-> t.valeur, fin |-> IF @ = Absente THEN Infini ELSE @.fin]]

LEMMA LueTypes ==
  ASSUME versions \in Suites, NEW t \in TxTypes, t.valeur # Absente
  PROVE  /\ Lue(t) \in Suites
         /\ Lue(t)[t.jour] # Absente /\ Lue(t)[t.jour].valeur = t.valeur
         /\ \A d \in Jours \ {t.jour} : Lue(t)[d] = versions[d]
         /\ t.jour \in Presentes(Lue(t))
<1>1. t.jour \in Jours /\ t.valeur \in Valeurs
  BY DEF TxTypes
<1>2. versions[t.jour] \in Versions \cup {Absente}
  BY <1>1 DEF Suites
<1> DEFINE v == [valeur |-> t.valeur,
                 fin |-> IF versions[t.jour] = Absente THEN Infini ELSE versions[t.jour].fin]
<1>3. v \in Versions /\ v.valeur = t.valeur
  BY <1>1, <1>2 DEF Versions, Fins
<1>4. Lue(t) = [versions EXCEPT ![t.jour] = v]
  BY DEF Lue
<1> HIDE DEF v
<1>5. v # Absente
  BY <1>3, ConstantesRessources
<1> QED BY <1>1, <1>3, <1>4, <1>5 DEF Suites, Presentes

LEMMA TypesNext == Types /\ [Next]_vars => Types'
<1> SUFFICES ASSUME Types, [Next]_vars PROVE Types'
  OBVIOUS
<1> USE ConstantesRessources
<1>0. TypeOK /\ Entamees
  BY DEF Types
<1>1. ASSUME NEW c \in Commandes, Commencer(c) PROVE Types'
  <2>1. PICK d \in Jours, v \in Valeurs \cup {Absente} :
          tx' = [tx EXCEPT ![c] = [Repos EXCEPT !.pc = "verrou", !.jour = d,
                                                !.debut = debuts', !.valeur = v]]
    BY <1>1 DEF Commencer
  <2>2. debuts' \in 0 .. MAX_TX /\ debuts' # 0
    BY <1>0, <1>1 DEF Commencer, TypeOK
  <2> DEFINE r == [Repos EXCEPT !.pc = "verrou", !.jour = d, !.debut = debuts', !.valeur = v]
  <2>3. r \in TxTypes /\ r.pc = "verrou" /\ r.debut = debuts'
    BY <2>2, ReposType DEF TxTypes
  <2> HIDE DEF r
  <2>4. tx' \in [Commandes -> TxTypes] /\ Entamees'
    <3>1. tx' = [tx EXCEPT ![c] = r]
      BY <2>1 DEF r
    <3> QED BY <1>0, <2>2, <2>3, <3>1, UneRequete DEF Sous, TypeOK
  <2> QED BY <1>0, <1>1, <2>2, <2>4 DEF Types, TypeOK, Commencer, foyerVars, horloge, miroirVars
<1>2. ASSUME NEW c \in Commandes, Introuvable(c) PROVE Types'
  <2>1. tx' \in [Commandes -> TxTypes] /\ Entamees'
    BY <1>0, <1>2, ReposType, UneRequete DEF Sous, TypeOK, Introuvable
  <2> QED BY <1>0, <1>2, <2>1 DEF Types, TypeOK, Introuvable, foyerVars, horloge, miroirVars
<1>3. ASSUME NEW c \in Commandes, Verrouiller(c) PROVE Types'
  <2> DEFINE r == [tx[c] EXCEPT !.pc = "saisie"]
  <2>1. tx[c] \in TxTypes
    BY <1>0 DEF TypeOK
  <2>2. r \in TxTypes /\ r.pc = "saisie" /\ r.debut = tx[c].debut /\ r.valeur = tx[c].valeur
    BY <2>1 DEF TxTypes
  <2>3. tx' = [tx EXCEPT ![c] = r]
    BY <1>3 DEF Verrouiller
  <2> HIDE DEF r
  <2>4. tx' \in [Commandes -> TxTypes] /\ Entamees'
    <3>1. tx[c].debut # 0 /\ tx[c].valeur # Absente
      BY <1>0, <1>3 DEF Entamees, Verrouiller
    <3> QED BY <1>0, <2>2, <2>3, <3>1, UneRequete DEF TypeOK
  <2> QED BY <1>0, <1>3, <2>4 DEF Types, TypeOK, Verrouiller, foyerVars, horloge, miroirVars
<1>4. ASSUME NEW c \in Commandes, Saisir(c) PROVE Types'
  <2> DEFINE a == IF versions[tx[c].jour] = Absente THEN Absente ELSE versions[tx[c].jour].valeur
             r == [tx[c] EXCEPT !.pc = "calcul", !.avant = a]
  <2>1. tx[c] \in TxTypes /\ tx[c].debut # 0 /\ tx[c].valeur # Absente
    BY <1>0, <1>4 DEF TypeOK, Entamees, Saisir, Sous
  <2>2. a \in Valeurs \cup {Absente}
    <3>1. versions[tx[c].jour] \in Versions \cup {Absente}
      BY <1>0, <2>1 DEF TypeOK, Suites, TxTypes
    <3> QED BY <3>1 DEF Versions
  <2>3. tx' = [tx EXCEPT ![c] = r]
    BY <1>4 DEF Saisir
  <2> HIDE DEF a
  <2>4. r \in TxTypes /\ r.pc = "calcul" /\ r.debut = tx[c].debut /\ r.valeur = tx[c].valeur
    BY <2>1, <2>2 DEF TxTypes
  <2> HIDE DEF r
  <2>5. tx' \in [Commandes -> TxTypes] /\ Entamees'
    BY <1>0, <2>1, <2>3, <2>4, UneRequete DEF TypeOK
  <2> QED BY <1>0, <1>4, <2>5 DEF Types, TypeOK, Saisir, foyerVars, horloge, miroirVars
<1>5. ASSUME NEW c \in Commandes, Calculer(c) PROVE Types'
  <2> DEFINE t == tx[c]
             s == MaterialiserFins(Lue(t), t.jour)
             w == {t.jour} \cup {d \in Jours : s[d] # Lue(t)[d]}
             r == [t EXCEPT !.pc = "validation", !.suite = s, !.ecrits = w]
  <2>1. t \in TxTypes /\ t.debut # 0 /\ t.valeur # Absente
    BY <1>0, <1>5 DEF TypeOK, Entamees, Calculer, Sous
  <2>2. s \in Suites /\ s[t.jour] # Absente
    <3>1. Lue(t) \in Suites /\ t.jour \in Presentes(Lue(t))
      BY <1>0, <2>1, LueTypes DEF TypeOK
    <3>2. t.jour \in Presentes(s) /\ s \in Suites
      BY <3>1, MaterialiserRangeTout
    <3> QED BY <3>2 DEF Presentes
  <2>3. w \subseteq Jours
    BY <2>1 DEF TxTypes
  <2>4. tx' = [tx EXCEPT ![c] = r]
    BY <1>5 DEF Calculer, Lue
  <2> HIDE DEF s, w, t
  <2>5. r \in TxTypes /\ r.pc = "validation" /\ r.debut = t.debut /\ r.valeur = t.valeur
        /\ r.suite = s /\ r.jour = t.jour
    BY <2>1, <2>2, <2>3 DEF TxTypes
  <2> HIDE DEF r
  <2>6. tx' \in [Commandes -> TxTypes] /\ Entamees'
    BY <1>0, <2>1, <2>2, <2>4, <2>5, UneRequete DEF TypeOK
  <2> QED BY <1>0, <1>5, <2>6 DEF Types, TypeOK, Calculer, foyerVars, horloge, miroirVars
<1>6. ASSUME NEW c \in Commandes, Valider(c) PROVE Types'
  <2> DEFINE t == tx[c]
  <2>1. /\ t \in TxTypes /\ t.debut \in 1 .. MAX_TX /\ t.valeur \in Valeurs
        /\ t.suite \in Suites /\ t.jour \in Presentes(t.suite)
    <3>1. t \in TxTypes /\ t.debut # 0 /\ t.valeur # Absente /\ t.suite[t.jour] # Absente
      BY <1>0, <1>6 DEF TypeOK, Entamees, Valider, Sous
    <3> QED BY <3>1 DEF TxTypes, Presentes
  <2>2. tx' \in [Commandes -> TxTypes] /\ Entamees'
    BY <1>0, <1>6, ReposType, UneRequete DEF Sous, TypeOK, Valider, Terminer
  <2>3. verrou' \in Commandes \cup {Libre}
    BY <1>0, <1>6 DEF TypeOK, Valider, Terminer
  <2>4. versions' \in Suites
    BY <1>0, <1>6, <2>1 DEF TypeOK, Suites, Valider
  <2>5. journal' \in Seq([jour : Jours, avant : Valeurs, apres : Valeurs])
    <3>1. journal' = IF t.avant = Absente THEN journal
                     ELSE Append(journal, [jour |-> t.jour, avant |-> t.avant, apres |-> t.valeur])
      BY <1>6 DEF Valider
    <3>2. t.avant \in Valeurs \cup {Absente} /\ t.jour \in Jours
      BY <2>1 DEF TxTypes
    <3> DEFINE Lignes == [jour : Jours, avant : Valeurs, apres : Valeurs]
               l == [jour |-> t.jour, avant |-> t.avant, apres |-> t.valeur]
    <3>3. journal \in Seq(Lignes)
      BY <1>0 DEF TypeOK
    <3>4. CASE t.avant = Absente
      BY <3>1, <3>3, <3>4
    <3>5. CASE t.avant # Absente
      <4>1. l \in Lignes
        BY <2>1, <3>2, <3>5
      <4>2. journal' = Append(journal, l)
        BY <3>1, <3>5
      <4> HIDE DEF Lignes, l
      <4>3. journal' \in Seq(Lignes)
        BY <3>3, <4>1, <4>2
      <4> QED BY <4>3 DEF Lignes
    <3> QED BY <3>4, <3>5
  <2>6. courante' \in Valeurs
    <3>1. PICK e \in Presentes(t.suite) : VersionApplicable(t.suite, jour) = t.suite[e]
      BY <2>1, ApplicablePresente
    <3>2. t.suite[e] \in Versions
      BY <2>1, <3>1 DEF Suites, Presentes
    <3> QED BY <1>6, <3>1, <3>2 DEF Valider, LigneCourante, Versions
  <2>7. outbox' \subseteq Evenements /\ outbox \subseteq outbox'
    <3>1. EvenementsDe(t.debut, t.suite) \subseteq Evenements
      BY <2>1, EvenementsTypes
    <3> QED BY <1>0, <1>6, <3>1 DEF TypeOK, Valider, Emettre
  <2>8. croise' \in BOOLEAN
    BY <1>0, <1>6 DEF TypeOK, Valider
  <2>9. UNCHANGED <<vivant, debuts, horloge, miroirVars>> /\ jourLigne' \in Jours
    BY <1>0, <1>6 DEF TypeOK, Valider
  <2> QED BY <1>0, <2>2, <2>3, <2>4, <2>5, <2>6, <2>7, <2>8, <2>9 DEF Types, TypeOK, horloge, miroirVars
<1>7. ASSUME NEW c \in Commandes, Refuser(c) PROVE Types'
  <2>1. tx' \in [Commandes -> TxTypes] /\ Entamees'
    BY <1>0, <1>7, ReposType, UneRequete DEF Sous, TypeOK, Refuser, Terminer
  <2> QED BY <1>0, <1>7, <2>1 DEF Types, TypeOK, Refuser, Terminer, foyerVars, horloge, miroirVars
<1>8. ASSUME NEW c \in Commandes, Effacer(c) PROVE Types'
  <2>1. tx' \in [Commandes -> TxTypes] /\ Entamees'
    BY <1>0, <1>8, ReposType, UneRequete DEF Sous, TypeOK, Effacer, Terminer
  <2>2. versions' \in Suites
    BY <1>8 DEF Effacer, Suites
  <2>3. outbox' \subseteq Evenements /\ outbox \subseteq outbox'
    <3>1. tx[c].debut \in 1 .. MAX_TX
      BY <1>0, <1>8 DEF TypeOK, TxTypes, Entamees, Effacer
    <3> QED BY <1>0, <1>8, <3>1 DEF TypeOK, Effacer, Evenements
  <2>4. verrou' \in Commandes \cup {Libre} /\ croise' \in BOOLEAN /\ vivant' \in BOOLEAN
    BY <1>0, <1>8 DEF TypeOK, Effacer, Terminer
  <2>5. journal' \in Seq([jour : Jours, avant : Valeurs, apres : Valeurs])
    BY <1>8 DEF Effacer
  <2>6. UNCHANGED <<courante, jourLigne, debuts, horloge, miroirVars>>
    BY <1>8 DEF Effacer
  <2> QED BY <1>0, <2>1, <2>2, <2>3, <2>4, <2>5, <2>6 DEF Types, TypeOK, horloge, miroirVars
<1>9. CASE JourSuivant
  BY <1>0, <1>9 DEF Types, TypeOK, Entamees, JourSuivant, foyerVars, txVars, miroirVars, Jours
<1>10. CASE ProjeterBareme
  BY <1>0, <1>10 DEF Types, TypeOK, Entamees, ProjeterBareme, foyerVars, txVars, miroirVars, Jours
<1>11. ASSUME NEW e \in outbox, ProjeterVersion(e) PROVE Types'
  <2>1. e \in Evenements /\ e.type = "version"
    BY <1>0, <1>11 DEF TypeOK, ProjeterVersion
  <2>2. e.jour \in Jours /\ e.valeur \in Valeurs /\ e.fin \in Fins /\ e.le \in 1 .. MAX_TX
    BY <2>1 DEF Evenements
  <2>3. miroir' \in [Jours -> Projetees \cup {Absente}]
    BY <1>0, <1>11, <2>2 DEF TypeOK, ProjeterVersion, Projetees
  <2>4. traites' \subseteq outbox /\ depasse' \in BOOLEAN
    BY <1>0, <1>11 DEF TypeOK, ProjeterVersion
  <2> QED BY <1>0, <1>11, <2>3, <2>4
          DEF Types, TypeOK, Entamees, ProjeterVersion, foyerVars, txVars, horloge
<1>12. ASSUME NEW e \in outbox, ProjeterEffacement(e) PROVE Types'
  <2>1. miroir' \in [Jours -> Projetees \cup {Absente}]
    BY <1>12 DEF ProjeterEffacement
  <2> QED BY <1>0, <1>12, <2>1
          DEF Types, TypeOK, Entamees, ProjeterEffacement, foyerVars, txVars, horloge
<1>13. CASE UNCHANGED vars
  BY <1>0, <1>13 DEF Types, TypeOK, Entamees, vars, foyerVars, txVars, horloge, miroirVars
<1> QED BY <1>1, <1>2, <1>3, <1>4, <1>5, <1>6, <1>7, <1>8, <1>9, <1>10, <1>11, <1>12, <1>13 DEF Next

LEMMA TypesTenus == Spec => []Types
<1>1. Init => Types
  BY TypesInit
<1>2. Types /\ [Next]_vars => Types'
  BY TypesNext
<1> QED BY <1>1, <1>2, PTL DEF Spec

\* Type correctness: what a save commits and what the mirror holds are
\* histories, whatever requests and deliveries interleave (foyer.service.ts,
\* projection.service.ts).
THEOREM TypeCorrect == Spec => []TypeOK
<1>1. Types => TypeOK
  BY DEF Types
<1> QED BY <1>1, TypesTenus, PTL

(***************************************************************************)
(* The periods.                                                            *)
(***************************************************************************)
LEMMA ContigueRangeLeTemps ==
  ASSUME NEW s, Contigue(s), NEW j \in Jours, \E d \in Presentes(s) : d <= j
  PROVE  \E d \in Jours : /\ Couvre(s, d, j)
                          /\ \A e \in Jours : Couvre(s, e, j) => e = d
<1> DEFINE passees == {d \in Presentes(s) : d <= j}
<1>0. \A e \in Jours : e \in Nat /\ 1 <= e /\ e <= DERNIER
  BY ConstantesRessources DEF Jours
<1>1. passees \in SUBSET Jours /\ passees # {} /\ Presentes(s) \in SUBSET Jours
  BY DEF Presentes
<1>2. PICK d \in passees : \A e \in passees : e <= d
  BY <1>1, DernierJour
<1>3. d \in Jours /\ d \in Presentes(s) /\ d <= j /\ s[d].fin = Fin(Presentes(s), d)
  BY <1>1, <1>2 DEF Contigue
<1>4. Couvre(s, d, j)
  <2>1. \A e \in Presentes(s) : e > d => Fin(Presentes(s), d) < e
    BY <1>1, <1>3, FinEstLaVeille
  <2>2. CASE Fin(Presentes(s), d) = Infini
    BY <1>0, <1>3, <2>2, ConstantesRessources DEF Couvre, Presentes, Infini
  <2>3. CASE Fin(Presentes(s), d) # Infini
    <3> DEFINE f == Fin(Presentes(s), d)
    <3>1. f \in Fins /\ d <= f /\ f + 1 \in Presentes(s)
      BY <1>1, <1>3, <2>3, FinEstLaVeille
    <3> HIDE DEF f
    <3>2. f \in Nat /\ d \in Nat /\ j \in Nat /\ f + 1 > d
      BY <1>0, <1>3, <3>1, ConstantesRessources DEF Fins, Infini
    <3>3. ~(f + 1 <= j)
      <4>1. SUFFICES ASSUME f + 1 <= j PROVE FALSE
        OBVIOUS
      <4>2. f + 1 \in passees
        BY <3>1, <4>1
      <4> QED BY <1>2, <3>2, <4>2
    <3>4. j <= f
      BY <3>2, <3>3
    <3> QED BY <1>3, <3>4 DEF Couvre, Presentes, f
  <2> QED BY <2>2, <2>3
<1>5. ASSUME NEW e \in Jours, Couvre(s, e, j) PROVE e = d
  <2>1. e \in Presentes(s) /\ e <= j /\ j <= s[e].fin /\ s[e].fin = Fin(Presentes(s), e)
    BY <1>5 DEF Couvre, Presentes, Contigue
  <2>2. e <= d
    BY <1>2, <2>1
  <2>3. ~(d > e)
    <3>1. SUFFICES ASSUME d > e PROVE FALSE
      OBVIOUS
    <3>2. Fin(Presentes(s), e) < d
      BY <1>1, <1>3, <1>5, <3>1, FinEstLaVeille
    <3>3. Fin(Presentes(s), e) \in Nat
      BY <1>1, <1>5, FinEstLaVeille, ConstantesRessources DEF Fins, Jours, Infini
    <3> QED BY <1>0, <1>3, <2>1, <3>2, <3>3
  <2> QED BY <1>0, <1>3, <1>5, <2>2, <2>3
<1> QED BY <1>3, <1>4, <1>5

(***************************************************************************)
(* The history and its journal.                                            *)
(***************************************************************************)
LEMMA VersionsInit == Init => InvVersions
<1> SUFFICES ASSUME Init PROVE InvVersions
  OBVIOUS
<1> USE ConstantesRessources
<1>1. PICK d \in bareme .. DERNIER, v \in Valeurs : Creer(d, v)
  BY DEF Init
<1> DEFINE s == [e \in Jours |-> IF e = d THEN [valeur |-> v, fin |-> Infini] ELSE Absente]
<1>2. s \in Suites /\ versions = MaterialiserFins(s, d) /\ courante = v
  BY <1>1 DEF Creer, Suites, Versions, Fins
<1>3. d \in Jours
  BY DEF Init, Jours
<1>4. Presentes(s) = {d} /\ s[d].valeur = v
  <2>1. s[d] = [valeur |-> v, fin |-> Infini] /\ s[d] \in Versions
    BY <1>3 DEF Versions, Fins
  <2>2. s[d] # Absente
    BY <2>1
  <2> QED BY <1>3, <2>1, <2>2 DEF Presentes
<1> HIDE DEF s
<1>5. Contigue(versions) /\ Presentes(versions) = {d} /\ versions[d].valeur = v
  BY <1>2, <1>4, MaterialiserRangeTout
<1>6. LigneFidele
  <2>1. PICK e \in Presentes(versions) : VersionApplicable(versions, jourLigne) = versions[e]
    BY <1>5, ApplicablePresente
  <2> QED BY <1>2, <1>5, <2>1 DEF LigneFidele
<1>7. VerrouTenu /\ AvantLu /\ SuiteCalculee
  BY ReposType DEF Init, VerrouTenu, AvantLu, SuiteCalculee, Sous
<1>8. JournalPresent /\ JournalFidele
  BY DEF Init, JournalPresent, JournalFidele
<1> QED BY <1>5, <1>6, <1>7, <1>8 DEF InvVersions

\* A step that does not touch the history.
LEMMA HistoireInchangee ==
  ASSUME InvVersions, UNCHANGED <<vivant, courante, versions, journal, jourLigne>>
  PROVE  Contigue(versions)' /\ JournalPresent' /\ JournalFidele' /\ LigneFidele'
BY DEF InvVersions, Contigue, JournalPresent, JournalFidele, LigneFidele, Suivante, Derniere

\* Nor the step of a request that stays out of the lock.
LEMMA HorsDuVerrou ==
  ASSUME InvVersions, UNCHANGED <<vivant, courante, versions, journal, jourLigne, verrou>>,
         NEW c \in Commandes,
         \A d \in Commandes \ {c} : tx'[d] = tx[d],
         tx'[c].pc \notin Sous
  PROVE  InvVersions'
<1>1. VerrouTenu'
  BY DEF InvVersions, VerrouTenu
<1>2. AvantLu'
  BY DEF InvVersions, AvantLu, Sous
<1>3. SuiteCalculee'
  <2>1. ASSUME NEW d \in Commandes, tx'[d].pc = "validation" PROVE SuiteDe(tx[d])'
    <3>1. d # c /\ tx'[d] = tx[d] /\ SuiteDe(tx[d])
      BY <2>1 DEF InvVersions, SuiteCalculee, Sous
    <3> QED BY <3>1 DEF SuiteDe, Contigue
  <2> QED BY <2>1 DEF SuiteCalculee
<1> QED BY <1>1, <1>2, <1>3, HistoireInchangee DEF InvVersions

\* The journal after a save of value v at date j, whose version was read as a.
LEMMA JournalSuivi ==
  ASSUME Types, JournalPresent, JournalFidele,
         NEW j \in Jours, NEW a, NEW v, 
         a = IF versions[j] = Absente THEN Absente ELSE versions[j].valeur,
         journal' = IF a = Absente THEN journal
                    ELSE Append(journal, [jour |-> j, avant |-> a, apres |-> v]),
         versions'[j] # Absente, versions'[j].valeur = v,
         \A d \in Jours \ {j} :
           versions[d] # Absente => versions'[d] # Absente /\ versions'[d].valeur = versions[d].valeur
  PROVE  JournalPresent' /\ JournalFidele'
<1>0. /\ journal \in Seq([jour : Jours, avant : Valeurs, apres : Valeurs])
      /\ versions \in Suites
  BY DEF Types, TypeOK
<1>1. \A i \in DOMAIN journal : journal[i].jour \in Jours /\ versions[journal[i].jour] # Absente
  <2> DEFINE Lignes == [jour : Jours, avant : Valeurs, apres : Valeurs]
  <2>1. \A l \in Lignes : l.jour \in Jours
    OBVIOUS
  <2>2. journal \in Seq(Lignes)
    BY <1>0
  <2> HIDE DEF Lignes
  <2>3. \A i \in DOMAIN journal : journal[i] \in Lignes
    BY <2>2
  <2> QED BY <2>1, <2>3 DEF JournalPresent
<1>2. CASE a = Absente
  <2>1. versions[j] = Absente
    <3>1. versions[j] \in Versions \cup {Absente}
      BY <1>0 DEF Suites
    <3> QED BY <1>2, <3>1, ConstantesRessources DEF Versions
  <2>2. journal' = journal
    BY <1>2
  <2>3. \A i \in DOMAIN journal :
          versions'[journal[i].jour] # Absente
          /\ versions'[journal[i].jour].valeur = versions[journal[i].jour].valeur
    BY <1>1, <2>1
  <2> QED BY <2>2, <2>3 DEF JournalPresent, JournalFidele, Suivante, Derniere
<1>3. CASE a # Absente
  <2> DEFINE l == [jour |-> j, avant |-> a, apres |-> v]
             n == Len(journal) + 1
  <2>1. journal' = Append(journal, l) /\ versions[j] # Absente /\ a = versions[j].valeur
    BY <1>3
  <2>2. /\ Len(journal) \in Nat /\ DOMAIN journal = 1 .. Len(journal)
        /\ DOMAIN journal' = 1 .. n /\ n \in DOMAIN journal' /\ n \in Nat
        /\ journal'[n] = l
        /\ \A i \in DOMAIN journal : i \in DOMAIN journal' /\ i # n /\ i < n /\ journal'[i] = journal[i]
    BY <1>0, <2>1
  <2>3. l.jour = j /\ l.avant = a /\ l.apres = v
    OBVIOUS
  <2> HIDE DEF l
  <2>4. \A i \in DOMAIN journal' : i \in Nat /\ (i = n \/ i \in DOMAIN journal)
    BY <2>2
  <2>5. \A k \in DOMAIN journal' : ~(n < k)
    BY <2>2
  <2> HIDE DEF n
  <2>6. JournalPresent'
    <3>1. ASSUME NEW i \in DOMAIN journal' PROVE versions'[journal'[i].jour] # Absente
      BY <1>1, <2>2, <2>3, <2>4
    <3> QED BY <3>1 DEF JournalPresent
  <2>7. ASSUME NEW i \in DOMAIN journal', NEW k \in DOMAIN journal', Suivante(i, k)'
        PROVE  journal'[k].avant = journal'[i].apres
    <3>1. i \in DOMAIN journal
      BY <2>4, <2>5, <2>7 DEF Suivante
    <3>2. CASE k = n
      <4>1. journal[i].jour = j
        BY <2>2, <2>3, <2>7, <3>1, <3>2 DEF Suivante
      <4>2. Derniere(i)
        <5>1. ASSUME NEW m \in DOMAIN journal, i < m PROVE journal[m].jour # journal[i].jour
          BY <2>2, <2>7, <3>1, <3>2, <5>1 DEF Suivante
        <5> QED BY <5>1 DEF Derniere
      <4>3. versions[j].valeur = journal[i].apres
        BY <3>1, <4>1, <4>2 DEF JournalFidele
      <4> QED BY <2>1, <2>2, <2>3, <3>1, <3>2, <4>3
    <3>3. CASE k \in DOMAIN journal
      <4>1. Suivante(i, k)
        BY <2>2, <2>7, <3>1, <3>3 DEF Suivante
      <4> QED BY <2>2, <3>1, <3>3, <4>1 DEF JournalFidele
    <3> QED BY <2>4, <3>2, <3>3
  <2>8. ASSUME NEW i \in DOMAIN journal', Derniere(i)'
        PROVE  /\ versions'[journal'[i].jour] # Absente
               /\ versions'[journal'[i].jour].valeur = journal'[i].apres
    <3>1. CASE i = n
      BY <2>2, <2>3, <3>1
    <3>2. CASE i \in DOMAIN journal
      <4>1. journal[i].jour # j
        BY <2>2, <2>3, <2>8, <3>2 DEF Derniere
      <4>2. Derniere(i)
        BY <2>2, <2>8, <3>2 DEF Derniere
      <4>3. versions[journal[i].jour].valeur = journal[i].apres
        BY <3>2, <4>2 DEF JournalFidele
      <4> QED BY <1>1, <2>2, <3>2, <4>1, <4>3
    <3> QED BY <2>4, <3>1, <3>2
  <2>9. \A i \in DOMAIN journal' :
          /\ \A k \in DOMAIN journal' : Suivante(i, k)' => journal'[k].avant = journal'[i].apres
          /\ Derniere(i)' => /\ versions'[journal'[i].jour] # Absente
                            /\ versions'[journal'[i].jour].valeur = journal'[i].apres
    BY <2>7, <2>8
  <2> QED BY <2>6, <2>9 DEF JournalFidele
<1> QED BY <1>2, <1>3

LEMMA VersionsNext == Types /\ InvVersions /\ [Next]_vars => InvVersions'
<1> SUFFICES ASSUME Types, InvVersions, [Next]_vars PROVE InvVersions'
  OBVIOUS
<1> USE ConstantesRessources
<1>0. /\ tx \in [Commandes -> TxTypes] /\ versions \in Suites /\ Entamees
      /\ VerrouTenu /\ AvantLu /\ SuiteCalculee
  BY DEF Types, TypeOK, InvVersions
<1>1. ASSUME NEW c \in Commandes, Commencer(c) PROVE InvVersions'
  <2>1. (\A d \in Commandes \ {c} : tx'[d] = tx[d]) /\ tx'[c].pc = "verrou"
    BY <1>0, <1>1 DEF Commencer, Repos
  <2>2. UNCHANGED <<vivant, courante, versions, journal, jourLigne, verrou>>
    BY <1>1 DEF Commencer, foyerVars
  <2> QED BY <2>1, <2>2, HorsDuVerrou DEF Sous
<1>2. ASSUME NEW c \in Commandes, Introuvable(c) PROVE InvVersions'
  <2>1. (\A d \in Commandes \ {c} : tx'[d] = tx[d]) /\ tx'[c].pc = "repos"
    BY <1>0, <1>2, ReposType DEF Introuvable
  <2>2. UNCHANGED <<vivant, courante, versions, journal, jourLigne, verrou>>
    BY <1>2 DEF Introuvable, foyerVars
  <2> QED BY <2>1, <2>2, HorsDuVerrou DEF Sous
<1>3. ASSUME NEW c \in Commandes, Verrouiller(c) PROVE InvVersions'
  <2>1. /\ \A d \in Commandes \ {c} : tx'[d] = tx[d]
        /\ tx'[c].pc = "saisie" /\ vivant /\ verrou = Libre /\ verrou' = c
        /\ UNCHANGED <<vivant, courante, versions, journal, jourLigne>>
    BY <1>0, <1>3 DEF Verrouiller, foyerVars
  <2>2. \A d \in Commandes : tx[d].pc \notin Sous
    BY <1>0, <2>1 DEF VerrouTenu
  <2>3. VerrouTenu' /\ AvantLu' /\ SuiteCalculee'
    BY <2>1, <2>2 DEF VerrouTenu, AvantLu, SuiteCalculee, Sous
  <2> QED BY <2>1, <2>3, HistoireInchangee DEF InvVersions
<1>4. ASSUME NEW c \in Commandes, Saisir(c) PROVE InvVersions'
  <2>1. /\ \A d \in Commandes \ {c} : tx'[d] = tx[d]
        /\ tx'[c].pc = "calcul" /\ tx'[c].jour = tx[c].jour /\ tx[c].pc = "saisie"
        /\ tx'[c].avant = IF versions[tx[c].jour] = Absente THEN Absente
                          ELSE versions[tx[c].jour].valeur
    BY <1>0, <1>4 DEF Saisir, TxTypes
  <2>2. UNCHANGED <<vivant, courante, versions, journal, jourLigne, verrou>>
    BY <1>4 DEF Saisir, foyerVars
  <2>3. \A d \in Commandes \ {c} : tx[d].pc \notin Sous
    BY <1>0, <2>1 DEF VerrouTenu, Sous
  <2>4. VerrouTenu'
    BY <1>0, <2>1, <2>2, <2>3 DEF VerrouTenu, Sous
  <2>5. AvantLu'
    BY <2>1, <2>2, <2>3 DEF AvantLu, Sous
  <2>6. SuiteCalculee'
    BY <2>1, <2>3 DEF SuiteCalculee, Sous
  <2> QED BY <2>2, <2>4, <2>5, <2>6, HistoireInchangee DEF InvVersions
<1>5. ASSUME NEW c \in Commandes, Calculer(c) PROVE InvVersions'
  <2> DEFINE t == tx[c]
             s == MaterialiserFins(Lue(t), t.jour)
             w == {t.jour} \cup {d \in Jours : s[d] # Lue(t)[d]}
  <2>1. t \in TxTypes /\ t.pc = "calcul" /\ t.valeur # Absente
    BY <1>0, <1>5 DEF Calculer, Entamees, Sous
  <2>2. /\ Lue(t) \in Suites /\ Lue(t)[t.jour] # Absente /\ Lue(t)[t.jour].valeur = t.valeur
        /\ \A d \in Jours \ {t.jour} : Lue(t)[d] = versions[d]
        /\ t.jour \in Jours
    BY <1>0, <2>1, LueTypes DEF TxTypes
  <2>3. /\ s \in Suites /\ Presentes(s) = Presentes(Lue(t)) /\ Contigue(s)
        /\ \A e \in Presentes(Lue(t)) : s[e].valeur = Lue(t)[e].valeur
    BY <2>2, MaterialiserRangeTout
  <2>4. tx' = [tx EXCEPT ![c] = [t EXCEPT !.pc = "validation", !.suite = s, !.ecrits = w]]
    BY <1>5 DEF Calculer, Lue
  <2>5. UNCHANGED <<vivant, courante, versions, journal, jourLigne, verrou>>
    BY <1>5 DEF Calculer, foyerVars
  <2> HIDE DEF s, w
  <2>6. /\ \A d \in Commandes \ {c} : tx'[d] = tx[d]
        /\ tx'[c].pc = "validation" /\ tx'[c].jour = t.jour /\ tx'[c].avant = t.avant
        /\ tx'[c].valeur = t.valeur /\ tx'[c].suite = s /\ tx'[c].ecrits = w
    BY <1>0, <2>1, <2>4 DEF TxTypes
  <2>7. \A d \in Commandes \ {c} : tx[d].pc \notin Sous
    BY <1>0, <2>1 DEF VerrouTenu, Sous
  <2>8. VerrouTenu'
    BY <1>0, <2>1, <2>5, <2>6, <2>7 DEF VerrouTenu, Sous
  <2>9. AvantLu'
    BY <1>0, <2>1, <2>5, <2>6, <2>7 DEF AvantLu, Sous
  <2>10. SuiteCalculee'
    <3>1. s[t.jour].valeur = t.valeur /\ t.jour \in w
      BY <2>2, <2>3 DEF Presentes, w
    <3>2. ASSUME NEW d \in Jours \ {t.jour}
          PROVE  /\ s[d] = Absente <=> versions[d] = Absente
                 /\ versions[d] # Absente => s[d].valeur = versions[d].valeur
      BY <2>2, <2>3 DEF Presentes
    <3>3. ASSUME NEW d \in Jours \ w PROVE s[d] = versions[d]
      BY <2>2 DEF w
    <3>4. SuiteDe(tx[c])'
      BY <2>3, <2>5, <2>6, <3>1, <3>2, <3>3 DEF SuiteDe, Contigue
    <3> QED BY <2>6, <2>7, <3>4 DEF SuiteCalculee, Sous
  <2> QED BY <2>5, <2>8, <2>9, <2>10, HistoireInchangee DEF InvVersions
<1>6. ASSUME NEW c \in Commandes, Valider(c) PROVE InvVersions'
  <2> DEFINE t == tx[c]
  <2>1. /\ t \in TxTypes /\ t.pc = "validation" /\ SuiteDe(t) /\ t.jour \in Jours
        /\ t.suite \in Suites /\ t.suite[t.jour] # Absente
        /\ t.avant = IF versions[t.jour] = Absente THEN Absente ELSE versions[t.jour].valeur
    BY <1>0, <1>6 DEF Valider, SuiteCalculee, AvantLu, Entamees, TxTypes
  <2>2. versions' = t.suite
    <3>1. versions' = [d \in Jours |-> IF d \in t.ecrits THEN t.suite[d] ELSE versions[d]]
      BY <1>6 DEF Valider
    <3>2. \A d \in Jours : versions'[d] = t.suite[d]
      BY <2>1, <3>1 DEF SuiteDe
    <3>3. t.suite = [d \in Jours |-> t.suite[d]]
      BY <2>1 DEF Suites
    <3> QED BY <3>1, <3>2, <3>3
  <2>3. Contigue(versions)'
    BY <2>1, <2>2 DEF SuiteDe, Contigue
  <2>4. JournalPresent' /\ JournalFidele'
    <3>1. /\ versions'[t.jour] # Absente /\ versions'[t.jour].valeur = t.valeur
          /\ \A d \in Jours \ {t.jour} :
               versions[d] # Absente => versions'[d] # Absente /\ versions'[d].valeur = versions[d].valeur
      BY <2>1, <2>2 DEF SuiteDe
    <3>2. journal' = IF t.avant = Absente THEN journal
                     ELSE Append(journal, [jour |-> t.jour, avant |-> t.avant, apres |-> t.valeur])
      BY <1>6 DEF Valider
    <3>3. JournalPresent /\ JournalFidele
      BY DEF InvVersions
    <3> HIDE DEF t
    <3> QED BY <2>1, <3>1, <3>2, <3>3, JournalSuivi
  <2>5. LigneFidele'
    BY <1>6, <2>2 DEF LigneFidele, Valider, LigneCourante
  <2>6. \A d \in Commandes : tx'[d].pc \notin Sous
    <3>1. \A d \in Commandes \ {c} : tx[d].pc \notin Sous
      BY <1>0, <2>1 DEF VerrouTenu, Sous
    <3> QED BY <1>0, <1>6, <3>1, ReposType DEF Valider, Terminer, Sous
  <2>7. VerrouTenu' /\ AvantLu' /\ SuiteCalculee'
    BY <2>6 DEF VerrouTenu, AvantLu, SuiteCalculee, Sous
  <2> QED BY <2>3, <2>4, <2>5, <2>7 DEF InvVersions
<1>7. ASSUME NEW c \in Commandes, Refuser(c) PROVE InvVersions'
  <2>1. /\ \A d \in Commandes \ {c} : tx'[d] = tx[d]
        /\ tx'[c].pc = "repos" /\ tx[c].pc = "validation"
    BY <1>0, <1>7, ReposType DEF Refuser, Terminer
  <2>2. UNCHANGED <<vivant, courante, versions, journal, jourLigne>>
    BY <1>7 DEF Refuser, foyerVars
  <2>3. \A d \in Commandes : tx'[d].pc \notin Sous
    BY <1>0, <2>1 DEF VerrouTenu, Sous
  <2>4. VerrouTenu' /\ AvantLu' /\ SuiteCalculee'
    BY <2>3 DEF VerrouTenu, AvantLu, SuiteCalculee, Sous
  <2> QED BY <2>2, <2>4, HistoireInchangee DEF InvVersions
<1>8. ASSUME NEW c \in Commandes, Effacer(c) PROVE InvVersions'
  <2>1. /\ \A d \in Commandes \ {c} : tx'[d] = tx[d]
        /\ tx'[c].pc = "repos" /\ verrou = Libre
        /\ vivant' = FALSE /\ versions' = [d \in Jours |-> Absente] /\ journal' = <<>>
    BY <1>0, <1>8, ReposType DEF Effacer, Terminer
  <2>2. \A d \in Commandes : tx'[d].pc \notin Sous
    BY <1>0, <2>1 DEF VerrouTenu, Sous
  <2>3. VerrouTenu' /\ AvantLu' /\ SuiteCalculee'
    BY <2>2 DEF VerrouTenu, AvantLu, SuiteCalculee, Sous
  <2>4. Presentes(versions)' = {}
    BY <2>1 DEF Presentes
  <2>5. DOMAIN journal' = {}
    BY <2>1
  <2> QED BY <2>1, <2>3, <2>4, <2>5
          DEF InvVersions, Contigue, JournalPresent, JournalFidele, LigneFidele
<1>9. ASSUME UNCHANGED <<foyerVars, verrou, tx>> PROVE InvVersions'
  <2>1. VerrouTenu' /\ AvantLu'
    BY <1>0, <1>9 DEF foyerVars, VerrouTenu, AvantLu
  <2>2. SuiteCalculee'
    BY <1>0, <1>9 DEF foyerVars, SuiteCalculee, SuiteDe, Contigue
  <2>3. UNCHANGED <<vivant, courante, versions, journal, jourLigne>>
    BY <1>9 DEF foyerVars
  <2> QED BY <2>1, <2>2, <2>3, HistoireInchangee DEF InvVersions
<1>10. CASE JourSuivant
  BY <1>9, <1>10 DEF JourSuivant, txVars
<1>11. CASE ProjeterBareme
  BY <1>9, <1>11 DEF ProjeterBareme, txVars
<1>12. ASSUME NEW e \in outbox, ProjeterVersion(e) \/ ProjeterEffacement(e) PROVE InvVersions'
  BY <1>9, <1>12 DEF ProjeterVersion, ProjeterEffacement, txVars
<1>13. CASE UNCHANGED vars
  BY <1>9, <1>13 DEF vars, txVars
<1> QED BY <1>1, <1>2, <1>3, <1>4, <1>5, <1>6, <1>7, <1>8, <1>10, <1>11, <1>12, <1>13 DEF Next

LEMMA VersionsTenues == Spec => []InvVersions
<1>1. Init => InvVersions
  BY VersionsInit
<1>2. Types /\ InvVersions /\ [Next]_vars => InvVersions'
  BY VersionsNext
<1> QED BY <1>1, <1>2, TypesTenus, PTL DEF Spec

\* Whatever saves overlap, retroactive ones included, each day from the first
\* version on belongs to exactly one version (materialiserFins, AM-55).
THEOREM TempsPartage == Spec => []PartitionDuTemps
<1>1. InvVersions => PartitionDuTemps
  BY ContigueRangeLeTemps DEF InvVersions, PartitionDuTemps
<1> QED BY <1>1, VersionsTenues, PTL

\* The journal of corrections tells each date's story without a gap: FOR UPDATE
\* keeps what a save has read true until it commits (mettreAJour).
THEOREM JournalSansTrou == Spec => []JournalFidele
<1>1. InvVersions => JournalFidele
  BY DEF InvVersions
<1> QED BY <1>1, VersionsTenues, PTL

\* The row foyer holds the income in force on the day it was last written
\* (rafraichirEtEmettre).
THEOREM LigneDuJour == Spec => []LigneFidele
<1>1. InvVersions => LigneFidele
  BY DEF InvVersions
<1> QED BY <1>1, VersionsTenues, PTL

(***************************************************************************)
(* The mirror.                                                             *)
(***************************************************************************)
LEMMA MiroirInit == Init => InvMiroir
<1> SUFFICES ASSUME Init PROVE InvMiroir
  OBVIOUS
<1> USE ConstantesRessources
<1>0. Types /\ InvVersions
  BY TypesInit, VersionsInit
<1>1. outbox = EvenementsDe(1, versions)
  BY DEF Init, Creer
<1>2. /\ \A e \in outbox : /\ e.type = "version" /\ e.le = 1 /\ e.jour \in Presentes(versions)
                           /\ e.valeur = versions[e.jour].valeur /\ e.fin = versions[e.jour].fin
      /\ \A d \in Presentes(versions) : Evenement(1, d, versions[d]) \in outbox
  BY <1>1 DEF EvenementsDe, Evenement
<1>3. DatesPropres
  BY <1>2, ReposType DEF Init, DatesPropres, EnCours
<1>4. EmisVivant /\ EmisMort
  BY <1>2 DEF Init, EmisVivant, EmisMort, Presentes
<1>5. ToutDit
  <2>1. ToutDitPar(1) /\ 1 \in 1 .. MAX_TX
    BY <1>2 DEF ToutDitPar
  <2> QED BY <2>1 DEF ToutDit
<1>6. MiroirSuit
  BY DEF Init, MiroirSuit, Efface
<1> QED BY <1>3, <1>4, <1>5, <1>6 DEF InvMiroir

\* A step of a request that emits nothing.
LEMMA RienEmis ==
  ASSUME InvMiroir, UNCHANGED <<vivant, versions, outbox, croise, miroirVars>>,
         DatesPropres'
  PROVE  InvMiroir'
<1>1. EmisVivant' /\ EmisMort'
  BY DEF InvMiroir, EmisVivant, EmisMort
<1>2. ToutDit'
  <2>1. \A m : ToutDitPar(m)' <=> ToutDitPar(m)
    BY DEF ToutDitPar, Presentes
  <2> QED BY <2>1 DEF InvMiroir, ToutDit
<1>3. MiroirSuit'
  BY DEF InvMiroir, MiroirSuit, Efface, miroirVars
<1> QED BY <1>1, <1>2, <1>3 DEF InvMiroir

\* A step of a request that keeps its date, or drops it.
LEMMA MemesDates ==
  ASSUME DatesPropres, NEW c \in Commandes, NEW E, outbox' = outbox \cup E,
         debuts' = debuts,
         \A d \in Commandes \ {c} : tx'[d] = tx[d],
         \A e \in E : EnCours(c) /\ e.le = tx[c].debut /\ ~EnCours(c)',
         EnCours(c)' => EnCours(c) /\ tx'[c].debut = tx[c].debut
  PROVE  DatesPropres'
<1>1. ASSUME NEW e \in outbox' PROVE e.le <= debuts
  BY <1>1 DEF DatesPropres
<1>2. ASSUME NEW d \in Commandes, EnCours(d)' PROVE EnCours(d) /\ tx'[d].debut = tx[d].debut
  BY <1>2 DEF EnCours
<1>3. ASSUME NEW d \in Commandes, EnCours(d)', NEW e \in outbox' PROVE e.le # tx'[d].debut
  <2>1. EnCours(d) /\ tx'[d].debut = tx[d].debut
    BY <1>2, <1>3
  <2>2. CASE e \in outbox
    BY <2>1, <2>2 DEF DatesPropres
  <2>3. CASE e \in E
    <3>1. d # c /\ EnCours(c) /\ e.le = tx[c].debut
      BY <1>3, <2>3
    <3> QED BY <2>1, <3>1 DEF DatesPropres
  <2> QED BY <2>2, <2>3
<1>4. ASSUME NEW d \in Commandes, EnCours(d)' PROVE tx'[d].debut \in 1 .. debuts
  BY <1>2, <1>4 DEF DatesPropres
<1>5. ASSUME NEW d \in Commandes, EnCours(d)', NEW f \in Commandes \ {d}, EnCours(f)'
      PROVE  tx'[f].debut # tx'[d].debut
  BY <1>2, <1>5 DEF DatesPropres
<1> QED BY <1>1, <1>3, <1>4, <1>5 DEF DatesPropres

\* A transaction that commits events dated by its beginning.
LEMMA DatesAuCommit ==
  ASSUME Types, DatesPropres, NEW c \in Commandes, EnCours(c),
         tx' = [tx EXCEPT ![c] = Repos], debuts' = debuts,
         NEW E, outbox' = outbox \cup E, \A e \in E : e.le = tx[c].debut
  PROVE  DatesPropres'
<1>1. tx \in [Commandes -> TxTypes]
  BY DEF Types, TypeOK
<1>2. (\A d \in Commandes \ {c} : tx'[d] = tx[d]) /\ ~EnCours(c)'
  BY <1>1, ReposType DEF EnCours
<1> QED BY <1>2, MemesDates

LEMMA MiroirNext == Types /\ InvVersions /\ InvMiroir /\ [Next]_vars => InvMiroir'
<1> SUFFICES ASSUME Types, InvVersions, InvMiroir, [Next]_vars PROVE InvMiroir'
  OBVIOUS
<1> USE ConstantesRessources
<1>0. /\ tx \in [Commandes -> TxTypes] /\ versions \in Suites /\ outbox \subseteq Evenements
      /\ debuts \in Nat /\ traites \subseteq outbox
      /\ DatesPropres /\ EmisVivant /\ EmisMort /\ ToutDit /\ MiroirSuit
  BY DEF Types, TypeOK, InvMiroir
<1>a. \A e \in outbox : /\ e.le \in Nat /\ e.type \in {"version", "effacement"}
                        /\ e.type = "version" => e.jour \in Jours
  BY <1>0 DEF Evenements
<1>1. ASSUME NEW c \in Commandes, Commencer(c) PROVE InvMiroir'
  <2>1. /\ \A d \in Commandes \ {c} : tx'[d] = tx[d]
        /\ debuts' = debuts + 1 /\ tx'[c].debut = debuts' /\ outbox' = outbox
    BY <1>0, <1>1 DEF Commencer, Repos, foyerVars
  <2>2. \A e \in outbox : e.le <= debuts' /\ e.le # debuts'
    BY <1>0, <1>a, <2>1 DEF DatesPropres
  <2>3. \A d \in Commandes \ {c} : EnCours(d)' =>
          EnCours(d) /\ tx[d].debut \in 1 .. debuts' /\ tx[d].debut # debuts'
    BY <1>0, <2>1 DEF DatesPropres, EnCours
  <2>4. \A e \in outbox' : e.le <= debuts'
    BY <2>1, <2>2
  <2>5. ASSUME NEW d \in Commandes, EnCours(d)'
        PROVE  /\ tx'[d].debut \in 1 .. debuts'
               /\ \A e \in outbox' : e.le # tx'[d].debut
               /\ \A f \in Commandes \ {d} : EnCours(f)' => tx'[f].debut # tx'[d].debut
    <3>1. CASE d = c
      BY <1>0, <2>1, <2>2, <2>3, <3>1
    <3>2. CASE d # c
      BY <1>0, <2>1, <2>3, <2>5, <3>2 DEF DatesPropres
    <3> QED BY <3>1, <3>2
  <2>6. DatesPropres'
    BY <2>4, <2>5 DEF DatesPropres
  <2> QED BY <1>1, <2>6, RienEmis DEF Commencer, foyerVars
\* A step of a request that neither commits nor begins.
<1>2. ASSUME NEW c \in Commandes, NEW r \in TxTypes, EnCours(c), tx' = [tx EXCEPT ![c] = r],
             r.pc # "repos" => r.debut = tx[c].debut,
             UNCHANGED <<foyerVars, debuts, miroirVars>>
      PROVE  InvMiroir'
  <2>1. \A d \in Commandes \ {c} : tx'[d] = tx[d]
    BY <1>0, <1>2
  <2>2. EnCours(c)' => EnCours(c) /\ tx'[c].debut = tx[c].debut
    BY <1>0, <1>2 DEF EnCours
  <2>3. DatesPropres'
    <3> DEFINE E == {}
    <3>1. outbox' = outbox \cup E /\ debuts' = debuts /\ \A e \in E : FALSE
      BY <1>2 DEF foyerVars
    <3> HIDE DEF E
    <3> QED BY <1>0, <2>1, <2>2, <3>1, MemesDates
  <2> QED BY <1>2, <2>3, RienEmis DEF foyerVars
<1>3. ASSUME NEW c \in Commandes, Introuvable(c) PROVE InvMiroir'
  BY <1>0, <1>2, <1>3, ReposType DEF Introuvable, EnCours
<1>4. ASSUME NEW c \in Commandes, Verrouiller(c) PROVE InvMiroir'
  <2>1. [tx[c] EXCEPT !.pc = "saisie"] \in TxTypes
        /\ [tx[c] EXCEPT !.pc = "saisie"].debut = tx[c].debut
    BY <1>0 DEF TxTypes
  <2>2. tx' = [tx EXCEPT ![c] = [tx[c] EXCEPT !.pc = "saisie"]]
    BY <1>4 DEF Verrouiller
  <2> QED BY <1>2, <1>4, <2>1, <2>2 DEF Verrouiller, EnCours
<1>5. ASSUME NEW c \in Commandes, Saisir(c) \/ Calculer(c) PROVE InvMiroir'
  <2>1. /\ tx' = [tx EXCEPT ![c] = tx'[c]] /\ tx'[c] \in TxTypes /\ tx'[c].debut = tx[c].debut
    <3>1. tx' \in [Commandes -> TxTypes]
      BY TypesNext DEF Types, TypeOK
    <3>2. \A d \in Commandes \ {c} : tx'[d] = tx[d]
      BY <1>0, <1>5 DEF Saisir, Calculer
    <3>3. tx' = [tx EXCEPT ![c] = tx'[c]]
      BY <1>0, <3>1, <3>2
    <3>4. tx'[c].debut = tx[c].debut
      BY <1>0, <1>5 DEF Saisir, Calculer, TxTypes
    <3> QED BY <3>1, <3>3, <3>4
  <2>2. EnCours(c) /\ UNCHANGED <<foyerVars, debuts, miroirVars>>
    BY <1>5 DEF Saisir, Calculer, EnCours
  <2> QED BY <1>2, <2>1, <2>2
<1>6. ASSUME NEW c \in Commandes, Refuser(c) PROVE InvMiroir'
  BY <1>0, <1>2, <1>6, ReposType DEF Refuser, Terminer, EnCours
<1>7. ASSUME NEW c \in Commandes, Valider(c) PROVE InvMiroir'
  <2> DEFINE t == tx[c]
  <2>0. PICK m : m = t.debut
    OBVIOUS
  <2>1. /\ t \in TxTypes /\ EnCours(c) /\ SuiteDe(t) /\ vivant /\ t.suite \in Suites
        /\ t.suite[t.jour] # Absente /\ t.jour \in Jours
    BY <1>0, <1>7 DEF Valider, EnCours, InvVersions, VerrouTenu, SuiteCalculee, Sous, TxTypes,
                      Types, Entamees
  <2>2. versions' = t.suite
    <3>1. versions' = [d \in Jours |-> IF d \in t.ecrits THEN t.suite[d] ELSE versions[d]]
      BY <1>7 DEF Valider
    <3>2. \A d \in Jours : versions'[d] = t.suite[d]
      BY <2>1, <3>1 DEF SuiteDe
    <3>3. t.suite = [d \in Jours |-> t.suite[d]]
      BY <2>1 DEF Suites
    <3> QED BY <3>1, <3>2, <3>3
  <2>3. \A d \in Jours : versions[d] # Absente => versions'[d] # Absente
    BY <2>1, <2>2 DEF SuiteDe
  <2>4. /\ outbox' = outbox \cup EvenementsDe(m, versions')
        /\ croise' = (croise \/ \E e \in outbox : e.le > m)
        /\ tx' = [tx EXCEPT ![c] = Repos]
        /\ UNCHANGED <<vivant, debuts, miroirVars>>
    BY <1>7, <2>0, <2>2 DEF Valider, Emettre, Terminer
  <2> HIDE DEF t
  <2>5. \A e \in EvenementsDe(m, versions') :
          /\ e.type = "version" /\ e.le = m /\ e.jour \in Presentes(versions')
          /\ e.valeur = versions'[e.jour].valeur /\ e.fin = versions'[e.jour].fin
    BY DEF EvenementsDe
  <2>6. \A d \in Presentes(versions') : Evenement(m, d, versions'[d]) \in EvenementsDe(m, versions')
    BY DEF EvenementsDe, Evenement
  <2>7. DatesPropres'
    <3>1. \A e \in EvenementsDe(m, versions') : e.le = tx[c].debut
      BY <2>0, <2>5 DEF t
    <3> QED BY <1>0, <2>1, <2>4, <3>1, DatesAuCommit
  <2>8. EmisVivant' /\ EmisMort'
    <3>1. \A e \in outbox' : e.type = "version" /\ versions'[e.jour] # Absente
      BY <1>0, <1>a, <2>1, <2>3, <2>4, <2>5 DEF EmisVivant, Presentes
    <3> QED BY <2>1, <2>4, <3>1 DEF EmisVivant, EmisMort
  <2>9. ToutDit'
    <3>1. SUFFICES ASSUME ~croise' PROVE \E n \in 1 .. MAX_TX : ToutDitPar(n)'
      BY DEF ToutDit
    <3>2. m \in 1 .. MAX_TX
      BY <1>0, <2>0, <2>1 DEF DatesPropres, Types, TypeOK, t
    <3>3. \A e \in outbox : e.le < m
      <4>1. \A e \in outbox : ~(e.le > m) /\ e.le # m
        BY <1>0, <2>0, <2>1, <2>4, <3>1 DEF DatesPropres, t
      <4>2. m \in Nat
        BY <3>2
      <4> QED BY <1>a, <4>1, <4>2
    <3>4. \A e \in outbox' : e.le <= m
      BY <1>a, <2>4, <2>5, <3>2, <3>3
    <3>5. \A e \in outbox' : e.le = m => e.valeur = versions'[e.jour].valeur /\ e.fin = versions'[e.jour].fin
      BY <1>a, <2>4, <2>5, <3>2, <3>3
    <3>6. \A d \in Presentes(versions)' : Evenement(m, d, versions[d])' \in outbox'
      BY <2>4, <2>6 DEF Presentes, Evenement
    <3> QED BY <3>2, <3>4, <3>5, <3>6 DEF ToutDitPar
  <2>10. MiroirSuit'
    BY <1>0, <2>4 DEF MiroirSuit, Efface, miroirVars
  <2> QED BY <2>7, <2>8, <2>9, <2>10 DEF InvMiroir
<1>8. ASSUME NEW c \in Commandes, Effacer(c) PROVE InvMiroir'
  <2> DEFINE f == [type |-> "effacement", le |-> tx[c].debut]
  <2>1. /\ outbox' = outbox \cup {f} /\ tx' = [tx EXCEPT ![c] = Repos]
        /\ vivant' = FALSE /\ versions' = [d \in Jours |-> Absente]
        /\ EnCours(c) /\ UNCHANGED <<debuts, miroirVars>>
    BY <1>8 DEF Effacer, Terminer, EnCours
  <2>2. f.type = "effacement" /\ f.le = tx[c].debut
    OBVIOUS
  <2> HIDE DEF f
  <2>3. DatesPropres'
    <3> DEFINE E == {f}
    <3>1. (\A e \in E : e.le = tx[c].debut) /\ outbox' = outbox \cup E
      BY <2>1, <2>2
    <3> HIDE DEF E
    <3> QED BY <1>0, <2>1, <3>1, DatesAuCommit
  <2>4. EmisVivant' /\ EmisMort' /\ ToutDit'
    BY <2>1, <2>2 DEF EmisVivant, EmisMort, ToutDit
  <2>5. MiroirSuit'
    BY <1>0, <2>1 DEF MiroirSuit, Efface, miroirVars
  <2> QED BY <2>3, <2>4, <2>5 DEF InvMiroir
<1>9. ASSUME UNCHANGED <<foyerVars, txVars, miroirVars>> PROVE InvMiroir'
  <2>1. DatesPropres'
    BY <1>0, <1>9 DEF DatesPropres, EnCours, foyerVars, txVars
  <2> QED BY <1>9, <2>1, RienEmis DEF foyerVars
<1>10. CASE JourSuivant
  BY <1>9, <1>10 DEF JourSuivant
<1>11. CASE ProjeterBareme
  BY <1>9, <1>11 DEF ProjeterBareme
<1>12. ASSUME UNCHANGED <<foyerVars, txVars>>, MiroirSuit' PROVE InvMiroir'
  <2>1. DatesPropres'
    BY <1>0, <1>12 DEF DatesPropres, EnCours, foyerVars, txVars
  <2>2. EmisVivant' /\ EmisMort'
    BY <1>0, <1>12 DEF EmisVivant, EmisMort, foyerVars
  <2>3. ToutDit'
    <3>1. \A m : ToutDitPar(m)' <=> ToutDitPar(m)
      BY <1>12 DEF ToutDitPar, Presentes, foyerVars
    <3> QED BY <1>0, <1>12, <3>1 DEF ToutDit, foyerVars
  <2> QED BY <1>12, <2>1, <2>2, <2>3 DEF InvMiroir
<1>13. ASSUME NEW e \in outbox, ProjeterVersion(e) PROVE InvMiroir'
  <2> DEFINE v == [valeur |-> e.valeur, fin |-> e.fin, le |-> e.le]
  <2>1. /\ e.type = "version" /\ e.jour \in Jours /\ e.le \in Nat
        /\ traites' = traites \cup {e}
        /\ miroir' = IF Recente(e) THEN [miroir EXCEPT ![e.jour] = v] ELSE miroir
        /\ depasse' = (depasse \/ Efface)
        /\ miroir \in [Jours -> Projetees \cup {Absente}]
    BY <1>0, <1>a, <1>13 DEF ProjeterVersion, Efface, Types, TypeOK
  <2>2. v # Absente /\ v.le = e.le /\ Evenement(e.le, e.jour, v) = e
    <3>1. e \in [type : {"version"}, le : 1 .. MAX_TX, jour : Jours, valeur : Valeurs, fin : Fins]
      BY <1>0, <2>1 DEF Evenements
    <3>2. Evenement(e.le, e.jour, v) = e
      BY <3>1 DEF Evenement
    <3>3. v \in Projetees
      BY <3>1 DEF Projetees
    <3> QED BY <3>2, <3>3, <2>1
  <2> HIDE DEF v
  <2>3. Efface' <=> Efface
    BY <2>1 DEF Efface
  <2>4. ASSUME NEW d \in Jours, miroir'[d] # Absente
        PROVE  Evenement(miroir'[d].le, d, miroir'[d]) \in traites'
    BY <1>0, <2>1, <2>2, <2>4 DEF MiroirSuit
  <2>5. ASSUME ~Efface', NEW f \in traites'
        PROVE  miroir'[f.jour] # Absente /\ miroir'[f.jour].le >= f.le
    <3>1. f.type = "version" /\ f.jour \in Jours /\ f.le \in Nat
      BY <1>0, <1>a, <2>1, <2>5 DEF Efface
    <3>2. CASE f \in traites
      <4>1. miroir[f.jour] # Absente /\ miroir[f.jour].le >= f.le
        BY <1>0, <2>3, <2>5, <3>2 DEF MiroirSuit
      <4>2. miroir[f.jour].le \in Nat
        BY <2>1, <3>1, <4>1 DEF Projetees
      <4> QED BY <2>1, <2>2, <3>1, <4>1, <4>2 DEF Recente
    <3>3. CASE f = e
      <4>1. CASE Recente(e)
        BY <2>1, <2>2, <3>3, <4>1
      <4>2. CASE ~Recente(e)
        <5>1. miroir[e.jour] # Absente /\ ~(miroir[e.jour].le <= e.le)
          BY <4>2 DEF Recente
        <5>2. miroir[e.jour].le \in Nat
          BY <2>1, <5>1 DEF Projetees
        <5> QED BY <2>1, <3>3, <4>2, <5>1, <5>2
      <4> QED BY <4>1, <4>2
    <3> QED BY <2>1, <2>5, <3>2, <3>3
  <2>6. MiroirSuit'
    BY <2>1, <2>3, <2>4, <2>5 DEF MiroirSuit
  <2> QED BY <1>12, <1>13, <2>6 DEF ProjeterVersion
<1>14. ASSUME NEW e \in outbox, ProjeterEffacement(e) PROVE InvMiroir'
  <2>1. Efface' /\ \A d \in Jours : miroir'[d] = Absente
    BY <1>14 DEF ProjeterEffacement, Efface
  <2>2. MiroirSuit'
    BY <2>1 DEF MiroirSuit
  <2> QED BY <1>12, <1>14, <2>2 DEF ProjeterEffacement
<1>15. CASE UNCHANGED vars
  BY <1>9, <1>15 DEF vars
<1> QED BY <1>1, <1>3, <1>4, <1>5, <1>6, <1>7, <1>8, <1>10, <1>11, <1>13, <1>14, <1>15 DEF Next

LEMMA MiroirTenu == Spec => []InvMiroir
<1>1. Init => InvMiroir
  BY MiroirInit
<1>2. Types /\ InvVersions /\ InvMiroir /\ [Next]_vars => InvMiroir'
  BY MiroirNext
<1> QED BY <1>1, <1>2, TypesTenus, VersionsTenues, PTL DEF Spec

LEMMA ToutProjeteToutDit ==
  ASSUME Types, InvMiroir
  PROVE  MiroirFidele
<1>0. /\ traites \subseteq outbox /\ outbox \subseteq Evenements
      /\ miroir \in [Jours -> Projetees \cup {Absente}]
      /\ EmisVivant /\ EmisMort /\ ToutDit /\ MiroirSuit
  BY DEF Types, TypeOK, InvMiroir
<1>1. ASSUME ~croise, vivant, traites = outbox PROVE MemeContenu
  <2>1. PICK m \in 1 .. MAX_TX : ToutDitPar(m)
    BY <1>0, <1>1 DEF ToutDit
  <2>2. ~Efface
    BY <1>0, <1>1 DEF EmisVivant, Efface
  <2>3. ASSUME NEW d \in Jours, miroir[d] # Absente
        PROVE  /\ Evenement(miroir[d].le, d, miroir[d]) \in outbox
               /\ miroir[d].le \in Nat /\ miroir[d].le <= m /\ versions[d] # Absente
               /\ miroir[d].le = m => /\ miroir[d].valeur = versions[d].valeur
                                      /\ miroir[d].fin = versions[d].fin
    <3> DEFINE e == Evenement(miroir[d].le, d, miroir[d])
    <3>1. e \in outbox
      BY <1>0, <1>1, <2>3 DEF MiroirSuit
    <3>2. e.le = miroir[d].le /\ e.jour = d /\ e.valeur = miroir[d].valeur /\ e.fin = miroir[d].fin
      BY DEF Evenement
    <3>3. miroir[d].le \in Nat
      BY <1>0, <2>3 DEF Projetees
    <3> HIDE DEF e
    <3>4. e.le <= m /\ (e.le = m => e.valeur = versions[e.jour].valeur /\ e.fin = versions[e.jour].fin)
      BY <2>1, <3>1 DEF ToutDitPar
    <3>5. versions[e.jour] # Absente
      BY <1>0, <1>1, <3>1 DEF EmisVivant
    <3> QED BY <3>1, <3>2, <3>3, <3>4, <3>5 DEF e
  <2>4. ASSUME NEW d \in Jours, versions[d] # Absente
        PROVE  miroir[d] # Absente /\ miroir[d].le >= m
    <3> DEFINE e == Evenement(m, d, versions[d])
    <3>1. e \in outbox
      BY <2>1, <2>4 DEF ToutDitPar, Presentes
    <3>2. e.le = m /\ e.jour = d
      BY DEF Evenement
    <3> HIDE DEF e
    <3> QED BY <1>0, <1>1, <2>2, <3>1, <3>2 DEF MiroirSuit
  <2>5. ASSUME NEW d \in Jours, versions[d] # Absente
        PROVE  /\ miroir[d] # Absente
               /\ miroir[d].valeur = versions[d].valeur /\ miroir[d].fin = versions[d].fin
    <3>1. miroir[d] # Absente /\ miroir[d].le >= m
      BY <2>4, <2>5
    <3>2. miroir[d].le \in Nat /\ miroir[d].le <= m
      BY <2>3, <3>1
    <3>3. miroir[d].le = m
      BY <2>1, <3>1, <3>2
    <3> QED BY <2>3, <3>1, <3>3
  <2> QED BY <2>3, <2>5 DEF MemeContenu
<1>2. ASSUME ~vivant, traites = outbox, ~depasse PROVE MemeContenu
  BY <1>0, <1>2 DEF EmisMort, MiroirSuit, Efface, MemeContenu
<1> QED BY <1>1, <1>2 DEF MiroirFidele, MiroirComplet

\* "Re-emettre tout garantit a tarification un miroir complet des versions":
\* unless transactions crossed or a version outlived the erasure, the mirror
\* of svc-tarification is the history once every event is applied, whatever
\* the order of delivery (rafraichirEtEmettre, appliquerFoyerVersion).
THEOREM MiroirEstLHistoire == Spec => []MiroirFidele
<1>1. Types /\ InvMiroir => MiroirFidele
  BY ToutProjeteToutDit
<1> QED BY <1>1, TypesTenus, MiroirTenu, PTL

=============================================================================
