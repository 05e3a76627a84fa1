------------------------- MODULE OutboxRelay_proofs -------------------------
(***************************************************************************)
(* Proofs about OutboxRelay, for any rows, transactions and households,    *)
(* any page size and number of pages, and every fault of the environment.  *)
(***************************************************************************)
EXTENDS OutboxRelay, FiniteSetTheorems, SequenceTheorems, TLAPS

(***************************************************************************)
(* Why a published row is stored: the row the relay is about to stamp is   *)
(* the head of its page and is in the stream, and what the deduplication   *)
(* window remembers is there too.  Why the stream has no phantom: a page   *)
(* holds committed rows only, and a commit is final.                       *)
(***************************************************************************)
LotCommis     == \A i \in DOMAIN lot : Valide(lot[i])
FenetreStocke == fenetre \subseteq DansFlux
EnMarquage    == etape = "marquage" => lot # <<>> /\ Head(lot) \in DansFlux

Inv ==
  /\ TypeOK
  /\ LotCommis
  /\ FenetreStocke
  /\ EnMarquage
  /\ MarqueApresStockage
  /\ PasDeFantome

\* What a sequence over S holds is in S.
LEMMA ElementsDeSuite ==
  ASSUME NEW S, NEW s \in Seq(S)
  PROVE  \A i \in DOMAIN s : s[i] \in S
  OBVIOUS

\* The empty page.
LEMMA SuiteVide == ASSUME NEW S PROVE <<>> \in Seq(S) /\ DOMAIN <<>> = {}
  OBVIOUS

\* The head and the tail of a page that is not empty.
LEMMA TeteEtQueue ==
  ASSUME NEW S, NEW s \in Seq(S), s # <<>>
  PROVE  /\ Head(s) \in S
         /\ Head(s) = s[1] /\ 1 \in DOMAIN s
         /\ Tail(s) \in Seq(S)
         /\ \A i \in DOMAIN Tail(s) : i + 1 \in DOMAIN s /\ Tail(s)[i] = s[i + 1]
  OBVIOUS

\* A page read by the SELECT holds unpublished committed rows.
LEMMA PageDeNonPublies ==
  ASSUME TypeOK, NEW s \in Tris(NonPublies)
  PROVE  PageDe(s) \in Seq(NonPublies)
<1> DEFINE n == Cardinality(NonPublies)
           m == page * TAILLE_LOT + 1
           d == (page + 1) * TAILLE_LOT
           k == IF d < Len(s) THEN d ELSE Len(s)
<1>1. n \in Nat
  <2>1. IsFiniteSet(NonPublies)
    BY FS_Subset, ConstantesOutbox DEF NonPublies
  <2> QED BY <2>1, FS_CardinalityType
<1>2. s \in Seq(NonPublies) /\ Len(s) = n
  <2>1. s \in [1 .. n -> NonPublies]
    BY DEF Tris
  <2> QED BY <1>1, <2>1
<1>3. m \in Int /\ m >= 1 /\ d \in Int
  <2>1. page \in Nat /\ TAILLE_LOT \in Nat
    BY ConstantesOutbox DEF TypeOK
  <2>2. page * TAILLE_LOT \in Nat /\ (page + 1) * TAILLE_LOT \in Nat
    BY <2>1
  <2> QED BY <2>2
<1>4. k \in Int /\ k <= Len(s)
  BY <1>2, <1>3
<1>5. \A i \in m .. k : s[i] \in NonPublies
  <2> HIDE DEF m, k
  <2>1. \A i \in m .. k : i \in 1 .. Len(s)
    BY <1>2, <1>3, <1>4
  <2> QED BY <1>2, <2>1
<1>6. SubSeq(s, m, k) \in Seq(NonPublies)
  <2> HIDE DEF m, k
  <2> QED BY <1>3, <1>4, <1>5, SubSeqProperties
<1> QED BY <1>6 DEF PageDe

\* The relay starts in Inv.
LEMMA InvInit == Init => Inv
<1> SUFFICES ASSUME Init PROVE Inv
  OBVIOUS
<1>1. TypeOK
  <2>1. flux \in Seq(Evenements) /\ lot \in Seq(Evenements)
    BY SuiteVide DEF Init
  <2>2. /\ txEtat \in [Transactions -> Etats]
        /\ debut \in [Transactions -> Nat]
        /\ fin \in [Transactions -> Nat]
    BY DEF Init, Etats
  <2> QED BY <2>1, <2>2 DEF Init, TypeOK, Etapes
<1>2. flux = <<>> /\ lot = <<>> /\ publies = {} /\ fenetre = {} /\ etape = "repos"
  BY DEF Init
<1>3. DOMAIN flux = {} /\ DOMAIN lot = {}
  BY <1>2, SuiteVide
<1>4. DansFlux = {}
  BY <1>3 DEF DansFlux
<1> QED BY <1>1, <1>2, <1>3, <1>4
        DEF Inv, LotCommis, FenetreStocke, EnMarquage, MarqueApresStockage, PasDeFantome

\* A step that touches neither the stream nor the stamps, and takes back no
\* commit, keeps what relates the two.
LEMMA FluxInchange ==
  ASSUME Inv, UNCHANGED <<publies, flux, fenetre>>,
         \A e \in Evenements : Valide(e) => Valide(e)'
  PROVE  FenetreStocke' /\ MarqueApresStockage' /\ PasDeFantome'
<1>1. DansFlux' = DansFlux
  BY DEF DansFlux
<1>2. DansFlux \subseteq Evenements
  BY ElementsDeSuite DEF Inv, TypeOK, DansFlux
<1> QED BY <1>1, <1>2 DEF Inv, FenetreStocke, MarqueApresStockage, PasDeFantome

\* The broker's side of a publication: the stream only grows, and the row is
\* in it afterwards, whether stored now or recognised as a duplicate.
LEMMA StockerAjoute ==
  ASSUME Inv, NEW e \in Evenements, Valide(e), Stocker(e), UNCHANGED <<txEtat, publies>>
  PROVE  /\ flux' \in Seq(Evenements) /\ fenetre' \subseteq Evenements
         /\ e \in DansFlux'
         /\ FenetreStocke' /\ MarqueApresStockage' /\ PasDeFantome'
<1>1. flux \in Seq(Evenements) /\ fenetre \subseteq Evenements
  BY DEF Inv, TypeOK
<1>2. flux' \in Seq(Evenements) /\ fenetre' = fenetre \cup {e}
  BY <1>1 DEF Stocker
<1>3. DansFlux' = DansFlux \cup {e}
  <2>1. CASE e \in fenetre
    <3>1. flux' = flux /\ e \in DansFlux
      BY <2>1 DEF Stocker, Inv, FenetreStocke
    <3> QED BY <3>1 DEF DansFlux
  <2>2. CASE e \notin fenetre
    <3>1. flux' = Append(flux, e)
      BY <2>2 DEF Stocker
    <3>2. \A i \in DOMAIN flux : i \in DOMAIN flux' /\ flux'[i] = flux[i]
      BY <1>1, <3>1
    <3>3. Len(flux) + 1 \in DOMAIN flux' /\ flux'[Len(flux) + 1] = e
      BY <1>1, <3>1
    <3>4. \A i \in DOMAIN flux' : i \in DOMAIN flux \/ i = Len(flux) + 1
      BY <1>1, <3>1
    <3> QED BY <3>2, <3>3, <3>4 DEF DansFlux
  <2> QED BY <2>1, <2>2
<1>4. \A f \in Evenements : Valide(f)' <=> Valide(f)
  BY DEF Valide
<1>5. DansFlux \subseteq Evenements
  BY <1>1, ElementsDeSuite DEF DansFlux
<1> QED BY <1>1, <1>2, <1>3, <1>4, <1>5
        DEF Inv, FenetreStocke, MarqueApresStockage, PasDeFantome

\* The relay goes on to the next row of its page.
LEMMA LotSuivant ==
  ASSUME Inv, lot # <<>>, lot' = Tail(lot), UNCHANGED txEtat
  PROVE  lot' \in Seq(Evenements) /\ LotCommis'
<1>1. lot \in Seq(Evenements)
  BY DEF Inv, TypeOK
<1>2. /\ Tail(lot) \in Seq(Evenements)
      /\ \A i \in DOMAIN Tail(lot) : i + 1 \in DOMAIN lot /\ Tail(lot)[i] = lot[i + 1]
  BY <1>1, TeteEtQueue
<1> QED BY <1>2 DEF Inv, LotCommis, Valide

\* The row in hand is a committed one.
LEMMA TeteCommise ==
  ASSUME Inv, lot # <<>>
  PROVE  Head(lot) \in Evenements /\ Valide(Head(lot))
<1>1. lot \in Seq(Evenements)
  BY DEF Inv, TypeOK
<1> QED BY <1>1, TeteEtQueue DEF Inv, LotCommis

\* The households that wait are households.
LEMMA AttenteTypee ==
  ASSUME Inv, NEW e \in Evenements, lot # <<>>, Retenir(e), UNCHANGED txEtat
  PROVE  /\ attente' \subseteq Foyers
         /\ lot' \in Seq(Evenements) /\ LotCommis'
         /\ etape' = "publication"
         /\ UNCHANGED <<page, pleine, publiees>>
  BY LotSuivant, ConstantesOutbox DEF Retenir, Inv, TypeOK

\* The end of a cycle forgets the page.
LEMMA CycleFini ==
  ASSUME Inv, FinDeCycle, UNCHANGED <<txVars, publies, fluxVars, connecte>>
  PROVE  Inv'
<1>1. TypeOK'
  <2>1. lot' \in Seq(Evenements) /\ page' \in Nat /\ etape' \in Etapes
        /\ pleine' \in BOOLEAN /\ publiees' \in BOOLEAN /\ attente' \subseteq Foyers
    BY SuiteVide DEF FinDeCycle, Etapes
  <2>2. UNCHANGED <<txEtat, debut, fin, heure, decale, publies, flux, fenetre, connecte>>
    BY DEF txVars, fluxVars
  <2> QED BY <2>1, <2>2 DEF Inv, TypeOK
<1>2. LotCommis' /\ EnMarquage'
  <2>1. DOMAIN lot' = {} /\ etape' = "repos"
    BY SuiteVide DEF FinDeCycle
  <2> QED BY <2>1 DEF LotCommis, EnMarquage
<1>3. FenetreStocke' /\ MarqueApresStockage' /\ PasDeFantome'
  BY FluxInchange DEF txVars, fluxVars, Valide
<1> QED BY <1>1, <1>2, <1>3 DEF Inv

\* Every step preserves Inv.
LEMMA InvNext == Inv /\ [Next]_vars => Inv'
<1> SUFFICES ASSUME Inv, [Next]_vars PROVE Inv'
  OBVIOUS
<1> USE ConstantesOutbox
<1>1. CASE UNCHANGED vars
  BY <1>1 DEF vars, txVars, relaisVars, fluxVars, Inv, TypeOK, LotCommis, FenetreStocke,
              EnMarquage, MarqueApresStockage, PasDeFantome, DansFlux, Valide
<1>2. CASE Commandes
  <2>1. PICK t \in Transactions : Commencer(t) \/ Valider(t) \/ Annuler(t)
    BY <1>2 DEF Commandes
  <2>2. UNCHANGED <<publies, flux, fenetre, connecte, etape, page, lot, pleine, publiees, attente>>
    BY <2>1 DEF Commencer, Valider, Annuler, fluxVars, relaisVars
  <2>3. /\ txEtat' \in [Transactions -> Etats]
        /\ debut' \in [Transactions -> Nat]
        /\ fin' \in [Transactions -> Nat]
        /\ heure' \in Nat
    <3>1. CASE Commencer(t)
      BY <3>1 DEF Commencer, Inv, TypeOK, Etats
    <3>2. CASE Valider(t)
      BY <3>2 DEF Valider, Inv, TypeOK, Etats
    <3>3. CASE Annuler(t)
      BY <3>3 DEF Annuler, Inv, TypeOK, Etats
    <3> QED BY <2>1, <3>1, <3>2, <3>3
  <2>8. decale' \in BOOLEAN
    BY <2>1 DEF Commencer, Valider, Annuler, Inv, TypeOK
  <2>4. \A e \in Evenements : Valide(e) => Valide(e)'
    BY <2>1 DEF Commencer, Valider, Annuler, Valide, Inv, TypeOK
  <2>5. TypeOK'
    BY <2>2, <2>3, <2>8 DEF Inv, TypeOK
  <2>6. LotCommis'
    <3>1. \A i \in DOMAIN lot : lot[i] \in Evenements
      BY ElementsDeSuite DEF Inv, TypeOK
    <3> QED BY <2>2, <2>4, <3>1 DEF Inv, LotCommis
  <2>7. EnMarquage'
    BY <2>2 DEF Inv, EnMarquage, DansFlux
  <2> QED BY <2>2, <2>4, <2>5, <2>6, <2>7, FluxInchange DEF Inv
<1>3. CASE DemarrerCycle
  <2>1. UNCHANGED <<txEtat, debut, fin, heure, decale, publies, flux, fenetre, connecte, page, lot,
                    pleine, publiees, attente>> /\ etape' = "lecture"
    BY <1>3 DEF DemarrerCycle, txVars, fluxVars
  <2>2. TypeOK' /\ LotCommis' /\ EnMarquage'
    BY <2>1 DEF Inv, TypeOK, Etapes, LotCommis, Valide, EnMarquage
  <2> QED BY <2>1, <2>2, FluxInchange DEF Inv, Valide
<1>4. CASE LirePage
  <2>1. PICK s \in Tris(NonPublies) :
          \/ FinDeCycle
          \/ /\ lot' = PageDe(s) /\ etape' = "publication"
             /\ pleine' = (Len(PageDe(s)) = TAILLE_LOT) /\ publiees' = FALSE
             /\ UNCHANGED <<page, attente>>
    BY <1>4 DEF LirePage
  <2>2. UNCHANGED <<txEtat, debut, fin, heure, decale, publies, flux, fenetre, connecte>>
    BY <1>4 DEF LirePage, txVars, fluxVars
  <2>3. CASE FinDeCycle
    BY <1>4, <2>3, CycleFini DEF LirePage
  <2>4. CASE /\ lot' = PageDe(s) /\ etape' = "publication"
             /\ pleine' = (Len(PageDe(s)) = TAILLE_LOT) /\ publiees' = FALSE
             /\ UNCHANGED <<page, attente>>
    <3>1. lot' \in Seq(NonPublies)
      BY <2>4, PageDeNonPublies DEF Inv
    <3>2. \A i \in DOMAIN lot' : lot'[i] \in NonPublies
      BY <3>1, ElementsDeSuite
    <3>3. lot' \in Seq(Evenements)
      BY <3>1 DEF NonPublies
    <3>4. TypeOK'
      BY <2>2, <2>4, <3>3 DEF Inv, TypeOK, Etapes
    <3>5. LotCommis' /\ EnMarquage'
      BY <2>2, <2>4, <3>2 DEF LotCommis, EnMarquage, NonPublies, Valide
    <3> QED BY <2>2, <3>4, <3>5, FluxInchange DEF Inv, Valide
  <2> QED BY <2>1, <2>3, <2>4
<1>5. CASE LireEchec
  BY <1>5, CycleFini DEF LireEchec
<1>6. CASE Differer
  <2>1. /\ etape = "publication" /\ lot # <<>> /\ lot' = Tail(lot)
        /\ UNCHANGED <<txEtat, debut, fin, heure, decale, publies, flux, fenetre, connecte, etape, page,
                       pleine, publiees, attente>>
    BY <1>6 DEF Differer, txVars, fluxVars
  <2>2. TypeOK' /\ LotCommis' /\ EnMarquage'
    BY <2>1, LotSuivant DEF Inv, TypeOK, EnMarquage
  <2> QED BY <2>1, <2>2, FluxInchange DEF Inv, Valide
<1>7. ASSUME NEW e \in Evenements, Publier(e) PROVE Inv'
  <2>1. /\ lot # <<>> /\ e = Head(lot) /\ Stocker(e) /\ etape' = "marquage"
        /\ UNCHANGED <<txEtat, debut, fin, heure, decale, publies, connecte, page, lot, pleine,
                       publiees, attente>>
    BY <1>7 DEF Publier, EnPublication, txVars
  <2>2. /\ flux' \in Seq(Evenements) /\ fenetre' \subseteq Evenements
        /\ e \in DansFlux'
        /\ FenetreStocke' /\ MarqueApresStockage' /\ PasDeFantome'
    BY <2>1, TeteCommise, StockerAjoute
  <2>3. TypeOK' /\ LotCommis' /\ EnMarquage'
    BY <2>1, <2>2 DEF Inv, TypeOK, Etapes, LotCommis, Valide, EnMarquage
  <2> QED BY <2>2, <2>3 DEF Inv
<1>8. ASSUME NEW e \in Evenements, PublierEchec(e) \/ MarquerEchec(e) PROVE Inv'
  <2>1. /\ lot # <<>> /\ Retenir(e)
        /\ UNCHANGED <<txEtat, debut, fin, heure, decale, publies, flux, fenetre, connecte>>
    BY <1>8 DEF PublierEchec, MarquerEchec, EnPublication, txVars, fluxVars, Inv, EnMarquage
  <2>2. TypeOK' /\ LotCommis' /\ EnMarquage'
    BY <2>1, AttenteTypee DEF Inv, TypeOK, Etapes, EnMarquage
  <2> QED BY <2>1, <2>2, FluxInchange DEF Inv, Valide
<1>9. ASSUME NEW e \in Evenements, PublierSansReponse(e) PROVE Inv'
  <2>1. /\ lot # <<>> /\ e = Head(lot) /\ Stocker(e) /\ Retenir(e)
        /\ UNCHANGED <<txEtat, debut, fin, heure, decale, publies, connecte>>
    BY <1>9 DEF PublierSansReponse, EnPublication, txVars
  <2>2. /\ flux' \in Seq(Evenements) /\ fenetre' \subseteq Evenements
        /\ FenetreStocke' /\ MarqueApresStockage' /\ PasDeFantome'
    BY <2>1, TeteCommise, StockerAjoute
  <2>3. TypeOK' /\ LotCommis' /\ EnMarquage'
    BY <2>1, <2>2, AttenteTypee DEF Inv, TypeOK, Etapes, EnMarquage
  <2> QED BY <2>2, <2>3 DEF Inv
<1>10. ASSUME NEW e \in Evenements, Marquer(e) \/ MarquerSansReponse(e) PROVE Inv'
  <2>1. /\ etape = "marquage" /\ e = Head(lot) /\ publies' = publies \cup {e}
        /\ etape' = "publication" /\ lot' = Tail(lot)
        /\ decale' \in BOOLEAN
        /\ UNCHANGED <<txEtat, debut, fin, heure, flux, fenetre, connecte, page, pleine>>
    BY <1>10 DEF Marquer, MarquerSansReponse, Retenir, txVars, fluxVars, Inv, TypeOK
  <2>2. lot # <<>> /\ e \in DansFlux /\ DansFlux' = DansFlux
    BY <2>1 DEF Inv, EnMarquage, DansFlux
  <2>3. publiees' \in BOOLEAN /\ attente' \subseteq Foyers
    BY <1>10 DEF Marquer, MarquerSansReponse, Retenir, Inv, TypeOK
  <2>4. TypeOK' /\ LotCommis' /\ EnMarquage'
    BY <2>1, <2>2, <2>3, LotSuivant DEF Inv, TypeOK, Etapes, EnMarquage
  <2>5. FenetreStocke' /\ MarqueApresStockage' /\ PasDeFantome'
    BY <2>1, <2>2 DEF Inv, FenetreStocke, MarqueApresStockage, PasDeFantome, Valide
  <2> QED BY <2>4, <2>5 DEF Inv
<1>11. CASE FinDePage
  <2>1. CASE FinDeCycle
    BY <1>11, <2>1, CycleFini DEF FinDePage
  <2>2. CASE etape' = "lecture" /\ page' = page + 1 /\ UNCHANGED <<lot, pleine, publiees, attente>>
    <3>1. UNCHANGED <<txEtat, debut, fin, heure, decale, publies, flux, fenetre, connecte>>
      BY <1>11 DEF FinDePage, txVars, fluxVars
    <3>2. TypeOK' /\ LotCommis' /\ EnMarquage'
      BY <2>2, <3>1 DEF Inv, TypeOK, Etapes, LotCommis, Valide, EnMarquage
    <3> QED BY <3>1, <3>2, FluxInchange DEF Inv, Valide
  <2> QED BY <1>11, <2>1, <2>2 DEF FinDePage
<1>12. CASE Redemarrer
  BY <1>12, CycleFini DEF Redemarrer
<1>13. CASE PerdreConnexion \/ Reconnecter
  <2>1. /\ connecte' \in BOOLEAN
        /\ UNCHANGED <<txEtat, debut, fin, heure, decale, publies, flux, fenetre, etape, page, lot,
                       pleine, publiees, attente>>
    BY <1>13 DEF PerdreConnexion, Reconnecter, txVars, fluxVars, relaisVars
  <2>2. TypeOK' /\ LotCommis' /\ EnMarquage'
    BY <2>1 DEF Inv, TypeOK, LotCommis, Valide, EnMarquage, DansFlux
  <2> QED BY <2>1, <2>2, FluxInchange DEF Inv, Valide
<1>14. ASSUME NEW e \in Evenements, OublierDoublon(e) PROVE Inv'
  <2>1. /\ fenetre' = fenetre \ {e}
        /\ UNCHANGED <<txEtat, debut, fin, heure, decale, publies, flux, connecte, etape, page, lot,
                       pleine, publiees, attente>>
    BY <1>14 DEF OublierDoublon, txVars, relaisVars
  <2>2. TypeOK' /\ LotCommis' /\ EnMarquage'
    BY <2>1 DEF Inv, TypeOK, LotCommis, Valide, EnMarquage, DansFlux
  <2>3. FenetreStocke' /\ MarqueApresStockage' /\ PasDeFantome'
    BY <2>1 DEF Inv, FenetreStocke, MarqueApresStockage, PasDeFantome, DansFlux, Valide
  <2> QED BY <2>2, <2>3 DEF Inv
<1> QED
  BY <1>1, <1>2, <1>3, <1>4, <1>5, <1>6, <1>7, <1>8, <1>9, <1>10, <1>11, <1>12, <1>13, <1>14
  DEF Next, Cycle, Environnement

\* The types of the relay and of the database it reads.
THEOREM TypeCorrect == Spec => []TypeOK
<1>1. Inv => TypeOK
  BY DEF Inv
<1> QED BY InvInit, InvNext, <1>1, PTL DEF Spec

\* A stamped row is in the stream (publierLot: publish, then UPDATE).
THEOREM MarqueEstStocke == Spec => []MarqueApresStockage
<1>1. Inv => MarqueApresStockage
  BY DEF Inv
<1> QED BY InvInit, InvNext, <1>1, PTL DEF Spec

\* The stream only has events of committed commands.
THEOREM FluxSansFantome == Spec => []PasDeFantome
<1>1. Inv => PasDeFantome
  BY DEF Inv
<1> QED BY InvInit, InvNext, <1>1, PTL DEF Spec

(***************************************************************************)
(* Order within a household.  While nothing moves the rows under the       *)
(* OFFSET, the rank of a row (the unpublished rows with an older date)     *)
(* says on which page it is found, whatever way the SELECT sorts the rows  *)
(* that tie with it: each unpublished row that ranks in a page already     *)
(* read waits for the next cycle with its household, or is still to handle *)
(* in the page, or a row of its command is.                                *)
(***************************************************************************)
Rang(e)     == Cardinality({g \in NonPublies : OccurredAt(g) < OccurredAt(e)})
Couverte(e) == FoyerDe[e] \in attente \cup {SansFoyer}
Bas  == page * TAILLE_LOT
Haut == (page + 1) * TAILLE_LOT

\* The clock dates each begin and each commit differently.
DatesOrdonnees ==
  \A t \in Transactions :
    /\ debut[t] <= heure /\ fin[t] <= heure
    /\ txEtat[t] # "absente" => debut[t] # 0
    /\ fin[t] # 0 <=> txEtat[t] = "validee"
    /\ fin[t] # 0 => debut[t] < fin[t]
    /\ \A u \in Transactions : debut[t] = debut[u] /\ debut[t] # 0 => t = u

\* The page in hand has each unpublished row once.
LotFrais ==
  /\ \A i \in DOMAIN lot : lot[i] \notin publies
  /\ \A i, j \in DOMAIN lot : i # j => lot[i] # lot[j]
  /\ etape = "repos" => page = 0

\* About to read a page: what ranks in the pages before is held back.
LectureSuivie ==
  etape = "lecture" =>
    /\ Bas <= Cardinality(NonPublies)
    /\ \A e \in NonPublies : Rang(e) < Bas => Couverte(e)

\* In a full page that has published nothing yet, so that the next may be
\* read: what ranks up to its end is held back, or one of its household is in hand.
PageSuivie ==
  etape \in {"publication", "marquage"} /\ pleine /\ ~publiees =>
    /\ Haut <= Cardinality(NonPublies)
    /\ \A e \in NonPublies : Rang(e) < Haut =>
         Couverte(e) \/ \E i \in DOMAIN lot : FoyerDe[lot[i]] = FoyerDe[e]

\* What precedes a row in hand is held back, or comes before it in the page.
LotSuivi ==
  etape \in {"publication", "marquage"} =>
    \A i \in DOMAIN lot, e \in NonPublies : OccurredAt(e) < OccurredAt(lot[i]) =>
      Couverte(e) \/ \E j \in 1 .. i - 1 : lot[j] = e

Suivi == OrdreParFoyer /\ LectureSuivie /\ PageSuivie /\ LotSuivi

InvOrdre ==
  /\ Inv
  /\ DatesOrdonnees
  /\ LotFrais
  /\ ~decale => Suivi

\* A sort of S has each row of S.
LEMMA TriComplet ==
  ASSUME NEW S \in SUBSET Evenements, NEW s \in Tris(S)
  PROVE  /\ IsFiniteSet(S) /\ Cardinality(S) \in Nat
         /\ \A i \in 1 .. Cardinality(S) : s[i] \in S
         /\ \A e \in S : \E k \in 1 .. Cardinality(S) : s[k] = e
<1> DEFINE n == Cardinality(S)
<1>1. IsFiniteSet(S) /\ n \in Nat
  BY FS_Subset, FS_CardinalityType, ConstantesOutbox
<1>2. s \in [1 .. n -> S] /\ \A i, j \in 1 .. n : i # j => s[i] # s[j]
  BY DEF Tris
<1>3. s \in Injection(1 .. n, S)
  BY <1>2 DEF Injection, IsInjective
<1>4. Cardinality(1 .. n) = n
  BY <1>1, FS_Interval
<1>5. s \in Surjection(1 .. n, S)
  BY <1>1, <1>3, <1>4, FS_Injection
<1>6. \A e \in S : \E k \in 1 .. n : s[k] = e
  BY <1>5 DEF Surjection
<1> QED BY <1>1, <1>2, <1>6

\* Whatever way ties are sorted, the rows older than e come first.
LEMMA PlusAnciensDevant ==
  ASSUME TypeOK, NEW S \in SUBSET Evenements, NEW s \in Tris(S), NEW e \in S,
         NEW i \in 1 .. Cardinality(S)
  PROVE  OccurredAt(s[i]) < OccurredAt(e)
           <=> i <= Cardinality({g \in S : OccurredAt(g) < OccurredAt(e)})
<1> DEFINE n   == Cardinality(S)
           A   == {g \in S : OccurredAt(g) < OccurredAt(e)}
           Pos == {k \in 1 .. n : OccurredAt(s[k]) < OccurredAt(e)}
           b   == [k \in Pos |-> s[k]]
<1>1. /\ IsFiniteSet(S) /\ n \in Nat
      /\ \A k \in 1 .. n : s[k] \in S
      /\ \A g \in S : \E k \in 1 .. n : s[k] = g
  BY TriComplet
<1>2. \A g \in Evenements : OccurredAt(g) \in Nat
  BY ConstantesOutbox DEF OccurredAt, TypeOK
<1>3. /\ \A j, k \in 1 .. n : j # k => s[j] # s[k]
      /\ \A j, k \in 1 .. n : j < k => OccurredAt(s[j]) <= OccurredAt(s[k])
  BY DEF Tris
<1>4. IsFiniteSet(Pos) /\ Cardinality(Pos) \in Nat
  <2>1. IsFiniteSet(1 .. n)
    BY <1>1, FS_Interval
  <2> QED BY <2>1, FS_Subset, FS_CardinalityType
<1>5. Cardinality(Pos) = Cardinality(A)
  <2>1. b \in [Pos -> A]
    BY <1>1
  <2>2. \A j, k \in Pos : b[j] = b[k] => j = k
    BY <1>3
  <2>3. \A g \in A : \E k \in Pos : b[k] = g
    BY <1>1
  <2>4. b \in Bijection(Pos, A)
    <3> HIDE DEF b, Pos, A
    <3> QED BY <2>1, <2>2, <2>3 DEF Bijection, Injection, IsInjective, Surjection
  <2>5. ExistsBijection(Pos, A)
    <3> HIDE DEF b, Pos, A
    <3> QED BY <2>4 DEF ExistsBijection
  <2> QED
    <3> HIDE DEF b, Pos, A
    <3> QED BY <1>4, <2>5, FS_Bijection
<1>6. CASE OccurredAt(s[i]) < OccurredAt(e)
  <2>1. \A k \in 1 .. i : OccurredAt(s[k]) < OccurredAt(e)
    <3> SUFFICES ASSUME NEW k \in 1 .. i PROVE OccurredAt(s[k]) < OccurredAt(e)
      OBVIOUS
    <3>1. k \in 1 .. n /\ (k = i \/ k < i)
      BY <1>1
    <3>2. OccurredAt(s[k]) <= OccurredAt(s[i])
      BY <1>1, <1>2, <1>3, <3>1
    <3> QED BY <1>1, <1>2, <1>6, <3>1, <3>2
  <2>2. 1 .. i \subseteq Pos
    BY <1>1, <2>1
  <2>3. Cardinality(1 .. i) = i /\ Cardinality(1 .. i) <= Cardinality(Pos)
    <3> HIDE DEF Pos
    <3> QED BY <1>1, <1>4, <2>2, FS_Interval, FS_Subset
  <2>4. i <= Cardinality(A)
    <3> HIDE DEF Pos, A
    <3> QED BY <1>5, <2>3
  <2> QED BY <1>6, <2>4
<1>7. CASE ~(OccurredAt(s[i]) < OccurredAt(e))
  <2>1. \A k \in Pos : k \in 1 .. i - 1
    <3> SUFFICES ASSUME NEW k \in Pos PROVE k < i
      BY <1>1
    <3>1. k \in 1 .. n /\ OccurredAt(s[k]) < OccurredAt(e)
      OBVIOUS
    <3>2. i < k => OccurredAt(s[i]) <= OccurredAt(s[k])
      BY <1>3, <3>1
    <3> QED BY <1>1, <1>2, <1>7, <3>1, <3>2
  <2>2. Cardinality(Pos) <= i - 1
    <3>1. PICK q \in Nat : q = i - 1
      BY <1>1
    <3>2. IsFiniteSet(1 .. q) /\ Cardinality(1 .. q) = q
      BY FS_Interval
    <3>3. Pos \in SUBSET (1 .. q)
      BY <2>1, <3>1
    <3>4. Cardinality(Pos) <= q
      <4> HIDE DEF Pos
      <4> QED BY <3>2, <3>3, FS_Subset
    <3> QED BY <3>1, <3>4
  <2>3. ~(i <= Cardinality(A))
    <3> HIDE DEF Pos, A
    <3> QED BY <1>1, <1>4, <1>5, <2>2
  <2> QED BY <1>7, <2>3
<1> QED BY <1>6, <1>7

\* On the row that follows them is e, or a row of the same command.
LEMMA AuRang ==
  ASSUME TypeOK, DatesOrdonnees, NEW s \in Tris(NonPublies), NEW e \in NonPublies
  PROVE  /\ Rang(e) \in Nat
         /\ Rang(e) + 1 \in 1 .. Cardinality(NonPublies)
         /\ s[Rang(e) + 1] \in NonPublies
         /\ TxDe[s[Rang(e) + 1]] = TxDe[e]
         /\ FoyerDe[s[Rang(e) + 1]] = FoyerDe[e]
<1> DEFINE n == Cardinality(NonPublies)
<1>1. NonPublies \in SUBSET Evenements
  BY DEF NonPublies
<1>2. /\ IsFiniteSet(NonPublies) /\ n \in Nat
      /\ \A k \in 1 .. n : s[k] \in NonPublies
      /\ \A g \in NonPublies : \E k \in 1 .. n : s[k] = g
  BY <1>1, TriComplet
<1>3. Rang(e) \in Nat
  <2>1. {g \in NonPublies : OccurredAt(g) < OccurredAt(e)} \in SUBSET NonPublies
    OBVIOUS
  <2> QED BY <1>2, <2>1, FS_Subset, FS_CardinalityType DEF Rang
<1>4. \A i \in 1 .. n : OccurredAt(s[i]) < OccurredAt(e) <=> i <= Rang(e)
  BY <1>1, PlusAnciensDevant DEF Rang
<1>5. PICK k \in 1 .. n : s[k] = e
  BY <1>2
<1>6. \A g \in NonPublies : g \in Evenements /\ OccurredAt(g) \in Nat
  BY <1>1, ConstantesOutbox DEF OccurredAt, TypeOK
<1>7. Rang(e) + 1 \in 1 .. n /\ Rang(e) + 1 <= k
  BY <1>2, <1>3, <1>4, <1>5, <1>6
<1>8. OccurredAt(s[Rang(e) + 1]) = OccurredAt(e)
  <2>1. ~(OccurredAt(s[Rang(e) + 1]) < OccurredAt(e))
    BY <1>3, <1>4, <1>7
  <2>2. Rang(e) + 1 < k => OccurredAt(s[Rang(e) + 1]) <= OccurredAt(s[k])
    BY <1>7 DEF Tris
  <2> QED BY <1>2, <1>3, <1>5, <1>6, <1>7, <2>1, <2>2
<1>9. TxDe[s[Rang(e) + 1]] = TxDe[e]
  <2>1. \A g \in NonPublies : TxDe[g] \in Transactions /\ debut[TxDe[g]] # 0
    BY <1>6, ConstantesOutbox DEF NonPublies, Valide, DatesOrdonnees
  <2> QED BY <1>2, <1>7, <1>8, <2>1 DEF OccurredAt, DatesOrdonnees
<1> QED BY <1>2, <1>3, <1>6, <1>7, <1>9, ConstantesOutbox DEF UnFoyerParCommande

\* Where a page lies in a sort.
LEMMA PageLue ==
  ASSUME TypeOK, NEW s \in Tris(NonPublies)
  PROVE  /\ Bas \in Nat /\ Haut \in Nat /\ Haut = Bas + TAILLE_LOT
         /\ PageDe(s) \in Seq(NonPublies)
         /\ \A i \in DOMAIN PageDe(s) :
              Bas + i \in 1 .. Cardinality(NonPublies) /\ PageDe(s)[i] = s[Bas + i]
         /\ \A k \in 1 .. Cardinality(NonPublies) :
              Bas < k /\ k <= Haut => k - Bas \in DOMAIN PageDe(s)
         /\ Len(PageDe(s)) = TAILLE_LOT => Haut <= Cardinality(NonPublies)
<1> DEFINE n == Cardinality(NonPublies)
           k == IF Haut < Len(s) THEN Haut ELSE Len(s)
<1>1. Bas \in Nat /\ Haut \in Nat /\ Haut = Bas + TAILLE_LOT /\ TAILLE_LOT \in Nat \ {0}
  BY ConstantesOutbox DEF TypeOK, Bas, Haut
<1>2. n \in Nat /\ s \in [1 .. n -> NonPublies] /\ Len(s) = n
  <2>1. NonPublies \in SUBSET Evenements
    BY DEF NonPublies
  <2>2. n \in Nat
    BY <2>1, TriComplet
  <2>3. s \in [1 .. n -> NonPublies]
    BY DEF Tris
  <2> QED BY <2>2, <2>3
<1>3. k \in Int /\ k <= n /\ k <= Haut /\ (k = n \/ k = Haut)
  BY <1>1, <1>2
<1>4. PageDe(s) = SubSeq(s, Bas + 1, k)
  BY DEF PageDe, Bas, Haut
<1>5. \A i \in Bas + 1 .. k : s[i] \in NonPublies
  <2> HIDE DEF k
  <2>1. \A i \in Bas + 1 .. k : i \in 1 .. n
    BY <1>1, <1>2, <1>3
  <2> QED BY <1>2, <2>1
<1>6. /\ SubSeq(s, Bas + 1, k) \in Seq(NonPublies)
      /\ Len(SubSeq(s, Bas + 1, k)) = IF Bas + 1 <= k THEN k - (Bas + 1) + 1 ELSE 0
      /\ \A i \in 1 .. k - (Bas + 1) + 1 : SubSeq(s, Bas + 1, k)[i] = s[Bas + 1 + i - 1]
  <2> HIDE DEF k
  <2>1. Bas + 1 \in Int
    BY <1>1
  <2> QED BY <1>3, <1>5, <2>1, SubSeqProperties
<1> HIDE DEF k
<1>7. /\ PageDe(s) \in Seq(NonPublies)
      /\ Len(PageDe(s)) = IF Bas < k THEN k - Bas ELSE 0
  BY <1>1, <1>3, <1>4, <1>6
<1>8. \A i \in DOMAIN PageDe(s) : i \in Nat /\ 1 <= i /\ Bas < k /\ i <= k - Bas
  <2>1. DOMAIN PageDe(s) = 1 .. Len(PageDe(s))
    BY <1>7
  <2> QED BY <1>1, <1>3, <1>7, <2>1
<1>9. \A i \in DOMAIN PageDe(s) : Bas + i \in 1 .. n /\ PageDe(s)[i] = s[Bas + i]
  <2> SUFFICES ASSUME NEW i \in DOMAIN PageDe(s)
               PROVE  Bas + i \in 1 .. n /\ PageDe(s)[i] = s[Bas + i]
    OBVIOUS
  <2>1. i \in 1 .. k - (Bas + 1) + 1 /\ Bas + 1 + i - 1 = Bas + i
    BY <1>1, <1>3, <1>8
  <2>2. Bas + i \in 1 .. n
    BY <1>1, <1>2, <1>3, <1>8
  <2> QED BY <1>4, <1>6, <2>1, <2>2
<1>10. \A r \in 1 .. n : Bas < r /\ r <= Haut => r - Bas \in DOMAIN PageDe(s)
  <2>1. DOMAIN PageDe(s) = 1 .. Len(PageDe(s))
    BY <1>7
  <2> QED BY <1>1, <1>2, <1>3, <1>7, <2>1
<1>11. Len(PageDe(s)) = TAILLE_LOT => Haut <= n
  BY <1>1, <1>2, <1>3, <1>7
<1> QED BY <1>1, <1>7, <1>9, <1>10, <1>11

\* The relay starts in InvOrdre.
LEMMA InvOrdreInit == Init => InvOrdre
<1> SUFFICES ASSUME Init PROVE InvOrdre
  OBVIOUS
<1>1. Inv
  BY InvInit
<1>2. /\ flux = <<>> /\ lot = <<>> /\ page = 0 /\ etape = "repos" /\ heure = 0
      /\ \A t \in Transactions : txEtat[t] = "absente" /\ debut[t] = 0 /\ fin[t] = 0
  BY DEF Init
<1>3. DOMAIN flux = {} /\ DOMAIN lot = {}
  BY <1>2, SuiteVide
<1>4. DatesOrdonnees /\ LotFrais
  BY <1>2, <1>3 DEF DatesOrdonnees, LotFrais
<1>5. Suivi
  BY <1>2, <1>3 DEF Suivi, OrdreParFoyer, LectureSuivie, PageSuivie, LotSuivi
<1> QED BY <1>1, <1>4, <1>5 DEF InvOrdre

\* The ranks depend on the rows only.
LEMMA RangInchange ==
  ASSUME UNCHANGED <<txEtat, debut, publies>>
  PROVE  /\ NonPublies' = NonPublies
         /\ \A e \in Evenements : OccurredAt(e)' = OccurredAt(e)
         /\ \A e \in Evenements : Rang(e)' = Rang(e)
<1>1. NonPublies' = NonPublies
  BY DEF NonPublies, Valide
<1>2. \A e \in Evenements : OccurredAt(e)' = OccurredAt(e)
  BY DEF OccurredAt
<1>3. ASSUME NEW e \in Evenements PROVE Rang(e)' = Rang(e)
  <2>1. {g \in NonPublies : OccurredAt(g) < OccurredAt(e)}'
          = {g \in NonPublies : OccurredAt(g) < OccurredAt(e)}
    BY <1>1 DEF OccurredAt
  <2> QED BY <2>1 DEF Rang
<1> QED BY <1>1, <1>2, <1>3

\* Every step keeps the dates in order.
LEMMA DatesNext == Inv /\ DatesOrdonnees /\ [Next]_vars => DatesOrdonnees'
<1> SUFFICES ASSUME Inv, DatesOrdonnees, [Next]_vars PROVE DatesOrdonnees'
  OBVIOUS
<1>1. /\ txEtat \in [Transactions -> Etats] /\ heure \in Nat
      /\ debut \in [Transactions -> Nat] /\ fin \in [Transactions -> Nat]
  BY DEF Inv, TypeOK
<1>2. ASSUME NEW t \in Transactions, Commencer(t) PROVE DatesOrdonnees'
  <2>1. /\ txEtat[t] = "absente" /\ heure' = heure + 1 /\ fin' = fin
        /\ debut' = [debut EXCEPT ![t] = heure + 1]
        /\ txEtat' = [txEtat EXCEPT ![t] = "ouverte"]
    BY <1>2 DEF Commencer
  <2>2. fin[t] = 0
    BY <2>1, <1>1 DEF DatesOrdonnees
  <2> QED BY <1>1, <2>1, <2>2 DEF DatesOrdonnees
<1>3. ASSUME NEW t \in Transactions, Valider(t) PROVE DatesOrdonnees'
  <2>1. /\ txEtat[t] = "ouverte" /\ heure' = heure + 1 /\ debut' = debut
        /\ fin' = [fin EXCEPT ![t] = heure + 1]
        /\ txEtat' = [txEtat EXCEPT ![t] = "validee"]
    BY <1>3 DEF Valider
  <2> QED BY <1>1, <2>1 DEF DatesOrdonnees
<1>4. ASSUME NEW t \in Transactions, Annuler(t) PROVE DatesOrdonnees'
  <2>1. /\ txEtat[t] = "ouverte" /\ UNCHANGED <<heure, debut, fin>>
        /\ txEtat' = [txEtat EXCEPT ![t] = "annulee"]
    BY <1>4 DEF Annuler
  <2> QED BY <1>1, <2>1 DEF DatesOrdonnees
<1>5. CASE UNCHANGED <<txEtat, debut, fin, heure>>
  BY <1>5 DEF DatesOrdonnees
<1>6. CASE Cycle \/ Environnement \/ UNCHANGED vars
  <2>1. UNCHANGED <<txEtat, debut, fin, heure>>
    BY <1>6 DEF Cycle, Environnement, DemarrerCycle, LirePage, LireEchec, Differer, Publier,
                PublierEchec, PublierSansReponse, Marquer, MarquerEchec, MarquerSansReponse,
                FinDePage, Redemarrer, PerdreConnexion, Reconnecter, OublierDoublon, vars, txVars
  <2> QED BY <1>5, <2>1
<1> QED BY <1>2, <1>3, <1>4, <1>6 DEF Next, Commandes

\* Every step keeps the page in hand free of what is published.
LEMMA LotFraisNext == Inv /\ LotFrais /\ [Next]_vars => LotFrais'
<1> SUFFICES ASSUME Inv, LotFrais, [Next]_vars PROVE LotFrais'
  OBVIOUS
<1>1. ASSUME UNCHANGED <<lot, publies>>, etape' = "repos" => etape = "repos" /\ page' = page
      PROVE  LotFrais'
  BY <1>1 DEF LotFrais
<1>2. ASSUME FinDeCycle PROVE LotFrais'
  <2>1. DOMAIN lot' = {} /\ page' = 0
    BY <1>2, SuiteVide DEF FinDeCycle
  <2> QED BY <2>1 DEF LotFrais
<1>3. ASSUME lot # <<>>, lot' = Tail(lot), etape' # "repos",
             publies' = publies \/ publies' = publies \cup {Head(lot)}
      PROVE  LotFrais'
  <2>1. lot \in Seq(Evenements)
    BY DEF Inv, TypeOK
  <2>2. /\ Head(lot) = lot[1] /\ 1 \in DOMAIN lot
        /\ \A i \in DOMAIN Tail(lot) : i + 1 \in DOMAIN lot /\ Tail(lot)[i] = lot[i + 1]
    BY <1>3, <2>1, TeteEtQueue
  <2>3. \A i \in DOMAIN Tail(lot) : i \in Nat /\ i >= 1
    BY <1>3, <2>1
  <2>4. \A i \in DOMAIN Tail(lot) : Tail(lot)[i] \notin publies /\ Tail(lot)[i] # Head(lot)
    BY <2>2, <2>3 DEF LotFrais
  <2>5. \A i, j \in DOMAIN Tail(lot) : i # j => Tail(lot)[i] # Tail(lot)[j]
    <3>1. \A i, j \in DOMAIN Tail(lot) : i # j => i + 1 # j + 1
      BY <2>3
    <3> QED BY <2>2, <3>1 DEF LotFrais
  <2> QED BY <1>3, <2>4, <2>5 DEF LotFrais
<1>4. CASE Commandes
  <2>1. UNCHANGED <<lot, publies, etape, page>>
    BY <1>4 DEF Commandes, Commencer, Valider, Annuler, relaisVars
  <2> QED BY <1>1, <2>1
<1>5. CASE DemarrerCycle
  BY <1>1, <1>5 DEF DemarrerCycle
<1>6. CASE LirePage
  <2>1. CASE FinDeCycle
    BY <1>2, <2>1
  <2>2. CASE ~FinDeCycle
    <3>1. PICK s \in Tris(NonPublies) : lot' = PageDe(s)
      BY <1>6, <2>2 DEF LirePage
    <3>2. publies' = publies /\ etape' = "publication"
      BY <1>6, <2>2 DEF LirePage
    <3>3. NonPublies \in SUBSET Evenements
      BY DEF NonPublies
    <3>4. \A k \in 1 .. Cardinality(NonPublies) : s[k] \in NonPublies
      BY <3>3, TriComplet
    <3>5. /\ Bas \in Nat
          /\ PageDe(s) \in Seq(NonPublies)
          /\ \A i \in DOMAIN PageDe(s) :
               Bas + i \in 1 .. Cardinality(NonPublies) /\ PageDe(s)[i] = s[Bas + i]
      BY PageLue DEF Inv
    <3>6. \A i \in DOMAIN PageDe(s) : PageDe(s)[i] \notin publies
      BY <3>4, <3>5 DEF NonPublies
    <3>7. \A i, j \in DOMAIN PageDe(s) : i # j => PageDe(s)[i] # PageDe(s)[j]
      <4>1. \A k, l \in 1 .. Cardinality(NonPublies) : k # l => s[k] # s[l]
        BY DEF Tris
      <4>2. \A i, j \in DOMAIN PageDe(s) : i # j => Bas + i # Bas + j
        BY <3>5
      <4> QED BY <3>5, <4>1, <4>2
    <3> QED BY <3>1, <3>2, <3>6, <3>7 DEF LotFrais
  <2> QED BY <2>1, <2>2
<1>7. CASE LireEchec \/ Redemarrer
  BY <1>2, <1>7 DEF LireEchec, Redemarrer
<1>8. CASE Differer
  BY <1>3, <1>8 DEF Differer
<1>9. ASSUME NEW e \in Evenements, Publier(e) PROVE LotFrais'
  BY <1>1, <1>9 DEF Publier
<1>10. ASSUME NEW e \in Evenements,
              PublierEchec(e) \/ PublierSansReponse(e) \/ MarquerEchec(e)
       PROVE  LotFrais'
  <2>1. lot # <<>>
    BY <1>10 DEF PublierEchec, PublierSansReponse, MarquerEchec, EnPublication, Inv, EnMarquage
  <2> QED BY <1>3, <1>10, <2>1 DEF PublierEchec, PublierSansReponse, MarquerEchec, Retenir
<1>11. ASSUME NEW e \in Evenements, Marquer(e) \/ MarquerSansReponse(e) PROVE LotFrais'
  <2>1. lot # <<>>
    BY <1>11 DEF Marquer, MarquerSansReponse, Inv, EnMarquage
  <2> QED BY <1>3, <1>11, <2>1 DEF Marquer, MarquerSansReponse, Retenir
<1>12. CASE FinDePage
  BY <1>1, <1>2, <1>12 DEF FinDePage
<1>13. CASE PerdreConnexion \/ Reconnecter \/ \E e \in Evenements : OublierDoublon(e)
  BY <1>1, <1>13 DEF PerdreConnexion, Reconnecter, OublierDoublon, relaisVars
<1>14. CASE UNCHANGED vars
  BY <1>1, <1>14 DEF vars, relaisVars
<1> QED
  BY <1>4, <1>5, <1>6, <1>7, <1>8, <1>9, <1>10, <1>11, <1>12, <1>13, <1>14
  DEF Next, Cycle, Environnement

\* A step that leaves the rows, the stream and the relay alone keeps the order.
LEMMA SuiviInchange ==
  ASSUME Suivi, UNCHANGED <<txEtat, debut, fin, publies, flux>>,
         UNCHANGED <<etape, page, lot, pleine, publiees, attente>>
  PROVE  Suivi'
<1>1. NonPublies' = NonPublies /\ \A e \in NonPublies : Rang(e)' = Rang(e)
  BY RangInchange DEF NonPublies
<1>2. OrdreParFoyer'
  BY DEF Suivi, OrdreParFoyer, Precede
<1>3. LectureSuivie'
  BY <1>1 DEF Suivi, LectureSuivie, Bas, Couverte
<1>4. PageSuivie'
  BY <1>1 DEF Suivi, PageSuivie, Haut, Couverte
<1>5. LotSuivi'
  BY <1>1 DEF Suivi, LotSuivi, Couverte, OccurredAt
<1> QED BY <1>2, <1>3, <1>4, <1>5 DEF Suivi

\* Between cycles the relay follows no page.
LEMMA SuiviAuRepos ==
  ASSUME Suivi, FinDeCycle, UNCHANGED <<debut, fin, flux>>
  PROVE  Suivi'
<1>1. OrdreParFoyer'
  BY DEF Suivi, OrdreParFoyer, Precede
<1>2. etape' = "repos"
  BY DEF FinDeCycle
<1> QED BY <1>1, <1>2 DEF Suivi, LectureSuivie, PageSuivie, LotSuivi

\* The row in hand leaves the page and its household, if it has one, waits.
LEMMA TeteRetenue ==
  ASSUME Inv, Suivi, etape \in {"publication", "marquage"}, lot # <<>>, lot' = Tail(lot),
         etape' = "publication", attente \subseteq attente',
         NEW tete \in Evenements, tete = Head(lot), Couverte(tete)',
         UNCHANGED <<txEtat, debut, publies, page, pleine, publiees>>
  PROVE  LectureSuivie' /\ PageSuivie' /\ LotSuivi'
<1>1. /\ NonPublies' = NonPublies
      /\ \A e \in NonPublies : OccurredAt(e)' = OccurredAt(e) /\ Rang(e)' = Rang(e)
  BY RangInchange DEF NonPublies
<1>2. lot \in Seq(Evenements)
  BY DEF Inv, TypeOK
<1>3. /\ tete = lot[1]
      /\ \A i \in DOMAIN Tail(lot) : i + 1 \in DOMAIN lot /\ Tail(lot)[i] = lot[i + 1]
      /\ \A i \in DOMAIN lot : i \in Nat /\ i >= 1 /\ (i # 1 => i - 1 \in DOMAIN Tail(lot))
      /\ \A i \in DOMAIN Tail(lot) : i \in Nat /\ i >= 1
  BY <1>2
<1>4. \A e \in Evenements : Couverte(e) => Couverte(e)'
  BY DEF Couverte
<1>5. \A e \in Evenements : FoyerDe[e] = FoyerDe[tete] => Couverte(e)'
  BY DEF Couverte
<1>6. LectureSuivie'
  BY DEF LectureSuivie
<1>7. PageSuivie'
  <2>1. SUFFICES ASSUME pleine, ~publiees
                 PROVE  /\ Haut <= Cardinality(NonPublies)
                        /\ \A e \in NonPublies : Rang(e) < Haut =>
                             Couverte(e)' \/ \E i \in DOMAIN Tail(lot) : FoyerDe[Tail(lot)[i]] = FoyerDe[e]
    BY <1>1 DEF PageSuivie, Haut
  <2>2. /\ Haut <= Cardinality(NonPublies)
        /\ \A e \in NonPublies : Rang(e) < Haut =>
             Couverte(e) \/ \E i \in DOMAIN lot : FoyerDe[lot[i]] = FoyerDe[e]
    BY <2>1 DEF Suivi, PageSuivie
  <2>3. ASSUME NEW e \in NonPublies, NEW i \in DOMAIN lot, FoyerDe[lot[i]] = FoyerDe[e]
        PROVE  Couverte(e)' \/ \E j \in DOMAIN Tail(lot) : FoyerDe[Tail(lot)[j]] = FoyerDe[e]
    <3>1. CASE i = 1
      BY <1>3, <1>5, <2>3, <3>1 DEF NonPublies
    <3>2. CASE i # 1
      <4>1. i - 1 \in DOMAIN Tail(lot)
        BY <1>3, <3>2
      <4>2. Tail(lot)[i - 1] = lot[(i - 1) + 1] /\ (i - 1) + 1 = i
        BY <1>3, <4>1
      <4> QED BY <2>3, <4>1, <4>2
    <3> QED BY <3>1, <3>2
  <2> QED BY <1>4, <2>2, <2>3 DEF NonPublies
<1>8. LotSuivi'
  <2>1. SUFFICES ASSUME NEW i \in DOMAIN Tail(lot), NEW e \in NonPublies,
                        OccurredAt(e) < OccurredAt(lot[i + 1])
                 PROVE  Couverte(e)' \/ \E j \in 1 .. i - 1 : Tail(lot)[j] = e
    BY <1>1, <1>3 DEF LotSuivi, OccurredAt
  <2>2. Couverte(e) \/ \E j \in 1 .. (i + 1) - 1 : lot[j] = e
    BY <1>3, <2>1 DEF Suivi, LotSuivi
  <2>3. CASE Couverte(e)
    BY <1>4, <2>3 DEF NonPublies
  <2>4. ASSUME NEW j \in 1 .. (i + 1) - 1, lot[j] = e
        PROVE  Couverte(e)' \/ \E l \in 1 .. i - 1 : Tail(lot)[l] = e
    <3>1. CASE j = 1
      BY <1>3, <1>5, <2>4, <3>1 DEF NonPublies
    <3>2. CASE j # 1
      <4>1. j - 1 \in 1 .. i - 1 /\ j - 1 \in DOMAIN Tail(lot) /\ (j - 1) + 1 = j
        <5>1. DOMAIN Tail(lot) = 1 .. Len(Tail(lot))
          BY <1>2
        <5>2. Len(Tail(lot)) \in Nat
          BY <1>2
        <5>3. i \in Nat /\ i \in 1 .. Len(Tail(lot))
          BY <1>3, <5>1
        <5>4. j \in Nat /\ 1 < j /\ j <= i
          BY <3>2, <5>3
        <5>5. j - 1 \in 1 .. i - 1 /\ j - 1 \in 1 .. Len(Tail(lot)) /\ (j - 1) + 1 = j
          BY <5>2, <5>3, <5>4
        <5> QED BY <5>1, <5>5
      <4>2. Tail(lot)[j - 1] = lot[j]
        BY <1>3, <4>1
      <4> QED BY <2>4, <4>1, <4>2
    <3> QED BY <3>1, <3>2
  <2> QED BY <2>2, <2>3, <2>4
<1> QED BY <1>6, <1>7, <1>8

\* A row is stored only when the rows it must follow are.
LEMMA StockerEnOrdre ==
  ASSUME Inv, Suivi, NEW f \in Evenements, EnPublication(f), Stocker(f),
         UNCHANGED <<debut, fin>>, DatesOrdonnees
  PROVE  OrdreParFoyer'
<1>1. /\ flux \in Seq(Evenements) /\ lot \in Seq(Evenements)
      /\ debut \in [Transactions -> Nat] /\ fin \in [Transactions -> Nat]
      /\ TxDe \in [Evenements -> Transactions]
  BY ConstantesOutbox DEF Inv, TypeOK
<1>2. 1 \in DOMAIN lot /\ lot[1] = f /\ etape = "publication" /\ FoyerDe[f] \notin attente
  BY <1>1, TeteEtQueue DEF EnPublication
<1>3. ASSUME NEW e \in Evenements, MemeFoyer(e, f), Precede(e, f)
      PROVE  \E i \in DOMAIN flux : flux[i] = e
  <2>1. Valide(e) /\ OccurredAt(e) < OccurredAt(f)
    <3>1. /\ fin[TxDe[e]] # 0 /\ fin[TxDe[e]] < debut[TxDe[f]]
          /\ TxDe[e] \in Transactions /\ TxDe[f] \in Transactions
      BY <1>1, <1>3 DEF Precede
    <3>2. txEtat[TxDe[e]] = "validee" /\ debut[TxDe[e]] < fin[TxDe[e]]
      BY <3>1 DEF DatesOrdonnees
    <3>3. debut[TxDe[e]] \in Nat /\ fin[TxDe[e]] \in Nat /\ debut[TxDe[f]] \in Nat
      BY <1>1, <3>1
    <3> QED BY <3>1, <3>2, <3>3 DEF Valide, OccurredAt
  <2>2. CASE e \in publies
    BY <2>2 DEF Inv, MarqueApresStockage, DansFlux
  <2>3. CASE e \notin publies
    <3>1. e \in NonPublies
      BY <2>1, <2>3 DEF NonPublies
    <3>2. Couverte(e) \/ \E j \in 1 .. 1 - 1 : lot[j] = e
      BY <1>2, <2>1, <3>1 DEF Suivi, LotSuivi
    <3> QED BY <1>2, <1>3, <3>2 DEF Couverte, MemeFoyer
  <2> QED BY <2>2, <2>3
<1>4. CASE f \in fenetre
  BY <1>4 DEF Stocker, Suivi, OrdreParFoyer, Precede
<1>5. CASE f \notin fenetre
  <2>1. flux' = Append(flux, f)
    BY <1>5 DEF Stocker
  <2>2. /\ \A i \in DOMAIN flux : i \in DOMAIN flux' /\ flux'[i] = flux[i] /\ i \in 1 .. Len(flux) + 1
        /\ \A j \in DOMAIN flux' : j \in DOMAIN flux \/ (j = Len(flux) + 1 /\ flux'[j] = f)
    BY <1>1, <2>1
  <2>3. SUFFICES ASSUME NEW j \in DOMAIN flux', NEW e \in Evenements,
                        MemeFoyer(e, flux'[j]), Precede(e, flux'[j])
                 PROVE  \E i \in 1 .. j : flux'[i] = e
    BY DEF OrdreParFoyer, Precede
  <2>4. CASE j \in DOMAIN flux
    <3>1. PICK i \in 1 .. j : flux[i] = e
      BY <2>2, <2>3, <2>4 DEF Suivi, OrdreParFoyer
    <3>2. i \in DOMAIN flux
      BY <1>1, <2>4
    <3> QED BY <2>2, <3>1, <3>2
  <2>5. CASE j = Len(flux) + 1 /\ flux'[j] = f
    <3>1. PICK i \in DOMAIN flux : flux[i] = e
      BY <1>3, <2>3, <2>5
    <3> QED BY <2>2, <2>5, <3>1
  <2> QED BY <2>2, <2>4, <2>5
<1> QED BY <1>4, <1>5

\* The start of a cycle: nothing ranks before the first page.
LEMMA SuiviDemarrer ==
  ASSUME Inv, LotFrais, Suivi, DemarrerCycle PROVE Suivi'
<1>1. /\ etape' = "lecture" /\ page' = 0
      /\ UNCHANGED <<txEtat, debut, fin, publies, flux, attente>>
  BY DEF DemarrerCycle, txVars, fluxVars, LotFrais
<1>2. /\ NonPublies' = NonPublies
      /\ \A e \in NonPublies : Rang(e)' = Rang(e)
  BY <1>1, RangInchange DEF NonPublies
<1>3. Bas' = 0
  BY <1>1, ConstantesOutbox DEF Bas
<1>4. NonPublies \in SUBSET Evenements
  BY DEF NonPublies
<1>5. IsFiniteSet(NonPublies)
  BY <1>4, FS_Subset, ConstantesOutbox
<1>6. Cardinality(NonPublies) \in Nat
  BY <1>5, FS_CardinalityType
<1>7. \A e \in NonPublies : Rang(e) \in Nat
  <2> SUFFICES ASSUME NEW e \in NonPublies PROVE Rang(e) \in Nat
    OBVIOUS
  <2>1. {g \in NonPublies : OccurredAt(g) < OccurredAt(e)} \in SUBSET NonPublies
    OBVIOUS
  <2> QED BY <1>5, <2>1, FS_Subset, FS_CardinalityType DEF Rang
<1>8. LectureSuivie'
  BY <1>2, <1>3, <1>6, <1>7 DEF LectureSuivie
<1>9. OrdreParFoyer' /\ PageSuivie' /\ LotSuivi'
  BY <1>1 DEF Suivi, OrdreParFoyer, Precede, PageSuivie, LotSuivi
<1> QED BY <1>8, <1>9 DEF Suivi

\* The SELECT of a page: whatever way it sorts the ties, a row that ranks in
\* this page or before is held back, or is in the page with its household.
LEMMA SuiviLire ==
  ASSUME Inv, DatesOrdonnees, Suivi, LirePage PROVE Suivi'
<1>1. CASE FinDeCycle
  BY <1>1, SuiviAuRepos DEF LirePage, txVars, fluxVars
<1>2. CASE ~FinDeCycle
  <2>1. PICK s \in Tris(NonPublies) :
          lot' = PageDe(s) /\ pleine' = (Len(PageDe(s)) = TAILLE_LOT)
    BY <1>2 DEF LirePage
  <2>2. /\ etape = "lecture" /\ etape' = "publication" /\ publiees' = FALSE
        /\ UNCHANGED <<txEtat, debut, fin, publies, flux, page, attente>>
    BY <1>2 DEF LirePage, txVars, fluxVars
  <2>3. /\ NonPublies' = NonPublies /\ Haut' = Haut
        /\ \A e \in NonPublies : OccurredAt(e)' = OccurredAt(e) /\ Rang(e)' = Rang(e)
                                 /\ (Couverte(e)' <=> Couverte(e))
    BY <2>2, RangInchange DEF NonPublies, Couverte, Haut
  <2>4. /\ Bas \in Nat /\ Haut \in Nat /\ Haut = Bas + TAILLE_LOT
        /\ PageDe(s) \in Seq(NonPublies)
        /\ \A i \in DOMAIN PageDe(s) :
             Bas + i \in 1 .. Cardinality(NonPublies) /\ PageDe(s)[i] = s[Bas + i]
        /\ \A k \in 1 .. Cardinality(NonPublies) :
             Bas < k /\ k <= Haut => k - Bas \in DOMAIN PageDe(s)
        /\ Len(PageDe(s)) = TAILLE_LOT => Haut <= Cardinality(NonPublies)
    BY PageLue DEF Inv
  <2>5. \A e \in NonPublies : Rang(e) < Bas => Couverte(e)
    BY <2>2 DEF Suivi, LectureSuivie
  <2>6. \A i \in DOMAIN PageDe(s) : i \in Nat /\ i >= 1
    BY <2>4
  <2>7. /\ NonPublies \in SUBSET Evenements /\ Cardinality(NonPublies) \in Nat
        /\ \A k \in 1 .. Cardinality(NonPublies) : s[k] \in NonPublies
        /\ \A e \in NonPublies : \E k \in 1 .. Cardinality(NonPublies) : s[k] = e
    <3>1. NonPublies \in SUBSET Evenements
      BY DEF NonPublies
    <3> QED BY <3>1, TriComplet
  <2>8. PageSuivie'
    <3>1. SUFFICES ASSUME Len(PageDe(s)) = TAILLE_LOT, NEW e \in NonPublies, Rang(e) < Haut,
                          ~(Rang(e) < Bas)
                   PROVE  \E i \in DOMAIN PageDe(s) : FoyerDe[PageDe(s)[i]] = FoyerDe[e]
      BY <2>1, <2>2, <2>3, <2>4, <2>5 DEF PageSuivie
    <3>2. /\ Rang(e) \in Nat
          /\ Rang(e) + 1 \in 1 .. Cardinality(NonPublies)
          /\ FoyerDe[s[Rang(e) + 1]] = FoyerDe[e]
      BY AuRang DEF Inv
    <3>3. Bas < Rang(e) + 1 /\ Rang(e) + 1 <= Haut
      BY <2>4, <3>1, <3>2
    <3>4. Rang(e) + 1 - Bas \in DOMAIN PageDe(s)
      BY <2>4, <3>2, <3>3
    <3>5. PageDe(s)[Rang(e) + 1 - Bas] = s[Rang(e) + 1]
      <4>1. Bas + (Rang(e) + 1 - Bas) = Rang(e) + 1
        BY <2>4, <3>2
      <4> QED BY <2>4, <3>4, <4>1
    <3> QED BY <3>2, <3>4, <3>5
  <2>9. LotSuivi'
    <3>1. SUFFICES ASSUME NEW i \in DOMAIN PageDe(s), NEW e \in NonPublies,
                          OccurredAt(e) < OccurredAt(PageDe(s)[i]), ~Couverte(e)
                   PROVE  \E j \in 1 .. i - 1 : PageDe(s)[j] = e
      <4>1. \A i \in DOMAIN PageDe(s) : PageDe(s)[i] \in NonPublies
        BY <2>4, <2>6, <2>7
      <4> QED BY <2>1, <2>2, <2>3, <4>1 DEF LotSuivi, OccurredAt
    <3>2. PICK k \in 1 .. Cardinality(NonPublies) : s[k] = e
      BY <2>7
    <3>3. Bas + i \in 1 .. Cardinality(NonPublies) /\ PageDe(s)[i] = s[Bas + i]
      BY <2>4
    <3>4. \A g \in NonPublies : OccurredAt(g) \in Nat
      BY <2>7, ConstantesOutbox DEF OccurredAt, Inv, TypeOK
    <3>5. k < Bas + i
      <4>1. Bas + i < k => OccurredAt(s[Bas + i]) <= OccurredAt(s[k])
        BY <3>2, <3>3 DEF Tris
      <4>2. OccurredAt(s[k]) < OccurredAt(s[Bas + i])
        BY <3>1, <3>2, <3>3
      <4>3. OccurredAt(s[k]) \in Nat /\ OccurredAt(s[Bas + i]) \in Nat
        BY <2>7, <3>2, <3>3, <3>4
      <4>4. k # Bas + i
        BY <4>2, <4>3
      <4> QED BY <2>4, <2>6, <3>2, <3>3, <4>1, <4>2, <4>3, <4>4
    <3>6. Bas < k
      <4>1. Rang(e) \in Nat /\ ~(Rang(e) < Bas)
        BY <2>5, <3>1, AuRang DEF Inv
      <4>2. OccurredAt(s[k]) < OccurredAt(e) <=> k <= Rang(e)
        BY <2>7, PlusAnciensDevant DEF Rang, Inv
      <4>3. ~(k <= Rang(e))
        BY <3>2, <3>4, <4>2
      <4> QED BY <2>4, <3>2, <4>1, <4>3
    <3>7. k - Bas \in 1 .. i - 1
      BY <2>4, <2>6, <3>2, <3>5, <3>6
    <3>8. PageDe(s)[k - Bas] = e
      <4>1. k - Bas \in DOMAIN PageDe(s)
        <5>1. DOMAIN PageDe(s) = 1 .. Len(PageDe(s)) /\ Len(PageDe(s)) \in Nat
          BY <2>4
        <5>2. i \in 1 .. Len(PageDe(s))
          BY <3>1, <5>1
        <5> QED BY <3>7, <5>1, <5>2
      <4>2. Bas + (k - Bas) = k
        BY <2>4, <3>2
      <4> QED BY <2>4, <3>2, <4>1, <4>2
    <3> QED BY <3>7, <3>8
  <2>10. OrdreParFoyer' /\ LectureSuivie'
    BY <2>2 DEF Suivi, OrdreParFoyer, Precede, LectureSuivie
  <2> QED BY <2>8, <2>9, <2>10 DEF Suivi
<1> QED BY <1>1, <1>2

\* A row is stamped: it leaves the page and the unpublished rows together.
LEMMA SuiviMarquer ==
  ASSUME Inv, LotFrais, Suivi, NEW f \in Evenements, Marquer(f) PROVE Suivi'
<1>1. /\ etape = "marquage" /\ f = Head(lot) /\ lot # <<>> /\ lot' = Tail(lot)
      /\ publies' = publies \cup {f} /\ publiees' = TRUE /\ etape' = "publication"
      /\ UNCHANGED <<txEtat, debut, fin, flux, attente>>
  BY DEF Marquer, Inv, EnMarquage, txVars, fluxVars
<1>2. OrdreParFoyer' /\ LectureSuivie' /\ PageSuivie'
  BY <1>1 DEF Suivi, OrdreParFoyer, Precede, LectureSuivie, PageSuivie
<1>3. lot \in Seq(Evenements)
  BY DEF Inv, TypeOK
<1>4. /\ f = lot[1]
      /\ \A i \in DOMAIN Tail(lot) : i + 1 \in DOMAIN lot /\ Tail(lot)[i] = lot[i + 1]
      /\ \A i \in DOMAIN Tail(lot) : i \in Nat /\ i >= 1
      /\ DOMAIN Tail(lot) = 1 .. Len(Tail(lot)) /\ Len(Tail(lot)) \in Nat
  BY <1>1, <1>3
<1>5. LotSuivi'
  <2>1. SUFFICES ASSUME NEW i \in DOMAIN Tail(lot), NEW e \in Evenements,
                        Valide(e), e \notin publies, e # f,
                        OccurredAt(e) < OccurredAt(lot[i + 1]), ~Couverte(e)
                 PROVE  \E j \in 1 .. i - 1 : Tail(lot)[j] = e
    BY <1>1, <1>4 DEF LotSuivi, NonPublies, Valide, OccurredAt, Couverte
  <2>2. PICK j \in 1 .. (i + 1) - 1 : lot[j] = e
    BY <1>1, <1>4, <2>1 DEF Suivi, LotSuivi, NonPublies
  <2>3. j # 1
    BY <1>4, <2>1, <2>2
  <2>4. i \in Nat /\ i \in 1 .. Len(Tail(lot))
    BY <1>4
  <2>5. j \in Nat /\ 1 < j /\ j <= i
    BY <2>3, <2>4
  <2>6. j - 1 \in 1 .. i - 1 /\ j - 1 \in 1 .. Len(Tail(lot)) /\ (j - 1) + 1 = j
    BY <1>4, <2>4, <2>5
  <2>7. Tail(lot)[j - 1] = lot[j]
    BY <1>4, <2>6
  <2> QED BY <2>2, <2>6, <2>7
<1> QED BY <1>2, <1>5 DEF Suivi

\* The end of a page: the next one is read after a full page that published nothing.
LEMMA SuiviFinDePage ==
  ASSUME Inv, Suivi, FinDePage PROVE Suivi'
<1>1. UNCHANGED <<txEtat, debut, fin, publies, flux>>
  BY DEF FinDePage, txVars, fluxVars
<1>2. CASE FinDeCycle
  BY <1>1, <1>2, SuiviAuRepos
<1>3. CASE PageSuivante /\ etape' = "lecture" /\ page' = page + 1 /\ UNCHANGED attente
  <2>1. etape = "publication" /\ pleine /\ ~publiees /\ DOMAIN lot = {}
    BY <1>3, SuiteVide DEF FinDePage, PageSuivante
  <2>2. /\ Haut <= Cardinality(NonPublies)
        /\ \A e \in NonPublies : Rang(e) < Haut => Couverte(e)
    BY <2>1 DEF Suivi, PageSuivie
  <2>3. /\ NonPublies' = NonPublies
        /\ \A e \in NonPublies : Rang(e)' = Rang(e) /\ (Couverte(e)' <=> Couverte(e))
    BY <1>1, <1>3, RangInchange DEF NonPublies, Couverte
  <2>4. Bas' = Haut
    BY <1>3 DEF Bas, Haut
  <2>5. LectureSuivie'
    BY <2>2, <2>3, <2>4 DEF LectureSuivie
  <2>6. OrdreParFoyer' /\ PageSuivie' /\ LotSuivi'
    BY <1>1, <1>3 DEF Suivi, OrdreParFoyer, Precede, PageSuivie, LotSuivi
  <2> QED BY <2>5, <2>6 DEF Suivi
<1> QED BY <1>2, <1>3 DEF FinDePage

\* A command commits: its rows sort after those the cycle may have seen.
LEMMA SuiviValider ==
  ASSUME Inv, DatesOrdonnees, LotFrais, Suivi, NEW t \in Transactions, Valider(t), ~decale'
  PROVE  Suivi'
<1>1. /\ txEtat[t] = "ouverte" /\ ~SousLeCycle(t)
      /\ fin' = [fin EXCEPT ![t] = heure + 1]
      /\ txEtat' = [txEtat EXCEPT ![t] = "validee"]
      /\ UNCHANGED <<debut, publies, flux, etape, page, lot, pleine, publiees, attente>>
  BY DEF Valider, fluxVars, relaisVars
<1>2. /\ txEtat \in [Transactions -> Etats] /\ heure \in Nat
      /\ debut \in [Transactions -> Nat] /\ fin \in [Transactions -> Nat]
      /\ TxDe \in [Evenements -> Transactions]
      /\ lot \in Seq(Evenements) /\ flux \in Seq(Evenements)
  BY ConstantesOutbox DEF Inv, TypeOK
<1>3. OrdreParFoyer'
  <2>1. \A e, f \in Evenements : Precede(e, f)' => Precede(e, f)
    <3> SUFFICES ASSUME NEW e \in Evenements, NEW f \in Evenements, Precede(e, f)'
                 PROVE  Precede(e, f)
      OBVIOUS
    <3>1. TxDe[e] \in Transactions /\ TxDe[f] \in Transactions
      BY <1>2
    <3>2. debut[TxDe[f]] <= heure /\ debut[TxDe[f]] \in Nat
      BY <1>2, <3>1 DEF DatesOrdonnees
    <3>3. /\ fin'[TxDe[e]] # 0 /\ fin'[TxDe[e]] < debut[TxDe[f]]
      BY <1>1 DEF Precede
    <3>4. TxDe[e] # t
      BY <1>1, <1>2, <3>2, <3>3
    <3> QED BY <1>1, <1>2, <3>1, <3>3, <3>4 DEF Precede
  <2>2. \A j \in DOMAIN flux : flux[j] \in Evenements
    BY <1>2
  <2> QED BY <1>1, <2>1, <2>2 DEF Suivi, OrdreParFoyer
<1>4. CASE etape = "repos"
  BY <1>1, <1>3, <1>4 DEF Suivi, LectureSuivie, PageSuivie, LotSuivi
<1>5. CASE etape # "repos"
  <2>1. \A e \in NonPublies : /\ e \in Evenements /\ TxDe[e] # t
                              /\ OccurredAt(e) \in Nat /\ OccurredAt(e) < debut[t]
    <3> SUFFICES ASSUME NEW e \in NonPublies
                 PROVE  /\ e \in Evenements /\ TxDe[e] # t
                        /\ OccurredAt(e) \in Nat /\ OccurredAt(e) < debut[t]
      OBVIOUS
    <3>1. e \in Evenements /\ txEtat[TxDe[e]] = "validee" /\ TxDe[e] \in Transactions
      BY <1>2 DEF NonPublies, Valide
    <3>2. TxDe[e] # t /\ debut[TxDe[e]] # debut[t]
      BY <1>1, <3>1 DEF DatesOrdonnees
    <3>3. ~(debut[t] < OccurredAt(e))
      BY <1>1, <1>5 DEF SousLeCycle
    <3> QED BY <1>2, <3>1, <3>2, <3>3 DEF OccurredAt
  <2>2. /\ NonPublies \subseteq NonPublies'
        /\ \A e \in NonPublies' : e \in Evenements /\ (e \in NonPublies \/ OccurredAt(e) = debut[t])
    BY <1>1, <1>2 DEF NonPublies, Valide, OccurredAt
  <2>3. IsFiniteSet(NonPublies') /\ NonPublies' \in SUBSET Evenements
    <3>1. NonPublies' \in SUBSET Evenements
      BY <2>2
    <3> QED BY <3>1, FS_Subset, ConstantesOutbox
  <2>4. Cardinality(NonPublies) <= Cardinality(NonPublies')
        /\ Cardinality(NonPublies) \in Nat /\ Cardinality(NonPublies') \in Nat
    BY <2>2, <2>3, FS_Subset, FS_CardinalityType
  <2>5. \A e \in NonPublies : Rang(e)' = Rang(e)
    <3> SUFFICES ASSUME NEW e \in NonPublies PROVE Rang(e)' = Rang(e)
      OBVIOUS
    <3>1. \A g \in NonPublies' : OccurredAt(g) < OccurredAt(e) => g \in NonPublies
      <4> SUFFICES ASSUME NEW g \in NonPublies', OccurredAt(g) < OccurredAt(e),
                          OccurredAt(g) = debut[t]
                   PROVE  FALSE
        BY <2>2
      <4>1. OccurredAt(e) < debut[t] /\ OccurredAt(e) \in Nat /\ debut[t] \in Nat
        BY <1>2, <2>1
      <4> QED BY <4>1
    <3>2. {g \in NonPublies' : OccurredAt(g) < OccurredAt(e)}
            = {g \in NonPublies : OccurredAt(g) < OccurredAt(e)}
      BY <2>2, <3>1
    <3>3. Rang(e)' = Cardinality({g \in NonPublies' : OccurredAt(g) < OccurredAt(e)})
      BY <1>1 DEF Rang, OccurredAt
    <3> QED BY <3>2, <3>3 DEF Rang
  <2>6. \A e \in NonPublies' : e \in NonPublies \/ Cardinality(NonPublies) <= Rang(e)'
    <3> SUFFICES ASSUME NEW e \in NonPublies', OccurredAt(e) = debut[t]
                 PROVE  Cardinality(NonPublies) <= Rang(e)'
      BY <2>2
    <3>1. NonPublies \in SUBSET {g \in NonPublies' : OccurredAt(g) < OccurredAt(e)}
      BY <2>1, <2>2
    <3>2. IsFiniteSet({g \in NonPublies' : OccurredAt(g) < OccurredAt(e)})
      <4>1. {g \in NonPublies' : OccurredAt(g) < OccurredAt(e)} \in SUBSET NonPublies'
        OBVIOUS
      <4> QED BY <2>3, <4>1, FS_Subset
    <3>3. Rang(e)' = Cardinality({g \in NonPublies' : OccurredAt(g) < OccurredAt(e)})
      BY <1>1 DEF Rang, OccurredAt
    <3> QED BY <3>1, <3>2, <3>3, FS_Subset
  <2>7. \A e \in Evenements : Couverte(e)' <=> Couverte(e)
    BY <1>1 DEF Couverte
  <2>8. Bas' = Bas /\ Haut' = Haut /\ Bas \in Nat /\ Haut \in Nat
    BY <1>1, ConstantesOutbox DEF Bas, Haut, Inv, TypeOK
  <2>9. \A e \in NonPublies' : Rang(e)' \in Nat
    <3> SUFFICES ASSUME NEW e \in NonPublies' PROVE Rang(e)' \in Nat
      OBVIOUS
    <3>1. {g \in NonPublies : OccurredAt(g) < OccurredAt(e)}' \in SUBSET NonPublies'
      OBVIOUS
    <3> QED BY <2>3, <3>1, FS_Subset, FS_CardinalityType DEF Rang
  <2>10. LectureSuivie'
    <3>1. SUFFICES ASSUME etape = "lecture"
                   PROVE  /\ Bas <= Cardinality(NonPublies')
                          /\ \A e \in NonPublies' : Rang(e)' < Bas => Couverte(e)
      BY <1>1, <2>2, <2>7, <2>8 DEF LectureSuivie
    <3>2. /\ Bas <= Cardinality(NonPublies)
          /\ \A e \in NonPublies : Rang(e) < Bas => Couverte(e)
      BY <3>1 DEF Suivi, LectureSuivie
    <3>3. \A e \in NonPublies' : Rang(e)' < Bas => e \in NonPublies
      BY <2>4, <2>6, <2>8, <2>9, <3>2
    <3> QED BY <2>4, <2>5, <2>8, <3>2, <3>3
  <2>11. PageSuivie'
    <3>1. SUFFICES ASSUME etape \in {"publication", "marquage"}, pleine, ~publiees
                   PROVE  /\ Haut <= Cardinality(NonPublies')
                          /\ \A e \in NonPublies' : Rang(e)' < Haut =>
                               Couverte(e) \/ \E i \in DOMAIN lot : FoyerDe[lot[i]] = FoyerDe[e]
      BY <1>1, <2>2, <2>7, <2>8 DEF PageSuivie
    <3>2. /\ Haut <= Cardinality(NonPublies)
          /\ \A e \in NonPublies : Rang(e) < Haut =>
               Couverte(e) \/ \E i \in DOMAIN lot : FoyerDe[lot[i]] = FoyerDe[e]
      BY <3>1 DEF Suivi, PageSuivie
    <3>3. \A e \in NonPublies' : Rang(e)' < Haut => e \in NonPublies
      BY <2>4, <2>6, <2>8, <2>9, <3>2
    <3> QED BY <2>4, <2>5, <2>8, <3>2, <3>3
  <2>12. LotSuivi'
    <3>1. SUFFICES ASSUME etape \in {"publication", "marquage"}, NEW i \in DOMAIN lot,
                          NEW e \in NonPublies', OccurredAt(e) < OccurredAt(lot[i])
                   PROVE  Couverte(e) \/ \E j \in 1 .. i - 1 : lot[j] = e
      BY <1>1, <2>2, <2>7 DEF LotSuivi, OccurredAt
    <3>2. lot[i] \in NonPublies
      BY <1>2 DEF NonPublies, LotFrais, Inv, LotCommis
    <3>3. e \in NonPublies
      <4>1. OccurredAt(lot[i]) \in Nat /\ OccurredAt(lot[i]) < debut[t] /\ debut[t] \in Nat
        BY <1>2, <2>1, <3>2
      <4> QED BY <2>2, <3>1, <4>1
    <3> QED BY <3>1, <3>3 DEF Suivi, LotSuivi
  <2> QED BY <1>3, <2>10, <2>11, <2>12 DEF Suivi
<1> QED BY <1>4, <1>5

\* Every step that does not move the rows under the OFFSET keeps the order.
LEMMA SuiviNext ==
  ASSUME Inv, DatesOrdonnees, LotFrais, Suivi, [Next]_vars, ~decale' PROVE Suivi'
<1>1. ASSUME NEW t \in Transactions, Commencer(t) PROVE Suivi'
  <2>1. /\ txEtat[t] = "absente" /\ heure' = heure + 1
        /\ debut' = [debut EXCEPT ![t] = heure + 1]
        /\ txEtat' = [txEtat EXCEPT ![t] = "ouverte"]
        /\ UNCHANGED <<fin, publies, flux, etape, page, lot, pleine, publiees, attente>>
    BY <1>1 DEF Commencer, fluxVars, relaisVars
  <2>2. /\ txEtat \in [Transactions -> Etats] /\ debut \in [Transactions -> Nat]
        /\ TxDe \in [Evenements -> Transactions]
        /\ lot \in Seq(Evenements) /\ flux \in Seq(Evenements)
    BY ConstantesOutbox DEF Inv, TypeOK
  <2>3. NonPublies' = NonPublies
    BY <2>1, <2>2 DEF NonPublies, Valide
  <2>4. \A e \in Evenements : Valide(e) => OccurredAt(e)' = OccurredAt(e)
    BY <2>1, <2>2 DEF OccurredAt, Valide
  <2>5. \A e \in NonPublies : Rang(e)' = Rang(e)
    <3> SUFFICES ASSUME NEW e \in NonPublies PROVE Rang(e)' = Rang(e)
      OBVIOUS
    <3>1. {g \in NonPublies : OccurredAt(g) < OccurredAt(e)}'
            = {g \in NonPublies : OccurredAt(g) < OccurredAt(e)}
      <4>1. {g \in NonPublies : OccurredAt(g) < OccurredAt(e)}'
              = {g \in NonPublies : OccurredAt(g)' < OccurredAt(e)'}
        BY <2>3
      <4>2. \A g \in NonPublies : OccurredAt(g)' = OccurredAt(g)
        BY <2>4 DEF NonPublies
      <4> QED BY <4>1, <4>2
    <3> QED BY <3>1 DEF Rang
  <2>6. \A i \in DOMAIN lot : Valide(lot[i]) /\ lot[i] \in Evenements
    BY <2>2 DEF Inv, LotCommis
  <2>7. \A j \in DOMAIN flux : Valide(flux[j]) /\ flux[j] \in Evenements
    BY <2>2 DEF Inv, PasDeFantome, DansFlux
  <2>8. OrdreParFoyer'
    <3>1. \A e \in Evenements, f \in Evenements : Valide(f) => (Precede(e, f)' <=> Precede(e, f))
      BY <2>1, <2>4 DEF Precede, OccurredAt
    <3> QED BY <2>1, <2>7, <3>1 DEF Suivi, OrdreParFoyer
  <2>9. LectureSuivie' /\ PageSuivie'
    BY <2>1, <2>3, <2>5 DEF Suivi, LectureSuivie, PageSuivie, Bas, Haut, Couverte
  <2>10. LotSuivi'
    <3>1. \A i \in DOMAIN lot : OccurredAt(lot[i])' = OccurredAt(lot[i])
      BY <2>1, <2>2, <2>6 DEF OccurredAt, Valide
    <3>2. \A e \in NonPublies : OccurredAt(e)' = OccurredAt(e) /\ (Couverte(e)' <=> Couverte(e))
      BY <2>1, <2>4 DEF NonPublies, Couverte
    <3> QED BY <2>1, <2>3, <3>1, <3>2 DEF Suivi, LotSuivi
  <2> QED BY <2>8, <2>9, <2>10 DEF Suivi
<1>2. ASSUME NEW t \in Transactions, Valider(t) PROVE Suivi'
  BY <1>2, SuiviValider
<1>3. ASSUME NEW t \in Transactions, Annuler(t) PROVE Suivi'
  <2>1. /\ txEtat[t] = "ouverte" /\ txEtat' = [txEtat EXCEPT ![t] = "annulee"]
        /\ UNCHANGED <<debut, fin, publies, flux, etape, page, lot, pleine, publiees, attente>>
    BY <1>3 DEF Annuler, fluxVars, relaisVars
  <2>2. /\ txEtat \in [Transactions -> Etats] /\ TxDe \in [Evenements -> Transactions]
    BY ConstantesOutbox DEF Inv, TypeOK
  <2>3. NonPublies' = NonPublies
    BY <2>1, <2>2 DEF NonPublies, Valide
  <2>4. \A e \in NonPublies : Rang(e)' = Rang(e)
    <3> SUFFICES ASSUME NEW e \in NonPublies PROVE Rang(e)' = Rang(e)
      OBVIOUS
    <3>1. {g \in NonPublies : OccurredAt(g) < OccurredAt(e)}'
            = {g \in NonPublies : OccurredAt(g) < OccurredAt(e)}
      BY <2>1, <2>3 DEF OccurredAt
    <3> QED BY <3>1 DEF Rang
  <2>5. OrdreParFoyer'
    BY <2>1 DEF Suivi, OrdreParFoyer, Precede
  <2>6. LectureSuivie' /\ PageSuivie'
    BY <2>1, <2>3, <2>4 DEF Suivi, LectureSuivie, PageSuivie, Bas, Haut, Couverte
  <2>7. LotSuivi'
    BY <2>1, <2>3 DEF Suivi, LotSuivi, Couverte, OccurredAt
  <2> QED BY <2>5, <2>6, <2>7 DEF Suivi
<1>4. CASE DemarrerCycle
  BY <1>4, SuiviDemarrer
<1>5. CASE LirePage
  BY <1>5, SuiviLire
<1>6. CASE LireEchec \/ Redemarrer
  BY <1>6, SuiviAuRepos DEF LireEchec, Redemarrer, txVars, fluxVars
<1>7. CASE Differer
  <2>1. /\ etape = "publication" /\ lot # <<>> /\ lot' = Tail(lot) /\ FoyerDe[Head(lot)] \in attente
        /\ UNCHANGED <<txEtat, debut, fin, publies, flux, etape, page, pleine, publiees, attente>>
    BY <1>7 DEF Differer, txVars, fluxVars
  <2>2. PICK f \in Evenements : f = Head(lot)
    BY <2>1, TeteCommise
  <2>3. Couverte(f)'
    BY <2>1, <2>2 DEF Couverte
  <2>4. LectureSuivie' /\ PageSuivie' /\ LotSuivi'
    BY <2>1, <2>2, <2>3, TeteRetenue
  <2>5. OrdreParFoyer'
    BY <2>1 DEF Suivi, OrdreParFoyer, Precede
  <2> QED BY <2>4, <2>5 DEF Suivi
<1>8. ASSUME NEW f \in Evenements, Publier(f) PROVE Suivi'
  <2>1. /\ EnPublication(f) /\ Stocker(f) /\ etape = "publication" /\ etape' = "marquage"
        /\ UNCHANGED <<txEtat, debut, fin, publies, page, lot, pleine, publiees, attente>>
    BY <1>8 DEF Publier, EnPublication, txVars
  <2>2. /\ NonPublies' = NonPublies
        /\ \A e \in NonPublies : Rang(e)' = Rang(e) /\ (Couverte(e)' <=> Couverte(e))
    BY <2>1, RangInchange DEF NonPublies, Couverte
  <2>3. LectureSuivie' /\ PageSuivie' /\ LotSuivi'
    BY <2>1, <2>2 DEF Suivi, LectureSuivie, PageSuivie, LotSuivi, Haut, OccurredAt
  <2>4. OrdreParFoyer'
    BY <2>1, StockerEnOrdre
  <2> QED BY <2>3, <2>4 DEF Suivi
<1>9. ASSUME NEW f \in Evenements, PublierEchec(f) \/ PublierSansReponse(f) \/ MarquerEchec(f)
      PROVE  Suivi'
  <2>1. /\ etape \in {"publication", "marquage"} /\ lot # <<>> /\ f = Head(lot) /\ Retenir(f)
        /\ UNCHANGED <<txEtat, debut, fin, publies>>
    BY <1>9 DEF PublierEchec, PublierSansReponse, MarquerEchec, EnPublication, Inv, EnMarquage, txVars
  <2>2. /\ lot' = Tail(lot) /\ etape' = "publication" /\ attente \subseteq attente'
        /\ attente' = attente \cup ({FoyerDe[f]} \ {SansFoyer})
        /\ UNCHANGED <<page, pleine, publiees>>
    BY <2>1 DEF Retenir
  <2>3. Couverte(f)'
    BY <2>2 DEF Couverte
  <2>4. LectureSuivie' /\ PageSuivie' /\ LotSuivi'
    BY <2>1, <2>2, <2>3, TeteRetenue
  <2>5. CASE UNCHANGED flux
    <3>1. OrdreParFoyer'
      BY <2>1, <2>5 DEF Suivi, OrdreParFoyer, Precede
    <3> QED BY <2>4, <3>1 DEF Suivi
  <2>6. CASE PublierSansReponse(f)
    <3>1. OrdreParFoyer'
      BY <2>1, <2>6, StockerEnOrdre DEF PublierSansReponse
    <3> QED BY <2>4, <3>1 DEF Suivi
  <2> QED BY <1>9, <2>5, <2>6 DEF PublierEchec, MarquerEchec, fluxVars
<1>10. ASSUME NEW f \in Evenements, Marquer(f) PROVE Suivi'
  BY <1>10, SuiviMarquer
<1>11. ASSUME NEW f \in Evenements, MarquerSansReponse(f) PROVE Suivi'
  BY <1>11 DEF MarquerSansReponse
<1>12. CASE FinDePage
  BY <1>12, SuiviFinDePage
<1>13. CASE PerdreConnexion \/ Reconnecter \/ (\E e \in Evenements : OublierDoublon(e)) \/ UNCHANGED vars
  <2>1. UNCHANGED <<txEtat, debut, fin, publies, flux, etape, page, lot, pleine, publiees, attente>>
    BY <1>13 DEF PerdreConnexion, Reconnecter, OublierDoublon, vars, txVars, fluxVars, relaisVars
  <2> QED BY <2>1, SuiviInchange
<1> QED
  BY <1>1, <1>2, <1>3, <1>4, <1>5, <1>6, <1>7, <1>8, <1>9, <1>10, <1>11, <1>12, <1>13
  DEF Next, Commandes, Cycle, Environnement

\* Once the rows have moved under a cycle, the history remembers it.
LEMMA DecaleRemanent == Inv /\ [Next]_vars /\ decale => decale'
<1> SUFFICES ASSUME Inv, [Next]_vars, decale PROVE decale'
  OBVIOUS
<1>1. CASE Commandes
  BY <1>1 DEF Commandes, Commencer, Valider, Annuler
<1>2. CASE Cycle
  BY <1>2 DEF Cycle, DemarrerCycle, LirePage, LireEchec, Differer, Publier, PublierEchec,
              PublierSansReponse, Marquer, MarquerEchec, MarquerSansReponse, FinDePage, txVars
<1>3. CASE Environnement \/ UNCHANGED vars
  BY <1>3 DEF Environnement, Redemarrer, PerdreConnexion, Reconnecter, OublierDoublon, vars, txVars
<1> QED BY <1>1, <1>2, <1>3 DEF Next

LEMMA InvOrdreNext == InvOrdre /\ [Next]_vars => InvOrdre'
<1> SUFFICES ASSUME InvOrdre, [Next]_vars PROVE InvOrdre'
  OBVIOUS
<1>1. Inv /\ DatesOrdonnees /\ LotFrais /\ (~decale => Suivi)
  BY DEF InvOrdre
<1>2. Inv' /\ DatesOrdonnees' /\ LotFrais'
  BY <1>1, InvNext, DatesNext, LotFraisNext
<1>3. ASSUME ~decale' PROVE Suivi'
  BY <1>1, <1>3, DecaleRemanent, SuiviNext
<1> QED BY <1>2, <1>3 DEF InvOrdre

\* The order of publierLot within a household, whatever fails or restarts,
\* unless the rows moved under the OFFSET of a cycle.
THEOREM OrdreDesFoyers == Spec => []OrdreTenu
<1>1. InvOrdre => OrdreTenu
  BY DEF InvOrdre, Suivi, OrdreTenu
<1> QED BY InvOrdreInit, InvOrdreNext, <1>1, PTL DEF Spec
=============================================================================
