-------------------------- MODULE RecapHebdo_proofs --------------------------
(***************************************************************************)
(* Proofs about RecapHebdo, for any number of instances, households and    *)
(* parents, any cap, and every fault of the environment: what the          *)
(* compare-and-sets of EnvoiRecapService protect is protected from every   *)
(* interleaving of the instances, and a delivery in the ledger is backed   *)
(* by a mail.                                                              *)
(***************************************************************************)
EXTENDS RecapHebdo, TLAPS

\* The steps of one slot, during which an instance has a household in hand.
PhasesSlot == {"vide", "destinataires", "registre", "repli", "parent", "journal",
               "journalEchec", "inapp", "abouti", "echecSlot"}

(***************************************************************************)
(* What the locals of an instance say: a household in hand during a slot,  *)
(* a recipient in hand while its outcome is written, and, when the outcome *)
(* to write is a delivery, a mail that this recipient did receive.         *)
(***************************************************************************)
FoyerEnMain == \A r \in Repliques : etape[r] \in PhasesSlot => foyer[r] \in Foyers

CibleEnMain ==
  \A r \in Repliques : etape[r] \in {"journal", "journalEchec"} => cible[r] \in Parents

MailEnMain ==
  \A r \in Repliques :
    etape[r] = "journal" /\ cible[r] \notin HorsListe => mails[cible[r]] > 0

Inv == TypeOK /\ FoyerEnMain /\ CibleEnMain /\ MailEnMain /\ PreuveDeMail

\* A counter of the history stays in its range and counts.
LEMMA CompterBorne ==
  ASSUME NEW n \in 0 .. COMPTE_MAX
  PROVE  Compter(n) \in 1 .. COMPTE_MAX
  BY ConstantesRecap DEF Compter

\* The ledger of a slot that nobody reads is well typed.
LEMMA RegistreVideType == RegistreVide \in [Parents -> Livraisons]
  BY DEF RegistreVide, Livraisons

\* The scheduler starts in Inv.
LEMMA InvInit == Init => Inv
<1> SUFFICES ASSUME Init PROVE Inv
  OBVIOUS
<1>1. TypeOK
  BY ConstantesRecap, RegistreVideType
  DEF Init, TypeOK, Moments, Slots, NonTermines, Terminaux, Aboutis, Etapes
<1>2. FoyerEnMain /\ CibleEnMain /\ MailEnMain
  BY DEF Init, FoyerEnMain, CibleEnMain, MailEnMain, PhasesSlot
<1>3. PreuveDeMail
  BY DEF Init, PreuveDeMail, RegistreVide
<1> QED BY <1>1, <1>2, <1>3 DEF Inv

\* The end of a tick, or a stop, forgets the locals and writes a slot at most.
LEMMA OublierGarde ==
  ASSUME Inv, NEW r \in Repliques, Oublier(r), slot' \in [Foyers -> Slots],
         UNCHANGED <<moment, projVars, livraison, cartes, histVars>>
  PROVE  Inv'
<1>1. UNCHANGED <<moment, contrats, abonnes, livraison, cartes, mails, signaux, fideles>>
  BY DEF projVars, histVars
<1>2. TypeOK'
  BY <1>1, RegistreVideType
  DEF Inv, Oublier, OublierSlot, Aller, TypeOK, Etapes, Moments
<1>3. FoyerEnMain' /\ CibleEnMain' /\ MailEnMain'
  BY <1>1
  DEF Inv, Oublier, OublierSlot, Aller, TypeOK, FoyerEnMain, CibleEnMain, MailEnMain, PhasesSlot
<1>4. PreuveDeMail'
  BY <1>1 DEF Inv, PreuveDeMail
<1> QED BY <1>2, <1>3, <1>4 DEF Inv

\* The compare-and-set that settles a slot.
LEMMA AboutirGarde ==
  ASSUME Inv, NEW r \in Repliques, NEW issue \in {"ENVOYE", "DRY_RUN", "ECHEC"},
         Aboutir(r, issue)
  PROVE  Inv'
<1>1. UNCHANGED <<moment, contrats, abonnes, livraison, cartes, mails, signaux, fideles,
                  instant, reste, vusActifs>>
  BY DEF Aboutir, projVars, histVars
<1>2. TypeOK'
  BY <1>1, RegistreVideType
  DEF Inv, Aboutir, Basculer, OublierSlot, Aller, TypeOK, Etapes, Slots, NonTermines, Terminaux,
      Aboutis
<1>3. FoyerEnMain' /\ CibleEnMain' /\ MailEnMain'
  BY <1>1
  DEF Inv, Aboutir, Basculer, OublierSlot, Aller, TypeOK, FoyerEnMain, CibleEnMain, MailEnMain, PhasesSlot
<1>4. PreuveDeMail'
  BY <1>1 DEF Inv, PreuveDeMail
<1> QED BY <1>2, <1>3, <1>4 DEF Inv

\* The upserts of the ledger, of a delivery and of a failure.
LEMMA LivrerGarde ==
  ASSUME Inv, NEW r \in Repliques, etape[r] = "journal", Livrer(r), mails' = mails
  PROVE  livraison' \in [Parents -> Livraisons] /\ PreuveDeMail'
<1>1. cible[r] \in Parents /\ livraison \in [Parents -> Livraisons]
  BY DEF Inv, TypeOK, CibleEnMain
<1>2. [livraison[cible[r]] EXCEPT !.statut = Issue(cible[r] \in HorsListe)] \in Livraisons
  BY <1>1 DEF Livraisons, Issue, Aboutis
<1>3. livraison' \in [Parents -> Livraisons]
  BY <1>1, <1>2 DEF Livrer
<1>4. PreuveDeMail'
  BY <1>1 DEF Inv, Livrer, Issue, Livre, PreuveDeMail, MailEnMain, Aboutis, Livraisons
<1> QED BY <1>3, <1>4

LEMMA ManquerGarde ==
  ASSUME Inv, NEW r \in Repliques, etape[r] = "journalEchec", Manquer(r), mails' = mails
  PROVE  livraison' \in [Parents -> Livraisons] /\ PreuveDeMail'
<1>1. cible[r] \in Parents /\ livraison \in [Parents -> Livraisons]
  BY DEF Inv, TypeOK, CibleEnMain
<1>2. livraison' \in [Parents -> Livraisons]
  BY <1>1 DEF Manquer, Livraisons
<1>3. PreuveDeMail'
  BY <1>1 DEF Inv, Manquer, Livre, PreuveDeMail, Aboutis, Livraisons
<1> QED BY <1>2, <1>3

\* The UPDATE of a slot by marquerAbouti or marquerEchec.
LEMMA BasculerGarde ==
  ASSUME Inv, NEW r \in Repliques, NEW issue \in {"ENVOYE", "DRY_RUN", "ECHEC"},
         Basculer(r, issue)
  PROVE  slot' \in [Foyers -> Slots]
  BY DEF Inv, TypeOK, Basculer, Slots, NonTermines, Terminaux, Aboutis

\* A step of the environment, of the sweep or of the reservation.
LEMMA InvEntreSlots ==
  ASSUME Inv, NEW r \in Repliques,
         \/ Declencher(r) \/ Balayer(r) \/ LireContrats(r) \/ FinReservation(r)
         \/ LireSlots(r) \/ LireActifs(r) \/ FinDeTick(r) \/ Interrompre(r) \/ Redemarrer(r)
         \/ \E f \in Foyers :
              Abandonner(r, f) \/ AbandonnerMuet(r, f) \/ Reserver(r, f) \/ PrendreSlot(r, f)
  PROVE  Inv'
<1>1. CASE Declencher(r)
  <2>1. TypeOK'
    BY <1>1
    DEF Inv, TypeOK, Declencher, Aller, Etapes, Moments, projVars, baseVars, histVars, localVars
  <2>2. FoyerEnMain' /\ CibleEnMain' /\ MailEnMain'
    BY <1>1
    DEF Inv, TypeOK, Declencher, Aller, FoyerEnMain, CibleEnMain, MailEnMain, PhasesSlot,
        projVars, baseVars, histVars, localVars
  <2>3. PreuveDeMail'
    BY <1>1 DEF Inv, TypeOK, Declencher, PreuveDeMail, projVars, baseVars, histVars, localVars
  <2> QED BY <2>1, <2>2, <2>3 DEF Inv
<1>2. CASE Balayer(r)
  <2>1. TypeOK'
    <3>1. etape' \in [Repliques -> Etapes]
      BY <1>2 DEF Inv, TypeOK, Balayer, Aller, Etapes
    <3>2. reste' \in [Repliques -> SUBSET Foyers]
      <4>1. {f \in Foyers : slot[f] \in NonTermines} \in SUBSET Foyers
        OBVIOUS
      <4>2. reste \in [Repliques -> SUBSET Foyers]
        BY DEF Inv, TypeOK
      <4> QED BY <1>2, <4>1, <4>2 DEF Balayer
    <3> QED BY <1>2, <3>1, <3>2 DEF Inv, TypeOK, Balayer, projVars, baseVars, histVars
  <2>2. FoyerEnMain' /\ CibleEnMain' /\ MailEnMain'
    BY <1>2
    DEF Inv, TypeOK, Balayer, Aller, FoyerEnMain, CibleEnMain, MailEnMain, PhasesSlot, projVars,
        baseVars, histVars, localVars
  <2>3. PreuveDeMail'
    BY <1>2 DEF Inv, TypeOK, Balayer, PreuveDeMail, projVars, baseVars, histVars, localVars
  <2> QED BY <2>1, <2>2, <2>3 DEF Inv
<1>3. CASE LireContrats(r)
  <2>1. TypeOK'
    BY <1>3
    DEF Inv, TypeOK, LireContrats, Aller, Etapes, projVars, baseVars, histVars, localVars
  <2>2. FoyerEnMain' /\ CibleEnMain' /\ MailEnMain'
    BY <1>3
    DEF Inv, TypeOK, LireContrats, Aller, FoyerEnMain, CibleEnMain, MailEnMain, PhasesSlot,
        projVars, baseVars, histVars, localVars
  <2>3. PreuveDeMail'
    BY <1>3 DEF Inv, TypeOK, LireContrats, PreuveDeMail, projVars, baseVars, histVars, localVars
  <2> QED BY <2>1, <2>2, <2>3 DEF Inv
<1>4. CASE FinReservation(r)
  <2>1. TypeOK'
    BY <1>4
    DEF Inv, TypeOK, FinReservation, Aller, Etapes, projVars, baseVars, histVars, localVars
  <2>2. FoyerEnMain' /\ CibleEnMain' /\ MailEnMain'
    BY <1>4
    DEF Inv, TypeOK, FinReservation, Aller, FoyerEnMain, CibleEnMain, MailEnMain, PhasesSlot,
        projVars, baseVars, histVars, localVars
  <2>3. PreuveDeMail'
    BY <1>4 DEF Inv, TypeOK, FinReservation, PreuveDeMail, projVars, baseVars, histVars, localVars
  <2> QED BY <2>1, <2>2, <2>3 DEF Inv
<1>5. CASE LireSlots(r)
  <2>1. TypeOK'
    BY <1>5
    DEF Inv, TypeOK, LireSlots, Aller, Etapes, projVars, baseVars, histVars, localVars
  <2>2. FoyerEnMain' /\ CibleEnMain' /\ MailEnMain'
    BY <1>5
    DEF Inv, TypeOK, LireSlots, Aller, FoyerEnMain, CibleEnMain, MailEnMain, PhasesSlot,
        projVars, baseVars, histVars, localVars
  <2>3. PreuveDeMail'
    BY <1>5 DEF Inv, TypeOK, LireSlots, PreuveDeMail, projVars, baseVars, histVars, localVars
  <2> QED BY <2>1, <2>2, <2>3 DEF Inv
<1>6. CASE LireActifs(r)
  <2>1. TypeOK'
    BY <1>6
    DEF Inv, TypeOK, LireActifs, Aller, Etapes, projVars, baseVars, histVars, localVars
  <2>2. FoyerEnMain' /\ CibleEnMain' /\ MailEnMain'
    BY <1>6
    DEF Inv, TypeOK, LireActifs, Aller, FoyerEnMain, CibleEnMain, MailEnMain, PhasesSlot,
        projVars, baseVars, histVars, localVars
  <2>3. PreuveDeMail'
    BY <1>6 DEF Inv, TypeOK, LireActifs, PreuveDeMail, projVars, baseVars, histVars, localVars
  <2> QED BY <2>1, <2>2, <2>3 DEF Inv
<1>7. ASSUME NEW f \in Foyers, Abandonner(r, f) PROVE Inv'
  <2>1. TypeOK'
    <3>1. reste' \in [Repliques -> SUBSET Foyers]
      BY <1>7 DEF Inv, TypeOK, Abandonner
    <3>2. slot' \in [Foyers -> Slots]
      BY <1>7 DEF Inv, TypeOK, Abandonner, Slots, Terminaux
    <3>3. signaux' \in [Foyers -> 0 .. COMPTE_MAX]
      <4>1. signaux[f] \in 0 .. COMPTE_MAX /\ signaux \in [Foyers -> 0 .. COMPTE_MAX]
        BY DEF Inv, TypeOK
      <4>2. Compter(signaux[f]) \in 0 .. COMPTE_MAX
        BY <4>1, CompterBorne
      <4> QED BY <1>7, <4>1, <4>2 DEF Abandonner
    <3> QED BY <1>7, <3>1, <3>2, <3>3 DEF Inv, TypeOK, Abandonner, projVars
  <2>2. FoyerEnMain' /\ CibleEnMain' /\ MailEnMain'
    BY <1>7, CompterBorne
    DEF Inv, TypeOK, Abandonner, Aller, FoyerEnMain, CibleEnMain, MailEnMain, PhasesSlot,
        projVars, baseVars, histVars, localVars
  <2>3. PreuveDeMail'
    BY <1>7, CompterBorne
    DEF Inv, TypeOK, Abandonner, PreuveDeMail, projVars, baseVars, histVars, localVars
  <2> QED BY <2>1, <2>2, <2>3 DEF Inv
<1>8. ASSUME NEW f \in Foyers, Reserver(r, f) PROVE Inv'
  <2>1. TypeOK'
    BY <1>8
    DEF Inv, TypeOK, Reserver, Aller, Etapes, Slots, NonTermines, Terminaux, Aboutis, projVars,
        baseVars, histVars, localVars
  <2>2. FoyerEnMain' /\ CibleEnMain' /\ MailEnMain'
    BY <1>8
    DEF Inv, TypeOK, Reserver, Aller, FoyerEnMain, CibleEnMain, MailEnMain, PhasesSlot,
        projVars, baseVars, histVars, localVars
  <2>3. PreuveDeMail'
    BY <1>8 DEF Inv, TypeOK, Reserver, PreuveDeMail, projVars, baseVars, histVars, localVars
  <2> QED BY <2>1, <2>2, <2>3 DEF Inv
<1>9. ASSUME NEW f \in Foyers, PrendreSlot(r, f) PROVE Inv'
  <2>1. TypeOK'
    BY <1>9
    DEF Inv, TypeOK, PrendreSlot, Aller, Etapes, projVars, baseVars, histVars, localVars
  <2>2. FoyerEnMain' /\ CibleEnMain' /\ MailEnMain'
    BY <1>9
    DEF Inv, TypeOK, PrendreSlot, Aller, FoyerEnMain, CibleEnMain, MailEnMain, PhasesSlot,
        projVars, baseVars, histVars, localVars
  <2>3. PreuveDeMail'
    BY <1>9 DEF Inv, TypeOK, PrendreSlot, PreuveDeMail, projVars, baseVars, histVars, localVars
  <2> QED BY <2>1, <2>2, <2>3 DEF Inv
<1>10. CASE FinDeTick(r) \/ Interrompre(r) \/ Redemarrer(r)
  <2>1. slot' = slot
    BY <1>10 DEF FinDeTick, Interrompre, Redemarrer, baseVars
  <2> QED BY <1>10, <2>1, OublierGarde
      DEF FinDeTick, Interrompre, Redemarrer, baseVars, Inv, TypeOK
<1>11. ASSUME NEW f \in Foyers, AbandonnerMuet(r, f) PROVE Inv'
  <2>1. slot' \in [Foyers -> Slots]
    BY <1>11 DEF Inv, TypeOK, AbandonnerMuet, Slots, Terminaux
  <2> QED BY <1>11, <2>1, OublierGarde DEF AbandonnerMuet
<1> QED BY <1>1, <1>2, <1>3, <1>4, <1>5, <1>6, <1>7, <1>8, <1>9, <1>10, <1>11

\* A step inside a slot.
LEMMA InvDansSlot ==
  ASSUME Inv, NEW r \in Repliques, TraiterSlot(r)
  PROVE  Inv'
<1>1. CASE CloturerVide(r) \/ MarquerAbouti(r) \/ MarquerEchec(r)
  BY <1>1, AboutirGarde DEF CloturerVide, MarquerAbouti, MarquerEchec, Issue
<1>2. CASE LireDestinataires(r)
  <2>1. TypeOK'
    BY <1>2
    DEF Inv, TypeOK, LireDestinataires, Aller, Etapes, projVars, baseVars, histVars, localVars
  <2>2. FoyerEnMain' /\ CibleEnMain' /\ MailEnMain'
    BY <1>2
    DEF Inv, TypeOK, LireDestinataires, Aller, FoyerEnMain, CibleEnMain, MailEnMain, PhasesSlot,
        projVars, baseVars, histVars, localVars
  <2>3. PreuveDeMail'
    BY <1>2
    DEF Inv, TypeOK, LireDestinataires, PreuveDeMail, projVars, baseVars, histVars, localVars
  <2> QED BY <2>1, <2>2, <2>3 DEF Inv
<1>3. CASE LireRegistre(r)
  <2>1. TypeOK'
    BY <1>3
    DEF Inv, TypeOK, LireRegistre, Aller, Etapes, projVars, baseVars, histVars, localVars
  <2>2. FoyerEnMain' /\ CibleEnMain' /\ MailEnMain'
    BY <1>3
    DEF Inv, TypeOK, LireRegistre, Aller, FoyerEnMain, CibleEnMain, MailEnMain, PhasesSlot,
        projVars, baseVars, histVars, localVars
  <2>3. PreuveDeMail'
    BY <1>3 DEF Inv, TypeOK, LireRegistre, PreuveDeMail, projVars, baseVars, histVars, localVars
  <2> QED BY <2>1, <2>2, <2>3 DEF Inv
<1>4. CASE EnvoyerRepli(r)
  <2>1. TypeOK'
    BY <1>4
    DEF Inv, TypeOK, EnvoyerRepli, Aller, Etapes, projVars, baseVars, histVars, localVars
  <2>2. FoyerEnMain' /\ CibleEnMain' /\ MailEnMain'
    BY <1>4
    DEF Inv, TypeOK, EnvoyerRepli, Aller, FoyerEnMain, CibleEnMain, MailEnMain, PhasesSlot,
        projVars, baseVars, histVars, localVars
  <2>3. PreuveDeMail'
    BY <1>4 DEF Inv, TypeOK, EnvoyerRepli, PreuveDeMail, projVars, baseVars, histVars, localVars
  <2> QED BY <2>1, <2>2, <2>3 DEF Inv
<1>5. ASSUME NEW p \in Parents, Sauter(r, p) PROVE Inv'
  <2>1. TypeOK'
    BY <1>5
    DEF Inv, TypeOK, Sauter, Retirer, Aller, Etapes, projVars, baseVars, histVars, localVars
  <2>2. FoyerEnMain' /\ CibleEnMain' /\ MailEnMain'
    BY <1>5
    DEF Inv, TypeOK, Sauter, Retirer, Aller, FoyerEnMain, CibleEnMain, MailEnMain, PhasesSlot,
        projVars, baseVars, histVars, localVars
  <2>3. PreuveDeMail'
    BY <1>5
    DEF Inv, TypeOK, Sauter, Retirer, PreuveDeMail, projVars, baseVars, histVars, localVars
  <2> QED BY <2>1, <2>2, <2>3 DEF Inv
<1>6. ASSUME NEW p \in Parents, Envoyer(r, p) PROVE Inv'
  <2>1. TypeOK'
    BY <1>6, CompterBorne
    DEF Inv, TypeOK, Envoyer, Aller, Etapes, AEnvoyer, projVars, baseVars, histVars, localVars
  <2>2. FoyerEnMain' /\ CibleEnMain' /\ MailEnMain'
    BY <1>6, CompterBorne
    DEF Inv, TypeOK, Envoyer, Aller, FoyerEnMain, CibleEnMain, MailEnMain, PhasesSlot, AEnvoyer,
        projVars, baseVars, histVars, localVars
  <2>3. PreuveDeMail'
    BY <1>6, CompterBorne
    DEF Inv, TypeOK, Envoyer, PreuveDeMail, AEnvoyer, projVars, baseVars, histVars, localVars
  <2> QED BY <2>1, <2>2, <2>3 DEF Inv
<1>7. ASSUME NEW p \in Parents, EnvoyerEchec(r, p) PROVE Inv'
  <2>1. TypeOK'
    BY <1>7, CompterBorne
    DEF Inv, TypeOK, EnvoyerEchec, Aller, Etapes, AEnvoyer, projVars, baseVars, histVars,
        localVars
  <2>2. FoyerEnMain' /\ CibleEnMain' /\ MailEnMain'
    <3>1. mails[p] \in 0 .. COMPTE_MAX /\ mails \in [Parents -> 0 .. COMPTE_MAX]
      BY DEF Inv, TypeOK
    <3>2. Compter(mails[p]) > 0
      BY <3>1, CompterBorne
    <3>3. \A q \in Parents : mails[q] > 0 => mails'[q] > 0
      BY <1>7, <3>1, <3>2 DEF EnvoyerEchec
    <3>4. /\ etape' = [etape EXCEPT ![r] = "journalEchec"]
          /\ cible' = [cible EXCEPT ![r] = p]
          /\ foyer' = foyer /\ etape[r] = "parent"
      BY <1>7 DEF EnvoyerEchec, AEnvoyer, Aller
    <3>5. FoyerEnMain' /\ CibleEnMain'
      BY <3>4 DEF Inv, TypeOK, FoyerEnMain, CibleEnMain, PhasesSlot
    <3>6. MailEnMain'
      BY <3>3, <3>4 DEF Inv, TypeOK, CibleEnMain, MailEnMain
    <3> QED BY <3>5, <3>6
  <2>3. PreuveDeMail'
    <3>1. mails[p] \in 0 .. COMPTE_MAX /\ mails \in [Parents -> 0 .. COMPTE_MAX]
      BY DEF Inv, TypeOK
    <3>2. Compter(mails[p]) > 0
      BY <3>1, CompterBorne
    <3>3. \A q \in Parents : mails[q] > 0 => mails'[q] > 0
      BY <1>7, <3>1, <3>2 DEF EnvoyerEchec
    <3> QED BY <1>7, <3>3 DEF Inv, EnvoyerEchec, PreuveDeMail, baseVars
  <2> QED BY <2>1, <2>2, <2>3 DEF Inv
<1>8. CASE Journaliser(r)
  <2>1. livraison' \in [Parents -> Livraisons] /\ PreuveDeMail'
    BY <1>8, LivrerGarde DEF Journaliser, histVars
  <2>2. TypeOK'
    BY <1>8, <2>1
    DEF Inv, TypeOK, CibleEnMain, Journaliser, Retirer, Aller, Etapes, projVars, histVars
  <2>3. FoyerEnMain' /\ CibleEnMain' /\ MailEnMain'
    BY <1>8
    DEF Inv, TypeOK, Journaliser, Retirer, Aller, FoyerEnMain, CibleEnMain,
        MailEnMain, PhasesSlot, projVars, baseVars, histVars, localVars
  <2> QED BY <2>1, <2>2, <2>3 DEF Inv
<1>9. CASE JournaliserPerdu(r)
  <2>1. livraison' \in [Parents -> Livraisons] /\ PreuveDeMail'
    <3>1. CASE Livrer(r)
      BY <1>9, <3>1, LivrerGarde DEF JournaliserPerdu, histVars
    <3>2. CASE UNCHANGED livraison
      BY <1>9, <3>2 DEF Inv, TypeOK, JournaliserPerdu, PreuveDeMail, histVars
    <3> QED BY <1>9, <3>1, <3>2 DEF JournaliserPerdu
  <2>2. TypeOK'
    BY <1>9, <2>1
    DEF Inv, TypeOK, JournaliserPerdu, Aller, Etapes, projVars, histVars, localVars
  <2>3. FoyerEnMain' /\ CibleEnMain' /\ MailEnMain'
    BY <1>9
    DEF Inv, TypeOK, JournaliserPerdu, Aller, FoyerEnMain, CibleEnMain, MailEnMain, PhasesSlot,
        projVars, baseVars, histVars, localVars
  <2> QED BY <2>1, <2>2, <2>3 DEF Inv
<1>10. CASE JournaliserEchec(r)
  <2>1. livraison' \in [Parents -> Livraisons] /\ PreuveDeMail'
    BY <1>10, ManquerGarde DEF JournaliserEchec, histVars
  <2>2. TypeOK'
    BY <1>10, <2>1
    DEF Inv, TypeOK, CibleEnMain, JournaliserEchec, Retirer, Aller, Etapes, projVars, histVars
  <2>3. FoyerEnMain' /\ CibleEnMain' /\ MailEnMain'
    BY <1>10
    DEF Inv, TypeOK, JournaliserEchec, Retirer, Aller, FoyerEnMain, CibleEnMain,
        MailEnMain, PhasesSlot, projVars, baseVars, histVars, localVars
  <2> QED BY <2>1, <2>2, <2>3 DEF Inv
<1>11. CASE FinDestinataires(r)
  <2>1. TypeOK'
    BY <1>11
    DEF Inv, TypeOK, FinDestinataires, Aller, Etapes, projVars, baseVars, histVars, localVars
  <2>2. FoyerEnMain' /\ CibleEnMain' /\ MailEnMain'
    BY <1>11
    DEF Inv, TypeOK, FinDestinataires, Aller, FoyerEnMain, CibleEnMain, MailEnMain, PhasesSlot,
        projVars, baseVars, histVars, localVars
  <2>3. PreuveDeMail'
    BY <1>11
    DEF Inv, TypeOK, FinDestinataires, PreuveDeMail, projVars, baseVars, histVars, localVars
  <2> QED BY <2>1, <2>2, <2>3 DEF Inv
<1>12. CASE CreerCartes(r)
  <2>1. TypeOK'
    BY <1>12, ConstantesRecap
    DEF Inv, TypeOK, CreerCartes, Aller, Etapes, FoyerEnMain, PhasesSlot, projVars, baseVars,
        histVars, localVars
  <2>2. FoyerEnMain' /\ CibleEnMain' /\ MailEnMain'
    BY <1>12, ConstantesRecap
    DEF Inv, TypeOK, CreerCartes, Aller, FoyerEnMain, CibleEnMain, MailEnMain, PhasesSlot,
        projVars, baseVars, histVars, localVars
  <2>3. PreuveDeMail'
    BY <1>12, ConstantesRecap
    DEF Inv, TypeOK, CreerCartes, PreuveDeMail, projVars, baseVars, histVars, localVars
  <2> QED BY <2>1, <2>2, <2>3 DEF Inv
<1>13. CASE Lever(r)
  <2>1. TypeOK'
    BY <1>13
    DEF Inv, TypeOK, Lever, Aller, Etapes, projVars, baseVars, histVars, localVars
  <2>2. FoyerEnMain' /\ CibleEnMain' /\ MailEnMain'
    BY <1>13
    DEF Inv, TypeOK, Lever, Aller, FoyerEnMain, CibleEnMain, MailEnMain, PhasesSlot, projVars,
        baseVars, histVars, localVars
  <2>3. PreuveDeMail'
    BY <1>13 DEF Inv, TypeOK, Lever, PreuveDeMail, projVars, baseVars, histVars, localVars
  <2> QED BY <2>1, <2>2, <2>3 DEF Inv
<1>14. CASE LeverManque(r)
  <2>1. livraison' \in [Parents -> Livraisons] /\ PreuveDeMail'
    BY <1>14, ManquerGarde DEF LeverManque, histVars
  <2>2. TypeOK'
    BY <1>14, <2>1
    DEF Inv, TypeOK, LeverManque, Aller, Etapes, projVars, histVars, localVars
  <2>3. FoyerEnMain' /\ CibleEnMain' /\ MailEnMain'
    BY <1>14
    DEF Inv, TypeOK, LeverManque, Aller, FoyerEnMain, CibleEnMain, MailEnMain, PhasesSlot,
        projVars, baseVars, histVars, localVars
  <2> QED BY <2>1, <2>2, <2>3 DEF Inv
<1>15. CASE LeverAbouti(r)
  <2>1. slot' \in [Foyers -> Slots]
    BY <1>15, BasculerGarde DEF LeverAbouti, Issue
  <2>2. TypeOK'
    BY <1>15, <2>1
    DEF Inv, TypeOK, LeverAbouti, Aller, Etapes, projVars, histVars
  <2>3. FoyerEnMain' /\ CibleEnMain' /\ MailEnMain'
    BY <1>15
    DEF Inv, TypeOK, LeverAbouti, Aller, FoyerEnMain, CibleEnMain, MailEnMain, PhasesSlot,
        projVars, histVars
  <2>4. PreuveDeMail'
    BY <1>15 DEF Inv, LeverAbouti, PreuveDeMail, histVars
  <2> QED BY <2>2, <2>3, <2>4 DEF Inv
<1>16. CASE MarquerEchecMuet(r)
  <2>1. slot' \in [Foyers -> Slots]
    BY <1>16, BasculerGarde DEF MarquerEchecMuet
  <2> QED BY <1>16, <2>1, OublierGarde DEF MarquerEchecMuet
<1> QED BY <1>1, <1>2, <1>3, <1>4, <1>5, <1>6, <1>7, <1>8, <1>9, <1>10, <1>11, <1>12, <1>13,
           <1>14, <1>15, <1>16 DEF TraiterSlot

\* Every step preserves Inv.
LEMMA InvNext == Inv /\ [Next]_vars => Inv'
<1> SUFFICES ASSUME Inv, [Next]_vars PROVE Inv'
  OBVIOUS
<1>1. CASE UNCHANGED vars
  BY <1>1 DEF vars, projVars, baseVars, histVars, localVars, Inv, TypeOK, FoyerEnMain,
              CibleEnMain, MailEnMain, PreuveDeMail
<1>2. ASSUME NEW r \in Repliques, Tick(r) PROVE Inv'
  BY <1>2, InvEntreSlots, InvDansSlot DEF Tick
<1>3. ASSUME NEW r \in Repliques, Redemarrer(r) PROVE Inv'
  BY <1>3, InvEntreSlots
<1>4. CASE \/ AvancerHorloge
           \/ \E f \in Foyers : ChangerContrat(f)
           \/ \E p \in Parents : ChangerAbonnement(p)
  BY <1>4 DEF AvancerHorloge, ChangerContrat, ChangerAbonnement, projVars, baseVars, histVars,
              localVars, Inv, TypeOK, Moments, FoyerEnMain, CibleEnMain, MailEnMain, PreuveDeMail
<1> QED BY <1>1, <1>2, <1>3, <1>4 DEF Next, Environnement

\* The types of the slots, of the ledger and of the locals of every instance.
THEOREM TypeCorrect == Spec => []TypeOK
<1>1. Inv => TypeOK
  BY DEF Inv
<1> QED BY InvInit, InvNext, <1>1, PTL DEF Spec

\* A line ENVOYE of the ledger is the trace of a mail that was delivered
\* (marquerParentAbouti is called with the outcome of mailer.envoyer).
THEOREM LivraisonProuvee == Spec => []PreuveDeMail
<1>1. Inv => PreuveDeMail
  BY DEF Inv
<1> QED BY InvInit, InvNext, <1>1, PTL DEF Spec

(***************************************************************************)
(* Which steps write a slot, and which write the ledger.                   *)
(***************************************************************************)
LEMMA EcrituresSlot ==
  ASSUME Inv, [Next]_vars
  PROVE  \/ slot' = slot
         \/ \E r \in Repliques : \E issue \in {"ENVOYE", "DRY_RUN", "ECHEC"} : Basculer(r, issue)
         \/ \E r \in Repliques : \E f \in Foyers :
              Abandonner(r, f) \/ AbandonnerMuet(r, f) \/ Reserver(r, f)
<1> USE DEF projVars, baseVars, histVars, localVars
<1>1. CASE UNCHANGED vars
  BY <1>1 DEF vars
<1>2. ASSUME NEW r \in Repliques, TraiterSlot(r)
      PROVE  \/ slot' = slot
             \/ \E issue \in {"ENVOYE", "DRY_RUN", "ECHEC"} : Basculer(r, issue)
  <2>1. CASE \/ CloturerVide(r) \/ MarquerAbouti(r) \/ MarquerEchec(r)
             \/ LeverAbouti(r) \/ MarquerEchecMuet(r)
    BY <2>1
    DEF CloturerVide, MarquerAbouti, MarquerEchec, LeverAbouti, MarquerEchecMuet, Aboutir, Issue
  <2>2. CASE ~(\/ CloturerVide(r) \/ MarquerAbouti(r) \/ MarquerEchec(r)
               \/ LeverAbouti(r) \/ MarquerEchecMuet(r))
    BY <1>2, <2>2
    DEF TraiterSlot, LireDestinataires, LireRegistre, EnvoyerRepli, Sauter, Envoyer, EnvoyerEchec,
        Journaliser, JournaliserPerdu, JournaliserEchec, FinDestinataires, CreerCartes, Lever,
        LeverManque
  <2> QED BY <2>1, <2>2
<1>3. ASSUME NEW r \in Repliques, Tick(r), ~TraiterSlot(r)
      PROVE  \/ slot' = slot
             \/ \E f \in Foyers : Abandonner(r, f) \/ AbandonnerMuet(r, f) \/ Reserver(r, f)
  BY <1>3 DEF Tick, Declencher, Balayer, LireContrats, FinReservation, LireSlots, LireActifs,
              PrendreSlot, FinDeTick, Interrompre
<1>4. CASE Environnement
  BY <1>4 DEF Environnement, AvancerHorloge, ChangerContrat, ChangerAbonnement, Redemarrer
<1> QED BY <1>1, <1>2, <1>3, <1>4 DEF Next

LEMMA EcrituresLivraison ==
  ASSUME Inv, [Next]_vars
  PROVE  \/ livraison' = livraison
         \/ \E r \in Repliques : Livrer(r) \/ Manquer(r)
<1> USE DEF projVars, baseVars, histVars, localVars
<1>1. CASE UNCHANGED vars
  BY <1>1 DEF vars
<1>2. ASSUME NEW r \in Repliques, TraiterSlot(r)
      PROVE  livraison' = livraison \/ Livrer(r) \/ Manquer(r)
  BY <1>2
  DEF TraiterSlot, CloturerVide, MarquerAbouti, MarquerEchec, Aboutir, LireDestinataires,
      LireRegistre, EnvoyerRepli, Sauter, Envoyer, EnvoyerEchec, Journaliser, JournaliserPerdu,
      JournaliserEchec, FinDestinataires, CreerCartes, Lever, LeverAbouti, LeverManque,
      MarquerEchecMuet
<1>3. ASSUME NEW r \in Repliques, Tick(r), ~TraiterSlot(r) PROVE livraison' = livraison
  BY <1>3 DEF Tick, Declencher, Balayer, Abandonner, AbandonnerMuet, LireContrats, Reserver,
              FinReservation, LireSlots, LireActifs, PrendreSlot, FinDeTick, Interrompre
<1>4. CASE Environnement
  BY <1>4 DEF Environnement, AvancerHorloge, ChangerContrat, ChangerAbonnement, Redemarrer
<1> QED BY <1>1, <1>2, <1>3, <1>4 DEF Next

\* ENVOYE is final for a slot, whatever several instances do at the same time
\* (the guards statut <> ENVOYE of marquerAbouti and marquerEchec, the status
\* list of marquerAbandonne, the on conflict do nothing of reserver).
THEOREM EnvoyeResteEnvoye == Spec => EnvoyeDefinitif
<1>1. ASSUME Inv, [Next]_vars, NEW f \in Foyers, slot[f] = "ENVOYE"
      PROVE  slot'[f] = "ENVOYE"
  <2>1. slot \in [Foyers -> Slots]
    BY <1>1 DEF Inv, TypeOK
  <2>2. ASSUME NEW r \in Repliques, NEW issue \in {"ENVOYE", "DRY_RUN", "ECHEC"},
               Basculer(r, issue)
        PROVE  slot'[f] = "ENVOYE"
    BY <1>1, <2>1, <2>2 DEF Basculer
  <2>3. ASSUME NEW r \in Repliques, NEW g \in Foyers,
               Abandonner(r, g) \/ AbandonnerMuet(r, g) \/ Reserver(r, g)
        PROVE  slot'[f] = "ENVOYE"
    BY <1>1, <2>1, <2>3 DEF Abandonner, AbandonnerMuet, Reserver, NonTermines
  <2> QED BY <1>1, <2>2, <2>3, EcrituresSlot
<1>2. Inv /\ [Next]_vars
        => [\A f \in Foyers : slot[f] = "ENVOYE" => slot'[f] = "ENVOYE"]_vars
  BY <1>1
<1> QED BY InvInit, InvNext, <1>2, PTL DEF Spec, EnvoyeDefinitif

\* A delivery written in the ledger is final and attempts are never forgotten
\* (the guards of marquerParentAbouti and marquerParentEchec).
THEOREM LivraisonResteLivree == Spec => LivraisonDefinitive
<1> DEFINE Tenu ==
      \A p \in Parents :
        /\ Livre(livraison[p]) => livraison'[p] = livraison[p]
        /\ livraison'[p].essais >= livraison[p].essais
<1>1. ASSUME Inv, [Next]_vars PROVE Tenu
  <2>1. livraison \in [Parents -> Livraisons]
    BY <1>1 DEF Inv, TypeOK
  <2>2. \A p \in Parents : livraison[p].essais \in Nat
    BY <2>1 DEF Livraisons
  <2>3. CASE livraison' = livraison
    BY <2>2, <2>3
  <2>4. ASSUME NEW r \in Repliques, Livrer(r) PROVE Tenu
    <3>1. \A l \in Livraisons, i \in {"ENVOYE", "DRY_RUN"} : [l EXCEPT !.statut = i].essais = l.essais
      BY DEF Livraisons
    <3> QED BY <2>1, <2>2, <2>4, <3>1 DEF Livrer, Issue, Livre
  <2>5. ASSUME NEW r \in Repliques, Manquer(r) PROVE Tenu
    BY <2>1, <2>2, <2>5 DEF Manquer, Livre
  <2> QED BY <1>1, <2>3, <2>4, <2>5, EcrituresLivraison
<1>2. Inv /\ [Next]_vars => [Tenu]_vars
  BY <1>1
<1> QED BY InvInit, InvNext, <1>2, PTL DEF Spec, LivraisonDefinitive

\* Neither a sent slot nor a delivery is ever undone by a late write of another
\* instance: the guards of EnvoiRecapService, for any number of instances.
THEOREM AcquisTenus == Spec => AcquisDefinitif
BY EnvoyeResteEnvoye, LivraisonResteLivree DEF AcquisDefinitif

(***************************************************************************)
(* One instance (the deployment runs one svc-notifications).  The ledger   *)
(* is read once per slot; what makes the reading good for the whole slot   *)
(* is that only this instance writes it, and that a recipient leaves the   *)
(* list of those to handle before the next one is taken: while its outcome *)
(* is written, its line may already say delivered (a lost reply), and its  *)
(* attempts are still under the cap.                                       *)
(***************************************************************************)
UneReplique == \E r \in Repliques : Repliques = {r}

Parcours == {"parent", "journal", "journalEchec"}

VueAJour ==
  \A r \in Repliques : etape[r] \in Parcours =>
    \A p \in aServir[r] :
      etape[r] = "parent" \/ p # cible[r] => vue[r][p] = livraison[p]

CibleNonSoldee ==
  \A r \in Repliques :
    /\ etape[r] \in {"journal", "journalEchec"} =>
         cible[r] \in aServir[r] /\ ~Plafonne(livraison[cible[r]])
    /\ etape[r] = "journal" => ~Livre(livraison[cible[r]])

InvUne == Inv /\ EssaisBornes /\ VueAJour /\ CibleNonSoldee

\* A step that neither writes the ledger nor leaves an instance among its
\* recipients keeps all that is known of them.
LEMMA HorsParcours ==
  ASSUME InvUne, Inv', NEW r \in Repliques, Repliques = {r},
         livraison' = livraison, etape'[r] \notin Parcours
  PROVE  InvUne'
  BY DEF InvUne, EssaisBornes, VueAJour, CibleNonSoldee, Parcours

\* A step that touches neither the ledger nor the locals about recipients.
LEMMA ParcoursInchange ==
  ASSUME InvUne, Inv', UNCHANGED <<livraison, etape, aServir, vue, cible>>
  PROVE  InvUne'
  BY DEF InvUne, EssaisBornes, VueAJour, CibleNonSoldee

\* A step inside a slot preserves InvUne.
LEMMA InvUneDansSlot ==
  ASSUME InvUne, Inv', NEW r \in Repliques, Repliques = {r}, TraiterSlot(r)
  PROVE  InvUne'
<1> USE DEF projVars, baseVars, histVars, localVars
<1>0. Inv
  BY DEF InvUne
<1>1. CASE \/ CloturerVide(r) \/ LireDestinataires(r) \/ EnvoyerRepli(r)
           \/ FinDestinataires(r) \/ CreerCartes(r) \/ MarquerAbouti(r) \/ Lever(r)
           \/ MarquerEchec(r) \/ LeverAbouti(r) \/ MarquerEchecMuet(r)
  <2>1. livraison' = livraison /\ etape'[r] \notin Parcours
    BY <1>0, <1>1
    DEF Inv, TypeOK, Parcours, Aller, CloturerVide, MarquerAbouti, MarquerEchec, Aboutir,
        LireDestinataires, EnvoyerRepli, FinDestinataires, CreerCartes, Lever, LeverAbouti,
        MarquerEchecMuet, Oublier
  <2> QED BY <2>1, HorsParcours
<1>2. CASE LireRegistre(r)
  <2>1. /\ livraison' = livraison /\ vue'[r] = livraison /\ etape'[r] = "parent"
    BY <1>0, <1>2 DEF Inv, TypeOK, LireRegistre, Aller
  <2> QED BY <2>1 DEF InvUne, EssaisBornes, VueAJour, CibleNonSoldee, Parcours
<1>3. ASSUME NEW p \in Parents, Sauter(r, p) PROVE InvUne'
  <2>1. /\ UNCHANGED <<livraison, vue, etape>> /\ etape[r] = "parent"
        /\ aServir'[r] = aServir[r] \ {p}
    BY <1>0, <1>3 DEF Inv, TypeOK, Sauter, Retirer
  <2> QED BY <2>1 DEF InvUne, EssaisBornes, VueAJour, CibleNonSoldee, Parcours
<1>4. ASSUME NEW p \in Parents, Envoyer(r, p) \/ EnvoyerEchec(r, p) PROVE InvUne'
  <2>1. /\ UNCHANGED <<livraison, vue, aServir>> /\ etape[r] = "parent"
        /\ cible'[r] = p /\ p \in aServir[r] /\ ~Solde(vue[r][p])
    BY <1>0, <1>4 DEF Inv, TypeOK, Envoyer, EnvoyerEchec, AEnvoyer
  <2>2. vue[r][p] = livraison[p]
    BY <2>1 DEF InvUne, VueAJour, Parcours
  <2> QED BY <2>1, <2>2 DEF InvUne, EssaisBornes, VueAJour, CibleNonSoldee, Parcours, Solde
<1>5. ASSUME etape[r] = "journal", Livrer(r)
      PROVE  /\ \A p \in Parents : p # cible[r] => livraison'[p] = livraison[p]
             /\ \A p \in Parents : livraison'[p].essais = livraison[p].essais
  <2>1. cible[r] \in Parents /\ livraison \in [Parents -> Livraisons]
    BY <1>0, <1>5 DEF Inv, TypeOK, CibleEnMain
  <2>2. /\ \A p \in Parents : p # cible[r] => livraison'[p] = livraison[p]
        /\ livraison'[cible[r]] \in {livraison[cible[r]],
              [livraison[cible[r]] EXCEPT !.statut = Issue(cible[r] \in HorsListe)]}
    BY <1>5, <2>1 DEF Livrer
  <2>3. livraison'[cible[r]].essais = livraison[cible[r]].essais
    BY <2>1, <2>2 DEF Livraisons
  <2> QED BY <2>2, <2>3
<1>6. ASSUME etape[r] = "journalEchec", Manquer(r)
      PROVE  /\ \A p \in Parents : p # cible[r] => livraison'[p] = livraison[p]
             /\ EssaisBornes'
  <2>1. cible[r] \in Parents /\ livraison \in [Parents -> Livraisons]
    BY <1>0, <1>6 DEF Inv, TypeOK, CibleEnMain
  <2>2. /\ \A p \in Parents : p # cible[r] => livraison'[p] = livraison[p]
        /\ livraison'[cible[r]].essais \in {livraison[cible[r]].essais,
                                            livraison[cible[r]].essais + 1}
    BY <1>6, <2>1 DEF Manquer
  <2>3. livraison[cible[r]].essais < MAX_ESSAIS_PARENT /\ livraison[cible[r]].essais \in Nat
    BY <1>6, <2>1, ConstantesRecap DEF InvUne, CibleNonSoldee, Plafonne, Livraisons
  <2>4. livraison'[cible[r]].essais <= MAX_ESSAIS_PARENT
    BY <2>2, <2>3, ConstantesRecap
  <2> QED BY <2>2, <2>4 DEF InvUne, EssaisBornes
<1>7. CASE JournaliserPerdu(r)
  <2>1. /\ UNCHANGED <<vue, aServir, cible>> /\ etape[r] = "journal"
        /\ etape'[r] = "journalEchec" /\ cible[r] \in Parents /\ aServir[r] \subseteq Parents
        /\ Livrer(r) \/ livraison' = livraison
    BY <1>0, <1>7 DEF Inv, TypeOK, CibleEnMain, JournaliserPerdu, Aller
  <2>2. /\ \A p \in Parents : p # cible[r] => livraison'[p] = livraison[p]
        /\ \A p \in Parents : livraison'[p].essais = livraison[p].essais
    BY <1>5, <2>1
  <2> QED BY <2>1, <2>2 DEF InvUne, EssaisBornes, VueAJour, CibleNonSoldee, Parcours, Plafonne
<1>8. CASE Journaliser(r) \/ JournaliserEchec(r)
  <2>1. /\ etape'[r] = "parent" /\ vue' = vue /\ aServir'[r] = aServir[r] \ {cible[r]}
        /\ aServir[r] \subseteq Parents /\ etape[r] \in Parcours
        /\ (etape[r] = "journal" /\ Livrer(r)) \/ (etape[r] = "journalEchec" /\ Manquer(r))
    BY <1>0, <1>8 DEF Inv, TypeOK, Journaliser, JournaliserEchec, Retirer, Aller, Parcours
  <2>2. (\A p \in Parents : p # cible[r] => livraison'[p] = livraison[p]) /\ EssaisBornes'
    BY <1>5, <1>6, <2>1 DEF InvUne, EssaisBornes
  <2> QED BY <2>1, <2>2 DEF InvUne, VueAJour, CibleNonSoldee
<1>9. CASE LeverManque(r)
  <2>1. etape'[r] = "echecSlot" /\ etape[r] = "journalEchec" /\ Manquer(r)
    BY <1>0, <1>9 DEF Inv, TypeOK, LeverManque, Aller
  <2>2. EssaisBornes'
    BY <1>6, <2>1
  <2> QED BY <2>1, <2>2 DEF InvUne, VueAJour, CibleNonSoldee, Parcours
<1> QED BY <1>1, <1>2, <1>3, <1>4, <1>7, <1>8, <1>9 DEF TraiterSlot

\* Every step of a single instance preserves InvUne.
LEMMA InvUneNext ==
  ASSUME UneReplique, InvUne, [Next]_vars
  PROVE  InvUne'
<1> USE DEF projVars, baseVars, histVars, localVars
<1>0. Inv /\ Inv'
  BY InvNext DEF InvUne
<1>1. PICK r \in Repliques : Repliques = {r}
  BY DEF UneReplique
<1>2. CASE UNCHANGED vars
  BY <1>0, <1>2, ParcoursInchange DEF vars
<1>3. CASE TraiterSlot(r)
  BY <1>0, <1>1, <1>3, InvUneDansSlot
<1>4. CASE Tick(r) /\ ~TraiterSlot(r)
  <2>1. \/ UNCHANGED <<livraison, etape, aServir, vue, cible>>
        \/ livraison' = livraison /\ etape'[r] \notin Parcours
    BY <1>0, <1>4
    DEF Inv, TypeOK, Parcours, Aller, Oublier, Tick, Declencher, Balayer, Abandonner,
        AbandonnerMuet, LireContrats, Reserver, FinReservation, LireSlots, LireActifs, PrendreSlot, FinDeTick, Interrompre
  <2> QED BY <1>0, <1>1, <2>1, ParcoursInchange, HorsParcours
<1>5. CASE Redemarrer(r)
  <2>1. livraison' = livraison /\ etape'[r] \notin Parcours
    BY <1>0, <1>5 DEF Inv, TypeOK, Parcours, Aller, Oublier, Redemarrer
  <2> QED BY <1>0, <1>1, <2>1, HorsParcours
<1>6. CASE \/ AvancerHorloge
           \/ \E f \in Foyers : ChangerContrat(f)
           \/ \E p \in Parents : ChangerAbonnement(p)
  BY <1>0, <1>6, ParcoursInchange DEF AvancerHorloge, ChangerContrat, ChangerAbonnement
<1> QED BY <1>1, <1>2, <1>3, <1>4, <1>5, <1>6 DEF Next, Environnement

\* A single instance starts in InvUne.
LEMMA InvUneInit == Init => InvUne
  BY InvInit, ConstantesRecap
  DEF Init, InvUne, EssaisBornes, VueAJour, CibleNonSoldee, Parcours, RegistreVide

\* With one instance, the attempts towards an address stay within the cap
\* (aRetenterParent, MAX_ESSAIS_PARENT).
THEOREM EssaisSousPlafond ==
  ASSUME UneReplique
  PROVE  Spec => []EssaisBornes
<1>1. InvUne /\ [Next]_vars => InvUne'
  BY InvUneNext
<1>2. InvUne => EssaisBornes
  BY DEF InvUne
<1> QED BY InvUneInit, <1>1, <1>2, PTL DEF Spec

\* With one instance, a parent whose delivery is in the ledger is never mailed
\* again, whatever fails and however often the slot is replayed (H9,
\* envoyerParParent).
THEOREM JamaisDeuxLivraisons ==
  ASSUME UneReplique
  PROVE  Spec => JamaisRelivre
<1> DEFINE Relivre == \A p \in Parents : Livre(livraison[p]) => mails'[p] = mails[p]
<1>1. InvUne /\ [Next]_vars => InvUne'
  BY InvUneNext
<1>2. ASSUME InvUne, [Next]_vars PROVE Relivre
  <2> USE DEF projVars, baseVars, histVars, localVars
  <2>1. CASE \E r \in Repliques : \E p \in Parents : Envoyer(r, p) \/ EnvoyerEchec(r, p)
    <3>1. PICK r \in Repliques, p \in Parents : Envoyer(r, p) \/ EnvoyerEchec(r, p)
      BY <2>1
    <3>2. p \in aServir[r] /\ ~Solde(vue[r][p]) /\ etape[r] = "parent"
      BY <3>1 DEF Envoyer, EnvoyerEchec, AEnvoyer
    <3>3. ~Livre(livraison[p])
      BY <1>2, <3>2 DEF InvUne, VueAJour, Parcours, Solde
    <3>4. \A q \in Parents : q # p => mails'[q] = mails[q]
      BY <1>2, <3>1 DEF InvUne, Inv, TypeOK, Envoyer, EnvoyerEchec
    <3> QED BY <3>3, <3>4
  <2>2. CASE ~\E r \in Repliques : \E p \in Parents : Envoyer(r, p) \/ EnvoyerEchec(r, p)
    <3>1. mails' = mails
      <4>1. CASE UNCHANGED vars
        BY <4>1 DEF vars
      <4>2. ASSUME NEW r \in Repliques, TraiterSlot(r) PROVE mails' = mails
        BY <2>2, <4>2
        DEF TraiterSlot, CloturerVide, MarquerAbouti, MarquerEchec, Aboutir, LireDestinataires,
            LireRegistre, EnvoyerRepli, Sauter, Journaliser, JournaliserPerdu, JournaliserEchec,
            FinDestinataires, CreerCartes, Lever, LeverAbouti, LeverManque, MarquerEchecMuet,
            Oublier
      <4>3. ASSUME NEW r \in Repliques, Tick(r), ~TraiterSlot(r) PROVE mails' = mails
        BY <4>3 DEF Tick, Declencher, Balayer, Abandonner, AbandonnerMuet, LireContrats, Reserver,
                    FinReservation, LireSlots, LireActifs, PrendreSlot, FinDeTick, Interrompre
      <4>4. CASE Environnement
        BY <4>4 DEF Environnement, AvancerHorloge, ChangerContrat, ChangerAbonnement, Redemarrer
      <4> QED BY <1>2, <4>1, <4>2, <4>3, <4>4 DEF Next
    <3> QED BY <3>1
  <2> QED BY <2>1, <2>2
<1>3. InvUne /\ [Next]_vars => [Relivre]_vars
  BY <1>2
<1> QED BY InvUneInit, <1>1, <1>3, PTL DEF Spec, JamaisRelivre

(***************************************************************************)
(* One instance again: what the end of a slot means.  The slots to handle  *)
(* are still open, those in the list and the one in hand, because nobody   *)
(* else settles them (save the slot whose settlement lost its reply, until *)
(* marquerEchec).  And the parents whom nothing interrupted are never  *)
(* lost on the way from the projections to the ledger: their household was *)
(* seen active, they were read among the recipients, and whoever has left  *)
(* the list of recipients is settled in the ledger, or the pass failed.    *)
(***************************************************************************)
Boucle == {"slot"} \cup PhasesSlot

SlotsOuverts ==
  \A r \in Repliques :
    /\ etape[r] \in {"actifs"} \cup Boucle => \A f \in reste[r] : slot[f] \in NonTermines
    /\ etape[r] \in PhasesSlot =>
         /\ foyer[r] \notin reste[r]
         /\ \/ slot[foyer[r]] \in NonTermines
            \/ etape[r] = "echecSlot" /\ muet[r] /\ slot[foyer[r]] \in Aboutis

FidelesDe(f) == fideles \cap ParentsDe[f]

FidelesProjetes ==
  /\ fideles \subseteq abonnes
  /\ \A f \in Foyers : FidelesDe(f) # {} => f \in contrats

FidelesServis(r) ==
  /\ etape[r] \in Boucle => \A f \in Foyers : FidelesDe(f) # {} => f \in vusActifs[r]
  /\ etape[r] \in {"vide", "repli"} => FidelesDe(foyer[r]) = {}
  /\ etape[r] = "registre" => FidelesDe(foyer[r]) \subseteq aServir[r]
  /\ etape[r] \in Parcours => echec[r] \/ Reste(foyer[r]) \subseteq aServir[r]
  /\ etape[r] \in {"inapp", "abouti"} => Reste(foyer[r]) = {}

InvFin == InvUne /\ SlotsOuverts /\ FidelesProjetes /\ \A r \in Repliques : FidelesServis(r)

\* The histories of the projections only shrink, and only with a projection.
LEMMA FidelesInchanges ==
  ASSUME Inv, NEW r \in Repliques, Tick(r) \/ Redemarrer(r)
  PROVE  UNCHANGED <<contrats, abonnes, fideles>>
<1> USE DEF projVars, baseVars, histVars, localVars
<1>1. CASE TraiterSlot(r)
  BY <1>1
  DEF TraiterSlot, CloturerVide, MarquerAbouti, MarquerEchec, Aboutir, LireDestinataires,
      LireRegistre, EnvoyerRepli, Sauter, Envoyer, EnvoyerEchec, Journaliser, JournaliserPerdu,
      JournaliserEchec, FinDestinataires, CreerCartes, Lever, LeverAbouti, LeverManque,
      MarquerEchecMuet, Oublier
<1>2. CASE ~TraiterSlot(r)
  BY <1>2 DEF Tick, Declencher, Balayer, Abandonner, AbandonnerMuet, LireContrats, Reserver,
              FinReservation, LireSlots, LireActifs, PrendreSlot, FinDeTick, Interrompre,
              Redemarrer
<1> QED BY <1>1, <1>2

\* A step that writes neither a projection nor the history about it.
LEMMA ProjetesInchanges ==
  ASSUME FidelesProjetes, UNCHANGED <<contrats, abonnes, fideles>>
  PROVE  FidelesProjetes'
  BY DEF FidelesProjetes, FidelesDe

\* Whoever interrupts a subscription or a contract takes the parents concerned
\* out of the history.
LEMMA ProjetesEnvironnement ==
  ASSUME Inv, FidelesProjetes,
         \/ AvancerHorloge
         \/ \E f \in Foyers : ChangerContrat(f)
         \/ \E p \in Parents : ChangerAbonnement(p)
  PROVE  FidelesProjetes' /\ fideles' \subseteq fideles
<1> USE DEF projVars, baseVars, histVars, localVars
<1>1. CASE AvancerHorloge
  BY <1>1, ProjetesInchanges DEF AvancerHorloge
<1>2. ASSUME NEW f \in Foyers, ChangerContrat(f)
      PROVE  FidelesProjetes' /\ fideles' \subseteq fideles
  <2>1. fideles' = fideles \ ParentsDe[f] /\ abonnes' = abonnes
    BY <1>2 DEF ChangerContrat
  <2>2. \A g \in Foyers : g # f /\ g \in contrats => g \in contrats'
    BY <1>2 DEF ChangerContrat
  <2> QED BY <2>1, <2>2 DEF FidelesProjetes, FidelesDe
<1>3. ASSUME NEW p \in Parents, ChangerAbonnement(p)
      PROVE  FidelesProjetes' /\ fideles' \subseteq fideles
  BY <1>3 DEF ChangerAbonnement, FidelesProjetes, FidelesDe
<1> QED BY <1>1, <1>2, <1>3

\* A step of the environment leaves the instance and the ledger alone.
LEMMA FinSansPas ==
  ASSUME InvFin, InvUne', FidelesProjetes', fideles' \subseteq fideles,
         UNCHANGED <<slot, livraison, etape, reste, vusActifs, foyer, aServir, echec, muet>>
  PROVE  InvFin'
<1>1. SlotsOuverts'
  BY DEF InvFin, SlotsOuverts
<1>2. ASSUME NEW r \in Repliques PROVE FidelesServis(r)'
  <2>1. FidelesServis(r)
    BY DEF InvFin
  <2>2. \A f : FidelesDe(f)' \subseteq FidelesDe(f) /\ Reste(f)' \subseteq Reste(f)
    BY DEF FidelesDe, Reste
  <2> QED BY <2>1, <2>2 DEF FidelesServis
<1> QED BY <1>1, <1>2 DEF InvFin

\* Outside the loop over the slots, nothing is claimed.
LEMMA FinHorsBoucle ==
  ASSUME InvFin, InvUne', FidelesProjetes', NEW r \in Repliques, Repliques = {r},
         etape'[r] \notin {"actifs"} \cup Boucle
  PROVE  InvFin'
  BY DEF InvFin, SlotsOuverts, FidelesServis, Boucle, PhasesSlot, Parcours

\* The steps of a tick between two slots.
LEMMA FinEntreSlots ==
  ASSUME InvFin, InvUne', FidelesProjetes', NEW r \in Repliques, Repliques = {r},
         (Tick(r) /\ ~TraiterSlot(r)) \/ Redemarrer(r)
  PROVE  InvFin'
<1> USE DEF projVars, baseVars, histVars, localVars
<1>0. Inv
  BY DEF InvFin, InvUne
<1>1. CASE \/ Declencher(r) \/ Balayer(r) \/ LireContrats(r) \/ FinReservation(r)
           \/ \E f \in Foyers : Abandonner(r, f) \/ AbandonnerMuet(r, f) \/ Reserver(r, f)
           \/ FinDeTick(r) \/ Interrompre(r) \/ Redemarrer(r)
  <2>1. etape'[r] \notin {"actifs"} \cup Boucle
    BY <1>0, <1>1
    DEF Inv, TypeOK, Boucle, PhasesSlot, Aller, Oublier, Declencher, Balayer, LireContrats,
        FinReservation, Abandonner, AbandonnerMuet, Reserver, FinDeTick, Interrompre, Redemarrer
  <2> QED BY <2>1, FinHorsBoucle
<1>2. CASE LireSlots(r)
  <2>1. /\ etape'[r] = "actifs" /\ slot' = slot
        /\ reste'[r] = {f \in Foyers : slot[f] \in NonTermines}
    BY <1>0, <1>2 DEF Inv, TypeOK, LireSlots, Aller
  <2> QED BY <2>1 DEF InvFin, SlotsOuverts, FidelesServis, Boucle, PhasesSlot, Parcours
<1>3. CASE LireActifs(r)
  <2>1. /\ etape[r] = "actifs" /\ etape'[r] = "slot" /\ slot' = slot /\ reste' = reste
        /\ vusActifs'[r] = contrats /\ contrats' = contrats /\ fideles' = fideles
    BY <1>0, <1>3 DEF Inv, TypeOK, LireActifs, Aller
  <2>2. SlotsOuverts'
    BY <2>1 DEF InvFin, SlotsOuverts, Boucle, PhasesSlot
  <2>3. \A f \in Foyers : FidelesDe(f)' # {} => f \in vusActifs'[r]
    BY <2>1 DEF InvFin, FidelesProjetes, FidelesDe
  <2>4. FidelesServis(r)'
    BY <2>1, <2>3 DEF FidelesServis, Boucle, PhasesSlot, Parcours
  <2> QED BY <2>2, <2>4 DEF InvFin
<1>4. ASSUME NEW f \in Foyers, PrendreSlot(r, f) PROVE InvFin'
  <2>1. /\ etape[r] = "slot" /\ f \in reste[r] /\ UNCHANGED <<slot, vusActifs, fideles>>
        /\ reste'[r] = reste[r] \ {f} /\ foyer'[r] = f
        /\ etape'[r] = IF f \in vusActifs[r] THEN "destinataires" ELSE "vide"
    BY <1>0, <1>4 DEF Inv, TypeOK, PrendreSlot, Aller
  <2>2. SlotsOuverts'
    BY <2>1 DEF InvFin, SlotsOuverts, Boucle, PhasesSlot
  <2>3. \A g \in Foyers : FidelesDe(g)' # {} => g \in vusActifs'[r]
    BY <2>1 DEF InvFin, FidelesServis, FidelesDe, Boucle
  <2>4. etape'[r] = "vide" => FidelesDe(f)' = {}
    BY <2>1, <2>3
  <2>5. FidelesServis(r)'
    BY <2>1, <2>3, <2>4 DEF FidelesServis, FidelesDe, Boucle, PhasesSlot, Parcours
  <2> QED BY <2>2, <2>5 DEF InvFin
<1> QED BY <1>1, <1>2, <1>3, <1>4 DEF Tick

\* Inside a slot, a step that settles nothing keeps the slots open and what
\* was read of the contracts: what is left to show is what it says of the
\* recipients.
LEMMA FinMemeSlot ==
  ASSUME InvFin, InvUne', FidelesProjetes', NEW r \in Repliques, Repliques = {r},
         UNCHANGED <<slot, fideles, reste, vusActifs, foyer>>,
         etape[r] \in PhasesSlot \ {"echecSlot"}, etape'[r] \in PhasesSlot,
         /\ etape'[r] \in {"vide", "repli"} => FidelesDe(foyer[r]) = {}
         /\ etape'[r] = "registre" => FidelesDe(foyer[r]) \subseteq aServir'[r]
         /\ etape'[r] \in Parcours => echec'[r] \/ Reste(foyer[r])' \subseteq aServir'[r]
         /\ etape'[r] \in {"inapp", "abouti"} => Reste(foyer[r])' = {}
  PROVE  InvFin'
<1>1. SlotsOuverts'
  BY DEF InvFin, SlotsOuverts, Boucle, PhasesSlot
<1>2. \A f : FidelesDe(f)' = FidelesDe(f)
  BY DEF FidelesDe
<1>3. \A f \in Foyers : FidelesDe(f)' # {} => f \in vusActifs'[r]
  BY <1>2 DEF InvFin, FidelesServis, Boucle
<1>4. FidelesServis(r)'
  BY <1>2, <1>3 DEF FidelesServis, Reste
<1> QED BY <1>1, <1>4 DEF InvFin

\* The steps of a slot.
LEMMA FinDansSlot ==
  ASSUME InvFin, InvUne', FidelesProjetes', NEW r \in Repliques, Repliques = {r},
         TraiterSlot(r)
  PROVE  InvFin'
<1> USE DEF projVars, baseVars, histVars, localVars
<1>0. /\ Inv /\ InvUne /\ FidelesServis(r) /\ FidelesProjetes
      /\ foyer[r] \in Foyers \/ etape[r] \notin PhasesSlot
  BY DEF InvFin, InvUne, Inv, FoyerEnMain
<1>1. ASSUME NEW issue, Aboutir(r, issue), etape[r] \in PhasesSlot PROVE InvFin'
  <2>1. /\ etape'[r] = "slot" /\ UNCHANGED <<reste, vusActifs, fideles>>
        /\ \A f \in Foyers : f # foyer[r] => slot'[f] = slot[f]
    BY <1>0, <1>1 DEF Inv, TypeOK, Aboutir, Basculer, Aller
  <2>2. reste[r] \subseteq Foyers
    BY <1>0 DEF Inv, TypeOK
  <2>3. SlotsOuverts'
    BY <1>1, <2>1, <2>2 DEF InvFin, SlotsOuverts, Boucle, PhasesSlot
  <2>4. FidelesServis(r)'
    BY <1>1, <2>1 DEF InvFin, FidelesServis, FidelesDe, Boucle, PhasesSlot, Parcours
  <2> QED BY <2>3, <2>4 DEF InvFin
<1>2. CASE CloturerVide(r) \/ MarquerAbouti(r) \/ MarquerEchec(r)
  BY <1>1, <1>2 DEF CloturerVide, MarquerAbouti, MarquerEchec, PhasesSlot
<1>3. CASE LireDestinataires(r)
  <2>1. /\ UNCHANGED <<slot, fideles, reste, vusActifs, foyer>> /\ etape[r] = "destinataires"
        /\ aServir'[r] = abonnes \cap ParentsDe[foyer[r]]
        /\ etape'[r] = IF aServir'[r] = {} THEN "repli" ELSE "registre"
    BY <1>0, <1>3 DEF Inv, TypeOK, LireDestinataires, Aller
  <2>2. FidelesDe(foyer[r]) \subseteq aServir'[r]
    BY <1>0, <2>1 DEF FidelesProjetes, FidelesDe
  <2> QED BY <2>1, <2>2, FinMemeSlot DEF PhasesSlot, Parcours
<1>4. CASE LireRegistre(r)
  <2>1. /\ UNCHANGED <<slot, fideles, reste, vusActifs, foyer, aServir, livraison>>
        /\ etape[r] = "registre" /\ etape'[r] = "parent"
    BY <1>0, <1>4 DEF Inv, TypeOK, LireRegistre, Aller
  <2>2. Reste(foyer[r])' \subseteq aServir'[r]
    BY <1>0, <2>1 DEF FidelesServis, FidelesDe, Reste
  <2> QED BY <2>1, <2>2, FinMemeSlot DEF PhasesSlot, Parcours
<1>5. CASE EnvoyerRepli(r)
  <2>1. /\ UNCHANGED <<slot, fideles, reste, vusActifs, foyer>>
        /\ etape[r] = "repli" /\ etape'[r] = "inapp"
    BY <1>0, <1>5 DEF Inv, TypeOK, EnvoyerRepli, Aller
  <2>2. Reste(foyer[r])' = {}
    BY <1>0, <2>1 DEF FidelesServis, FidelesDe, Reste
  <2> QED BY <2>1, <2>2, FinMemeSlot DEF PhasesSlot, Parcours
<1>6. ASSUME NEW p \in Parents, Sauter(r, p) PROVE InvFin'
  <2>1. /\ UNCHANGED <<slot, fideles, reste, vusActifs, foyer, livraison, echec>>
        /\ etape[r] = "parent" /\ etape'[r] = "parent"
        /\ aServir'[r] = aServir[r] \ {p} /\ p \in aServir[r] /\ Solde(vue[r][p])
    BY <1>0, <1>6 DEF Inv, TypeOK, Sauter, Retirer
  <2>2. Solde(livraison[p])
    BY <1>0, <2>1 DEF InvUne, VueAJour, Parcours
  <2>3. echec[r] \/ Reste(foyer[r])' \subseteq aServir'[r]
    BY <1>0, <2>1, <2>2 DEF FidelesServis, Reste, Parcours
  <2> QED BY <2>1, <2>3, FinMemeSlot DEF PhasesSlot, Parcours
<1>7. ASSUME NEW p \in Parents, Envoyer(r, p) \/ EnvoyerEchec(r, p) PROVE InvFin'
  <2>1. /\ UNCHANGED <<slot, fideles, reste, vusActifs, foyer, livraison, echec, aServir>>
        /\ etape[r] = "parent" /\ etape'[r] \in {"journal", "journalEchec"}
    BY <1>0, <1>7 DEF Inv, TypeOK, Envoyer, EnvoyerEchec, AEnvoyer, Aller
  <2>2. echec'[r] \/ Reste(foyer[r])' \subseteq aServir'[r]
    BY <1>0, <2>1 DEF FidelesServis, Reste, Parcours
  <2> QED BY <2>1, <2>2, FinMemeSlot DEF PhasesSlot, Parcours
<1>8. CASE JournaliserPerdu(r)
  <2>1. /\ UNCHANGED <<slot, fideles, reste, vusActifs, foyer, echec, aServir>>
        /\ etape[r] = "journal" /\ etape'[r] = "journalEchec"
        /\ cible[r] \in aServir[r] /\ cible[r] \in Parents /\ fideles \subseteq Parents
        /\ \A p \in Parents : p # cible[r] => livraison'[p] = livraison[p]
    BY <1>0, <1>8
    DEF Inv, TypeOK, InvUne, CibleNonSoldee, CibleEnMain, JournaliserPerdu, Livrer, Aller
  <2>2. echec'[r] \/ Reste(foyer[r])' \subseteq aServir'[r]
    BY <1>0, <2>1 DEF FidelesServis, Reste, Parcours
  <2> QED BY <2>1, <2>2, FinMemeSlot DEF PhasesSlot, Parcours
<1>9. CASE Journaliser(r)
  <2>1. /\ UNCHANGED <<slot, fideles, reste, vusActifs, foyer, echec>>
        /\ etape[r] = "journal" /\ etape'[r] = "parent" /\ cible[r] \in Parents
        /\ aServir'[r] = aServir[r] \ {cible[r]}
        /\ \A p \in Parents : p # cible[r] => livraison'[p] = livraison[p]
    BY <1>0, <1>9 DEF Inv, TypeOK, CibleEnMain, Journaliser, Livrer, Retirer, Aller
  <2>2. Solde(livraison'[cible[r]])
    <3>1. livraison[cible[r]] \in Livraisons
      BY <1>0, <2>1 DEF Inv, TypeOK
    <3>2. \A l \in Livraisons, i \in Aboutis : [l EXCEPT !.statut = i].statut = i
      BY DEF Livraisons
    <3>3. livraison'[cible[r]] = IF Livre(livraison[cible[r]]) THEN livraison[cible[r]]
            ELSE [livraison[cible[r]] EXCEPT !.statut = Issue(cible[r] \in HorsListe)]
      BY <1>0, <1>9, <2>1 DEF Inv, TypeOK, Journaliser, Livrer
    <3>4. Issue(cible[r] \in HorsListe) \in Aboutis
      BY DEF Issue, Aboutis
    <3> QED BY <3>1, <3>2, <3>3, <3>4 DEF Solde, Livre
  <2>3. fideles \subseteq Parents
    BY <1>0 DEF Inv, TypeOK
  <2>4. echec'[r] \/ Reste(foyer[r])' \subseteq aServir'[r]
    BY <1>0, <2>1, <2>2, <2>3 DEF FidelesServis, Reste, Parcours
  <2> QED BY <2>1, <2>4, FinMemeSlot DEF PhasesSlot, Parcours
<1>10. CASE JournaliserEchec(r)
  <2>1. /\ UNCHANGED <<slot, fideles, reste, vusActifs, foyer>> /\ echec'[r] = TRUE
        /\ etape[r] = "journalEchec" /\ etape'[r] = "parent"
    BY <1>0, <1>10 DEF Inv, TypeOK, JournaliserEchec, Aller
  <2> QED BY <2>1, FinMemeSlot DEF PhasesSlot, Parcours
<1>11. CASE FinDestinataires(r)
  <2>1. /\ UNCHANGED <<slot, fideles, reste, vusActifs, foyer, livraison>>
        /\ etape[r] = "parent" /\ aServir[r] = {}
        /\ etape'[r] = IF echec[r] THEN "echecSlot" ELSE "inapp"
    BY <1>0, <1>11 DEF Inv, TypeOK, FinDestinataires, Aller
  <2>2. echec[r] \/ Reste(foyer[r])' = {}
    BY <1>0, <2>1 DEF FidelesServis, Reste, Parcours
  <2> QED BY <2>1, <2>2, FinMemeSlot DEF PhasesSlot, Parcours
<1>12. CASE CreerCartes(r)
  <2>1. /\ UNCHANGED <<slot, fideles, reste, vusActifs, foyer, livraison>>
        /\ etape[r] = "inapp" /\ etape'[r] = "abouti"
    BY <1>0, <1>12 DEF Inv, TypeOK, CreerCartes, Aller
  <2>2. Reste(foyer[r])' = {}
    BY <1>0, <2>1 DEF FidelesServis, Reste
  <2> QED BY <2>1, <2>2, FinMemeSlot DEF PhasesSlot, Parcours
<1>13. CASE Lever(r)
  <2>1. /\ UNCHANGED <<slot, fideles, reste, vusActifs, foyer>>
        /\ etape[r] \in PhasesSlot \ {"echecSlot"} /\ etape'[r] = "echecSlot"
    BY <1>0, <1>13 DEF Inv, TypeOK, Lever, Aller, PhasesSlot
  <2> QED BY <2>1, FinMemeSlot DEF PhasesSlot, Parcours
<1>14. CASE LeverManque(r)
  <2>1. /\ UNCHANGED <<slot, fideles, reste, vusActifs, foyer>>
        /\ etape[r] = "journalEchec" /\ etape'[r] = "echecSlot"
    BY <1>0, <1>14 DEF Inv, TypeOK, LeverManque, Aller
  <2> QED BY <2>1, FinMemeSlot DEF PhasesSlot, Parcours
<1>15. CASE LeverAbouti(r)
  <2>1. /\ UNCHANGED <<reste, vusActifs, fideles, foyer>> /\ etape[r] \in PhasesSlot
        /\ etape'[r] = "echecSlot" /\ muet'[r]
        /\ slot'[foyer[r]] \in Aboutis
        /\ \A f \in Foyers : f # foyer[r] => slot'[f] = slot[f]
    BY <1>0, <1>15
    DEF Inv, TypeOK, LeverAbouti, Basculer, Aller, PhasesSlot, Issue, Aboutis
  <2>2. reste[r] \subseteq Foyers
    BY <1>0 DEF Inv, TypeOK
  <2>3. SlotsOuverts'
    BY <2>1, <2>2 DEF InvFin, SlotsOuverts, Boucle, PhasesSlot
  <2>4. FidelesServis(r)'
    BY <2>1 DEF InvFin, FidelesServis, FidelesDe, Boucle, PhasesSlot, Parcours
  <2> QED BY <2>3, <2>4 DEF InvFin
<1>16. CASE MarquerEchecMuet(r)
  <2>1. etape'[r] = "repos"
    BY <1>0, <1>16 DEF Inv, TypeOK, MarquerEchecMuet, Oublier, Aller
  <2> QED BY <2>1, FinHorsBoucle DEF Boucle, PhasesSlot
<1> QED BY <1>2, <1>3, <1>4, <1>5, <1>6, <1>7, <1>8, <1>9, <1>10, <1>11, <1>12, <1>13, <1>14,
           <1>15, <1>16
        DEF TraiterSlot

\* Every step of a single instance preserves InvFin.
LEMMA InvFinNext ==
  ASSUME UneReplique, InvFin, [Next]_vars
  PROVE  InvFin'
<1> USE DEF projVars, baseVars, histVars, localVars
<1>0. Inv /\ FidelesProjetes /\ InvUne'
  BY InvUneNext DEF InvFin, InvUne
<1>1. PICK r \in Repliques : Repliques = {r}
  BY DEF UneReplique
<1>2. CASE UNCHANGED vars
  BY <1>0, <1>2, ProjetesInchanges, FinSansPas DEF vars
<1>3. CASE Tick(r) \/ Redemarrer(r)
  <2>1. FidelesProjetes'
    BY <1>0, <1>3, FidelesInchanges, ProjetesInchanges
  <2> QED BY <1>0, <1>1, <1>3, <2>1, FinEntreSlots, FinDansSlot
<1>4. CASE \/ AvancerHorloge
           \/ \E f \in Foyers : ChangerContrat(f)
           \/ \E p \in Parents : ChangerAbonnement(p)
  <2>1. UNCHANGED <<slot, livraison, etape, reste, vusActifs, foyer, aServir, echec, muet>>
    BY <1>4 DEF AvancerHorloge, ChangerContrat, ChangerAbonnement
  <2> QED BY <1>0, <1>4, <2>1, ProjetesEnvironnement, FinSansPas
<1> QED BY <1>1, <1>2, <1>3, <1>4 DEF Next, Environnement

\* The scheduler starts in InvFin: everybody subscribed, every household with a
\* contract, no slot yet.
LEMMA InvFinInit == Init => InvFin
<1> SUFFICES ASSUME Init PROVE InvFin
  OBVIOUS
<1>1. InvUne
  BY InvUneInit
<1>2. SlotsOuverts /\ \A r \in Repliques : FidelesServis(r)
  BY DEF Init, SlotsOuverts, FidelesServis, Boucle, PhasesSlot, Parcours
<1>3. FidelesProjetes
  BY DEF Init, FidelesProjetes, FidelesDe
<1> QED BY <1>1, <1>2, <1>3 DEF InvFin

\* With one instance, a slot is settled, or a card created, only when every
\* parent who was to be reached all along is delivered or given up
\* (envoyerRecapFoyer marks the slot after the loop over the recipients).
THEOREM SlotSoldeSansOubli ==
  ASSUME UneReplique
  PROVE  Spec => SlotSolde
<1> DEFINE Soldes ==
      \A f \in Foyers :
        /\ slot[f] \in NonTermines /\ slot'[f] \in Aboutis => Reste(f) = {}
        /\ ParentsDe[f] \cap (cartes' \ cartes) # {} => Reste(f) = {}
<1>1. InvFin /\ [Next]_vars => InvFin'
  BY InvFinNext
<1>2. ASSUME InvFin, [Next]_vars, NEW f \in Foyers,
             slot[f] \in NonTermines, slot'[f] \in Aboutis
      PROVE  Reste(f) = {}
  <2>0. Inv /\ slot \in [Foyers -> Slots] /\ slot' # slot
    BY <1>2 DEF InvFin, InvUne, Inv, TypeOK, NonTermines, Aboutis
  <2>1. ASSUME NEW r \in Repliques, NEW g \in Foyers,
               Abandonner(r, g) \/ AbandonnerMuet(r, g) \/ Reserver(r, g)
        PROVE  FALSE
    BY <1>2, <2>0, <2>1 DEF Abandonner, AbandonnerMuet, Reserver, NonTermines, Aboutis
  <2>2. ASSUME NEW r \in Repliques, NEW issue, Basculer(r, issue)
        PROVE  foyer[r] = f /\ issue \in Aboutis
    BY <1>2, <2>0, <2>2 DEF Basculer, NonTermines, Aboutis
  <2>3. ASSUME NEW r \in Repliques, TraiterSlot(r)
        PROVE  Reste(f) = {}
    <3>1. FidelesServis(r)
      BY <1>2 DEF InvFin
    <3>2. CASE CloturerVide(r)
      BY <2>2, <3>1, <3>2 DEF CloturerVide, Aboutir, FidelesServis, FidelesDe, Reste
    <3>3. CASE MarquerAbouti(r)
      BY <2>2, <3>1, <3>3 DEF MarquerAbouti, Aboutir, FidelesServis
    <3>4. CASE MarquerEchec(r) \/ MarquerEchecMuet(r)
      BY <2>2, <3>4 DEF MarquerEchec, MarquerEchecMuet, Aboutir, Aboutis
    <3>6. CASE LeverAbouti(r)
      BY <2>2, <3>1, <3>6 DEF LeverAbouti, FidelesServis, FidelesDe, Reste
    <3>5. CASE ~(\/ CloturerVide(r) \/ MarquerAbouti(r) \/ MarquerEchec(r)
                 \/ LeverAbouti(r) \/ MarquerEchecMuet(r))
      BY <2>0, <2>3, <3>5
      DEF TraiterSlot, LireDestinataires, LireRegistre, EnvoyerRepli, Sauter, Envoyer,
          EnvoyerEchec, Journaliser, JournaliserPerdu, JournaliserEchec, FinDestinataires,
          CreerCartes, Lever, LeverManque, projVars, baseVars, histVars, localVars
    <3> QED BY <3>2, <3>3, <3>4, <3>5, <3>6
  <2>4. ASSUME NEW r \in Repliques, Tick(r), ~TraiterSlot(r) PROVE FALSE
    BY <2>0, <2>1, <2>4
    DEF Tick, Declencher, Balayer, LireContrats, FinReservation, LireSlots, LireActifs,
        PrendreSlot, FinDeTick, Interrompre, projVars, baseVars, histVars, localVars
  <2>5. CASE Environnement \/ UNCHANGED vars
    BY <2>0, <2>5
    DEF Environnement, AvancerHorloge, ChangerContrat, ChangerAbonnement, Redemarrer,
        vars, projVars, baseVars, histVars, localVars
  <2> QED BY <1>2, <2>3, <2>4, <2>5 DEF Next
<1>3. ASSUME InvFin, [Next]_vars, NEW f \in Foyers, ParentsDe[f] \cap (cartes' \ cartes) # {}
      PROVE  Reste(f) = {}
  <2>0. Inv /\ cartes' # cartes
    BY <1>3 DEF InvFin, InvUne
  <2>1. ASSUME NEW r \in Repliques, CreerCartes(r) PROVE Reste(f) = {}
    <3>1. foyer[r] \in Foyers
      BY <2>0, <2>1 DEF Inv, FoyerEnMain, CreerCartes, PhasesSlot
    <3>2. PICK S \in SUBSET ParentsDe[foyer[r]] : cartes' = cartes \cup S
      BY <2>1 DEF CreerCartes
    <3>3. foyer[r] = f
      BY <1>3, <3>1, <3>2, ConstantesRecap
    <3> QED BY <1>3, <2>1, <3>3 DEF InvFin, FidelesServis, CreerCartes
  <2>2. ASSUME NEW r \in Repliques, TraiterSlot(r), ~CreerCartes(r) PROVE FALSE
    BY <2>0, <2>2
    DEF TraiterSlot, CloturerVide, MarquerAbouti, MarquerEchec, Aboutir, LireDestinataires,
        LireRegistre, EnvoyerRepli, Sauter, Envoyer, EnvoyerEchec, Journaliser,
        JournaliserPerdu, JournaliserEchec, FinDestinataires, Lever, LeverAbouti, LeverManque,
        MarquerEchecMuet, Oublier,
        projVars, baseVars, histVars, localVars
  <2>3. ASSUME NEW r \in Repliques, Tick(r), ~TraiterSlot(r) PROVE FALSE
    BY <2>0, <2>3
    DEF Tick, Declencher, Balayer, Abandonner, AbandonnerMuet, LireContrats, Reserver,
        FinReservation, LireSlots, LireActifs, PrendreSlot, FinDeTick, Interrompre,
        projVars, baseVars, histVars, localVars
  <2>4. CASE Environnement \/ UNCHANGED vars
    BY <2>0, <2>4
    DEF Environnement, AvancerHorloge, ChangerContrat, ChangerAbonnement, Redemarrer,
        vars, projVars, baseVars, histVars, localVars
  <2> QED BY <1>3, <2>1, <2>2, <2>3, <2>4 DEF Next
<1>4. InvFin /\ [Next]_vars => [Soldes]_vars
  BY <1>2, <1>3
<1> QED BY InvFinInit, <1>1, <1>4, PTL DEF Spec, SlotSolde

\* With one instance, a sent or abandoned slot is final and a DRY_RUN one is
\* rewritten by nothing but the catch of a marquerAbouti whose reply was lost;
\* none of them is reported again (aRetenter reads only the open slots, and
\* nobody settles one between the reading and its turn).
THEOREM SlotResteTermine ==
  ASSUME UneReplique
  PROVE  Spec => SlotDefinitif
<1> DEFINE Finals ==
      \A f \in Foyers :
        /\ Definitif(f) => slot'[f] = slot[f]
        /\ slot[f] \in Terminaux => signaux'[f] = signaux[f]
<1>1. InvFin /\ [Next]_vars => InvFin'
  BY InvFinNext
<1>2. ASSUME InvFin, [Next]_vars, NEW f \in Foyers, Definitif(f)
      PROVE  slot'[f] = slot[f]
  <2>0. /\ Inv /\ slot \in [Foyers -> Slots]
        /\ slot[f] \notin NonTermines /\ slot[f] # "absent"
    BY <1>2 DEF InvFin, InvUne, Inv, TypeOK, NonTermines, Definitif
  <2>1. ASSUME NEW r \in Repliques, NEW g \in Foyers,
               Abandonner(r, g) \/ AbandonnerMuet(r, g) \/ Reserver(r, g)
        PROVE  slot'[f] = slot[f]
    BY <2>0, <2>1 DEF Abandonner, AbandonnerMuet, Reserver
  <2>2. ASSUME NEW r \in Repliques, TraiterSlot(r) PROVE slot'[f] = slot[f]
    <3>1. ASSUME NEW issue, Basculer(r, issue), etape[r] \in PhasesSlot
          PROVE  slot'[f] = slot[f]
      <4>1. foyer[r] = f => slot[f] = "ENVOYE"
        BY <1>2, <2>0, <3>1 DEF InvFin, SlotsOuverts, Definitif, Aboutis
      <4> QED BY <2>0, <3>1, <4>1 DEF Basculer
    <3>2. CASE \/ CloturerVide(r) \/ MarquerAbouti(r) \/ MarquerEchec(r)
               \/ LeverAbouti(r) \/ MarquerEchecMuet(r)
      BY <3>1, <3>2
      DEF CloturerVide, MarquerAbouti, MarquerEchec, LeverAbouti, MarquerEchecMuet, Aboutir,
          PhasesSlot
    <3>3. CASE ~(\/ CloturerVide(r) \/ MarquerAbouti(r) \/ MarquerEchec(r)
                 \/ LeverAbouti(r) \/ MarquerEchecMuet(r))
      BY <2>2, <3>3
      DEF TraiterSlot, LireDestinataires, LireRegistre, EnvoyerRepli, Sauter, Envoyer,
          EnvoyerEchec, Journaliser, JournaliserPerdu, JournaliserEchec, FinDestinataires,
          CreerCartes, Lever, LeverManque, projVars, baseVars, histVars, localVars
    <3> QED BY <3>2, <3>3
  <2>3. ASSUME NEW r \in Repliques, Tick(r), ~TraiterSlot(r) PROVE slot'[f] = slot[f]
    BY <2>1, <2>3
    DEF Tick, Declencher, Balayer, LireContrats, FinReservation, LireSlots, LireActifs,
        PrendreSlot, FinDeTick, Interrompre, projVars, baseVars, histVars, localVars
  <2>4. CASE Environnement \/ UNCHANGED vars
    BY <2>4
    DEF Environnement, AvancerHorloge, ChangerContrat, ChangerAbonnement, Redemarrer,
        vars, projVars, baseVars, histVars, localVars
  <2> QED BY <1>2, <2>2, <2>3, <2>4 DEF Next
<1>3. ASSUME InvFin, [Next]_vars, NEW f \in Foyers, slot[f] \in Terminaux
      PROVE  signaux'[f] = signaux[f]
  <2>0. Inv /\ slot[f] \notin NonTermines
    BY <1>3 DEF InvFin, InvUne, NonTermines, Terminaux, Aboutis
  <2>1. ASSUME NEW r \in Repliques, NEW g \in Foyers, Abandonner(r, g)
        PROVE  signaux'[f] = signaux[f]
    BY <2>0, <2>1 DEF Abandonner, Inv, TypeOK
  <2>2. ASSUME NEW r \in Repliques, TraiterSlot(r) PROVE signaux' = signaux
    BY <2>2
    DEF TraiterSlot, CloturerVide, MarquerAbouti, MarquerEchec, Aboutir, LireDestinataires,
        LireRegistre, EnvoyerRepli, Sauter, Envoyer, EnvoyerEchec, Journaliser,
        JournaliserPerdu, JournaliserEchec, FinDestinataires, CreerCartes, Lever, LeverAbouti,
        LeverManque, MarquerEchecMuet, Oublier, projVars, baseVars, histVars, localVars
  <2>3. ASSUME NEW r \in Repliques, Tick(r), ~TraiterSlot(r) PROVE signaux'[f] = signaux[f]
    BY <2>1, <2>3
    DEF Tick, Declencher, Balayer, AbandonnerMuet, LireContrats, Reserver, FinReservation,
        LireSlots, LireActifs, PrendreSlot, FinDeTick, Interrompre,
        projVars, baseVars, histVars, localVars
  <2>4. CASE Environnement \/ UNCHANGED vars
    BY <2>4
    DEF Environnement, AvancerHorloge, ChangerContrat, ChangerAbonnement, Redemarrer,
        vars, projVars, baseVars, histVars, localVars
  <2> QED BY <1>3, <2>2, <2>3, <2>4 DEF Next
<1>4. InvFin /\ [Next]_vars => [Finals]_vars
  BY <1>2, <1>3
<1> QED BY InvFinInit, <1>1, <1>4, PTL DEF Spec, SlotDefinitif
=============================================================================
