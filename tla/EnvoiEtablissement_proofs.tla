--------------------- MODULE EnvoiEtablissement_proofs ---------------------
(***************************************************************************)
(* Proofs about EnvoiEtablissement and the ValidationHebdo it extends, for *)
(* any number of contracts, validations, requests and restarts: type       *)
(* correctness, one verdict per week, one mail per recap and a line that   *)
(* is its proof, and the erasure.                                          *)
(***************************************************************************)
EXTENDS EnvoiEtablissement, TLAPS

(***************************************************************************)
(* Type correctness, with what each local state holds at each step.        *)
(***************************************************************************)
TachesCoherentes ==
  \A t \in Taches :
    /\ tache[t].pc # "repos" => tache[t].k \in Contrats
    /\ tache[t].pc \in {"inserer", "calculer"} => tache[t].lu \in Saisies
    /\ tache[t].pc = "transiter" => tache[t].verdict \in Verdicts

ClicsCoherents == \A r \in Clics : clic[r].pc # "repos" => clic[r].m \in Messages

Types == TypeOK /\ TachesCoherentes /\ ClicsCoherents

LEMMA TypesInit == Init => Types
<1> SUFFICES ASSUME Init PROVE Types
  OBVIOUS
<1> USE ConstantesValidation, ConstantesEnvoi DEF Init
<1>1. Libre \in Locaux
  BY DEF Libre, Locaux
<1>2. ValidationTypeOK /\ TachesCoherentes
  <2>1. evts \in [Contrats -> Seq(Verdicts)]
    BY DEF ValidationInit
  <2> QED BY <1>1, <2>1 DEF ValidationInit, ValidationTypeOK, TachesCoherentes, Libre
<1>4. mails \in Seq(Messages)
  OBVIOUS
<1>5. Inactif \in [pc : {"repos", "reserver", "existant", "remettre", "mail", "figer"},
                  m : Messages \cup {Aucun}, issue : StatutsEnvoi]
  BY DEF Inactif, StatutsEnvoi
<1>6. envoi \in Envois \cup {Aucun} /\ fiche \in Adresses \cup {"muet", Aucun}
  OBVIOUS
<1>7. fiches \in 0 .. MAX_FICHES /\ lignes \in 0 .. MAX_LIGNES /\ clics \in 0 .. MAX_CLICS /\ doutes \in Nat
  OBVIOUS
<1>8. ClicsCoherents
  BY DEF ClicsCoherents, Inactif
<1>9. /\ chevauche \in BOOLEAN /\ efface \in BOOLEAN /\ enVol \in BOOLEAN
      /\ revenus \subseteq Contrats /\ ficheRevenue \in BOOLEAN
  OBVIOUS
<1> QED BY <1>2, <1>4, <1>5, <1>6, <1>7, <1>8, <1>9 DEF Types, TypeOK

\* The steps of the validation keep the types.
LEMMA TypesValidation ==
  ASSUME Types, ValidationNext, UNCHANGED envoiVars
  PROVE  Types'
<1> USE ConstantesValidation DEF Types, envoiVars, effacementVars
<1>1. ASSUME NEW k \in Contrats, ModifierPlanning(k) PROVE Types'
  BY <1>1 DEF ModifierPlanning, TypeOK, ValidationTypeOK, TachesCoherentes, ClicsCoherents
<1>2. ASSUME NEW t \in Taches, NEW k \in Contrats, LireSemaine(t, k) PROVE Types'
  <2>1. planning[k] \in Saisies
    BY DEF TypeOK, ValidationTypeOK
  <2>2. [Libre EXCEPT !.pc = "inserer", !.k = k, !.lu = planning[k]] \in Locaux
    BY <2>1 DEF Libre, Locaux
  <2> QED BY <1>2, <2>1, <2>2
          DEF LireSemaine, TypeOK, ValidationTypeOK, TachesCoherentes, ClicsCoherents, Libre
<1>3. ASSUME NEW t \in Taches, NEW k \in Contrats, LireLigne(t, k) PROVE Types'
  <2>1. notif[k].snapshot \in Saisies
    BY <1>3 DEF LireLigne, AValider, TypeOK, ValidationTypeOK, Lignes
  <2>2. [Libre EXCEPT !.pc = "calculer", !.k = k, !.lu = notif[k].snapshot] \in Locaux
    BY <2>1 DEF Libre, Locaux
  <2> QED BY <1>3, <2>1, <2>2
          DEF LireLigne, TypeOK, ValidationTypeOK, TachesCoherentes, ClicsCoherents, Libre
<1>4. ASSUME NEW t \in Taches, Inserer(t) PROVE Types'
  <2>1. tache[t].lu \in Saisies /\ Libre \in Locaux
    BY <1>4 DEF Inserer, TachesCoherentes, Libre, Locaux
  <2>2. [statut |-> "A_VALIDER", snapshot |-> tache[t].lu, delta |-> Aucun] \in Lignes
    BY <2>1 DEF Lignes
  <2> QED BY <1>4, <2>1, <2>2
          DEF Inserer, TypeOK, ValidationTypeOK, TachesCoherentes, ClicsCoherents, Libre
<1>5. ASSUME NEW t \in Taches, Calculer(t) PROVE Types'
  <2>1. PICK lue \in {planning[tache[t].k], tache[t].lu} :
          tache' = [tache EXCEPT ![t].pc = "transiter", ![t].verdict = Verdict(tache[t].lu, lue)]
    BY <1>5 DEF Calculer
  <2> DEFINE w == Verdict(tache[t].lu, lue)
  <2>2. lue \in Saisies /\ tache[t].lu \in Saisies
    BY <1>5 DEF Calculer, TachesCoherentes, TypeOK, ValidationTypeOK
  <2>3. w \in Verdicts
    BY <2>2 DEF Verdict, Verdicts, Deltas
  <2>4. tache' = [tache EXCEPT ![t] = [tache[t] EXCEPT !.pc = "transiter", !.verdict = w]]
    BY <2>1
  <2>5. tache[t] \in Locaux
    BY DEF TypeOK, ValidationTypeOK
  <2> HIDE DEF w
  <2>6. ValidationTypeOK'
    <3>1. [tache[t] EXCEPT !.pc = "transiter", !.verdict = w] \in Locaux
      BY <2>3, <2>5 DEF Locaux
    <3> QED BY <1>5, <2>4, <3>1 DEF Calculer, TypeOK, ValidationTypeOK
  <2>7. TachesCoherentes'
    BY <1>5, <2>3, <2>4, <2>5 DEF Calculer, TypeOK, ValidationTypeOK, TachesCoherentes, Locaux
  <2> QED BY <1>5, <2>6, <2>7 DEF Calculer, TypeOK, ClicsCoherents
<1>6. ASSUME NEW t \in Taches, Transiter(t) PROVE Types'
  <2> DEFINE k == tache[t].k
             v == tache[t].verdict
  <2>1. k \in Contrats /\ v \in Verdicts /\ Libre \in Locaux
    BY <1>6 DEF Transiter, TachesCoherentes, Libre, Locaux
  <2>2. CASE Gagner(k)
    <3>1. [notif[k] EXCEPT !.statut = v.statut, !.delta = v.delta] \in Lignes
      <4>1. notif[k] \in Lignes
        BY <2>1, <2>2 DEF Gagner, AValider, TypeOK, ValidationTypeOK
      <4>2. v.statut \in {"A_VALIDER", "VALIDEE", "VALIDEE_AVEC_MODIFS"}
            /\ v.delta \in Deltas \cup {Aucun}
        BY <2>1 DEF Verdicts
      <4> HIDE DEF v
      <4> QED BY <4>1, <4>2 DEF Lignes
    <3>2. notif' = [notif EXCEPT ![k] = [notif[k] EXCEPT !.statut = v.statut, !.delta = v.delta]]
      BY <1>6, <2>2 DEF Transiter
    <3>3. notif' \in [Contrats -> Lignes \cup {Aucun}]
      BY <2>1, <3>1, <3>2 DEF TypeOK, ValidationTypeOK
    <3>4. evts' = [evts EXCEPT ![k] = Append(evts[k], v)]
      BY <1>6, <2>2 DEF Transiter
    <3>5. evts' \in [Contrats -> Seq(Verdicts)]
      BY <2>1, <3>4 DEF TypeOK, ValidationTypeOK
    <3> QED BY <1>6, <2>1, <3>3, <3>5
            DEF Transiter, TypeOK, ValidationTypeOK, TachesCoherentes, ClicsCoherents, Libre
  <2>3. CASE ~Gagner(k)
    BY <1>6, <2>1, <2>3
    DEF Transiter, TypeOK, ValidationTypeOK, TachesCoherentes, ClicsCoherents, Libre
  <2> QED BY <2>2, <2>3
<1> QED BY <1>1, <1>2, <1>3, <1>4, <1>5, <1>6 DEF ValidationNext, Tache

\* The steps of a request keep the types.
LEMMA TypesClic ==
  ASSUME Types, NEW r \in Clics, Clic(r)
  PROVE  Types'
<1> USE ConstantesEnvoi DEF Types, effacementVars
<1>0. UNCHANGED validationVars
  BY DEF Clic, Construire, Reserver, Rendre, Reprendre, Remettre, Envoyer, Figer, FigerEnErreur
<1>1. ValidationTypeOK' /\ TachesCoherentes'
  BY <1>0 DEF validationVars, TypeOK, ValidationTypeOK, TachesCoherentes
<1> DEFINE Etats == [pc : {"repos", "reserver", "existant", "remettre", "mail", "figer"},
                     m : Messages \cup {Aucun}, issue : StatutsEnvoi]
<1>2. Inactif \in Etats
  BY DEF Inactif, StatutsEnvoi
<1>3. CASE Construire(r)
  <2>1. Concernes \in SUBSET Contrats /\ fiche \in Adresses
    BY <1>3 DEF Construire, Concernes, Routable, TypeOK, ValidationTypeOK
  <2>2. PICK e \in BOOLEAN :
          clic' = [clic EXCEPT ![r].pc = "reserver",
                               ![r].m = [dest |-> fiche,
                                         corps |-> [enfants |-> Concernes, edite |-> e]]]
    BY <1>3 DEF Construire
  <2>3. [dest |-> fiche, corps |-> [enfants |-> Concernes, edite |-> e]] \in Messages
    BY <2>1 DEF Messages, Corps
  <2>4. clic' \in [Clics -> Etats] /\ ClicsCoherents'
    BY <2>2, <2>3 DEF TypeOK, ClicsCoherents
  <2> QED BY <1>1, <1>3, <2>4 DEF Construire, TypeOK
<1>4. CASE Reserver(r)
  <2>1. clic[r].m \in Messages
    BY <1>4 DEF Reserver, ClicsCoherents
  <2>2. clic' \in [Clics -> Etats] /\ ClicsCoherents'
    <3>1. clic' = [clic EXCEPT ![r].pc = "remettre"] \/ clic' = [clic EXCEPT ![r].pc = "existant"]
      BY <1>4 DEF Reserver, Executer
    <3> QED BY <2>1, <3>1 DEF TypeOK, ClicsCoherents
  <2>3. envoi' \in Envois \cup {Aucun}
    <3>1. clic[r].m.dest \in Adresses /\ clic[r].m.corps \in Corps
      BY <2>1 DEF Messages
    <3>2. [statut |-> "EN_COURS", dest |-> clic[r].m.dest, corps |-> clic[r].m.corps,
           vieux |-> FALSE] \in Envois
      BY <3>1 DEF Envois, StatutsEnvoi
    <3> QED BY <1>4, <3>2 DEF Reserver, TypeOK
  <2>4. chevauche' \in BOOLEAN
    <3>1. CASE envoi = Aucun
      <4>1. chevauche' = (chevauche \/ \E q \in Clics \ {r} : EnEnvoi(q))
        BY <1>4, <3>1 DEF Reserver, Executer
      <4>2. (chevauche \/ \E q \in Clics \ {r} : EnEnvoi(q)) \in BOOLEAN
        OBVIOUS
      <4> QED BY <4>1, <4>2
    <3>2. CASE envoi # Aucun
      BY <1>4, <3>2 DEF Reserver, TypeOK
    <3> QED BY <3>1, <3>2
  <2> QED BY <1>1, <1>4, <2>2, <2>3, <2>4 DEF Reserver, TypeOK
<1>5. CASE Rendre(r)
  BY <1>1, <1>2, <1>5 DEF Rendre, TypeOK, ClicsCoherents, Inactif
<1>6. CASE Reprendre(r)
  <2>1. clic[r].m \in Messages
    BY <1>6 DEF Reprendre, ClicsCoherents
  <2>2. clic' \in [Clics -> Etats] /\ ClicsCoherents'
    BY <1>6, <2>1 DEF Reprendre, Executer, TypeOK, ClicsCoherents
  <2>3. chevauche' \in BOOLEAN
    BY <1>6 DEF Reprendre, Executer, TypeOK
  <2> QED BY <1>1, <1>6, <2>2, <2>3 DEF Reprendre, TypeOK
<1>7. CASE Remettre(r)
  <2>1. clic[r].m \in Messages
    BY <1>7 DEF Remettre, ClicsCoherents
  <2>2. clic' \in [Clics -> Etats] /\ ClicsCoherents'
    BY <1>7, <2>1 DEF Remettre, TypeOK, ClicsCoherents
  <2>3. envoi' \in Envois \cup {Aucun}
    BY <1>7, <2>1 DEF Remettre, LigneRemise, TypeOK, Messages, Envois, StatutsEnvoi
  <2> QED BY <1>1, <1>7, <2>2, <2>3 DEF Remettre, TypeOK
<1>8. CASE Envoyer(r)
  <2>1. clic[r].m \in Messages
    BY <1>8 DEF Envoyer, ClicsCoherents
  <2>2. PICK issue \in StatutsEnvoi : clic' = [clic EXCEPT ![r].pc = "figer", ![r].issue = issue]
    BY <1>8 DEF Envoyer, StatutsEnvoi
  <2>3. clic' \in [Clics -> Etats] /\ ClicsCoherents'
    BY <2>1, <2>2 DEF TypeOK, ClicsCoherents
  <2>4. mails' = mails \/ mails' = Append(mails, clic[r].m)
    BY <1>8 DEF Envoyer
  <2>5. mails' \in Seq(Messages)
    BY <2>1, <2>4 DEF TypeOK
  <2>6. doutes' \in Nat
    BY <1>8 DEF Envoyer, TypeOK
  <2> QED BY <1>1, <1>8, <2>3, <2>5, <2>6 DEF Envoyer, TypeOK
<1>9. CASE Figer(r)
  <2>1. clic' \in [Clics -> Etats] /\ ClicsCoherents'
    BY <1>2, <1>9 DEF Figer, TypeOK, ClicsCoherents, Inactif
  <2>2. envoi' \in Envois \cup {Aucun}
    BY <1>9 DEF Figer, TypeOK, Envois
  <2> QED BY <1>1, <1>9, <2>1, <2>2 DEF Figer, TypeOK
<1>10. CASE FigerEnErreur(r)
  <2>1. clic' \in [Clics -> Etats] /\ ClicsCoherents'
    BY <1>10 DEF FigerEnErreur, TypeOK, ClicsCoherents, StatutsEnvoi
  <2> QED BY <1>1, <1>10, <2>1 DEF FigerEnErreur, TypeOK
<1> QED BY <1>3, <1>4, <1>5, <1>6, <1>7, <1>8, <1>9, <1>10 DEF Clic

\* Every step keeps the types.
LEMMA TypesNext == Types /\ [Next]_vars => Types'
<1> SUFFICES ASSUME Types, [Next]_vars PROVE Types'
  OBVIOUS
<1> USE ConstantesEnvoi DEF effacementVars
<1>1. CASE UNCHANGED vars
  BY <1>1 DEF vars, validationVars, envoiVars, Types, TypeOK, ValidationTypeOK, TachesCoherentes,
              ClicsCoherents
<1>2. CASE ValidationNext /\ UNCHANGED envoiVars
  BY <1>2, TypesValidation
<1>3. CASE EtablissementRecu \/ EtablissementSupprime
  <2>1. ficheRevenue' \in BOOLEAN
    BY <1>3 DEF EtablissementRecu, EtablissementSupprime, Types, TypeOK
  <2> QED BY <1>3, <2>1 DEF EtablissementRecu, EtablissementSupprime, validationVars, Types, TypeOK,
              ValidationTypeOK, TachesCoherentes, ClicsCoherents
<1>4. ASSUME NEW k \in Contrats, ContratRecu(k) \/ ContratSupprime(k) PROVE Types'
  BY <1>4 DEF ContratRecu, ContratSupprime, Types, TypeOK, ValidationTypeOK, TachesCoherentes,
              ClicsCoherents
<1>5. CASE Vieillir
  <2>1. envoi' \in Envois
    BY <1>5 DEF Vieillir, Types, TypeOK, Envois
  <2> QED BY <1>5, <2>1
          DEF Vieillir, validationVars, Types, TypeOK, ValidationTypeOK, TachesCoherentes, ClicsCoherents
<1>6. ASSUME NEW r \in Clics, Clic(r) PROVE Types'
  BY <1>6, TypesClic
<1>7. CASE Arret
  BY <1>7 DEF Arret, Libre, Inactif, Locaux, StatutsEnvoi, Types, TypeOK, ValidationTypeOK,
              TachesCoherentes, ClicsCoherents
<1>8. CASE FoyerSupprime
  BY <1>8 DEF FoyerSupprime, ContratsApresEffacement, Types, TypeOK, ValidationTypeOK,
              TachesCoherentes, ClicsCoherents
<1> QED BY <1>1, <1>2, <1>3, <1>4, <1>5, <1>6, <1>7, <1>8 DEF Next

\* The tables and the local states keep their types, whatever is interleaved
\* (validation.service.ts, envoi.service.ts).
THEOREM TypeCorrect == Spec => []TypeOK
<1>1. Types => TypeOK
  BY DEF Types
<1> QED BY TypesInit, TypesNext, <1>1, PTL DEF Spec

\* The types as an invariant.
LEMMA TypesTenus == Spec => []Types
BY TypesInit, TypesNext, PTL DEF Spec

(***************************************************************************)
(* One verdict per week: a line that awaits its validation has published   *)
(* nothing, and so has a line that is still to be inserted.                *)
(***************************************************************************)
Publie(k) ==
  IF notif[k] = Aucun \/ notif[k].statut = "A_VALIDER" THEN <<>>
  ELSE <<[statut |-> notif[k].statut, delta |-> notif[k].delta]>>

IVerdict == ~efface => \A k \in Contrats : evts[k] = Publie(k)

\* A step of the validation keeps IVerdict: only the UPDATE that wins the
\* compare-and-set publishes, and it found a line that had published nothing.
LEMMA VerdictValidation ==
  ASSUME Types, IVerdict, ValidationNext, UNCHANGED envoiVars
  PROVE  IVerdict'
<1> USE ConstantesValidation DEF Types, envoiVars, effacementVars
<1> SUFFICES ASSUME ~efface, NEW c \in Contrats PROVE evts'[c] = Publie(c)'
  BY DEF IVerdict
<1>0. evts[c] = Publie(c)
  BY DEF IVerdict
<1>1. CASE UNCHANGED <<notif, evts>>
  BY <1>0, <1>1 DEF Publie
<1>2. ASSUME NEW t \in Taches, Inserer(t) PROVE evts'[c] = Publie(c)'
  <2> DEFINE k == tache[t].k
  <2>1. k \in Contrats
    BY <1>2 DEF Inserer, TachesCoherentes
  <2>2. CASE notif[k] = Aucun /\ c = k
    <3>1. notif'[c].statut = "A_VALIDER" /\ evts' = evts
      BY <1>2, <2>1, <2>2 DEF Inserer, TypeOK, ValidationTypeOK
    <3>2. evts[c] = <<>>
      BY <1>0, <2>2 DEF Publie
    <3> QED BY <3>1, <3>2 DEF Publie
  <2>3. CASE ~(notif[k] = Aucun /\ c = k)
    <3>1. notif'[c] = notif[c] /\ evts' = evts
      BY <1>2, <2>1, <2>3 DEF Inserer, TypeOK, ValidationTypeOK
    <3> QED BY <1>0, <3>1 DEF Publie
  <2> QED BY <2>2, <2>3
<1>3. ASSUME NEW t \in Taches, Transiter(t) PROVE evts'[c] = Publie(c)'
  <2> DEFINE k == tache[t].k
             v == tache[t].verdict
  <2>1. k \in Contrats /\ v \in Verdicts
    BY <1>3 DEF Transiter, TachesCoherentes
  <2>2. CASE Gagner(k) /\ c = k
    <3>1. notif[k] \in Lignes /\ evts[k] = <<>>
      BY <1>0, <2>1, <2>2 DEF Gagner, AValider, Publie, TypeOK, ValidationTypeOK
    <3>2. notif' = [notif EXCEPT ![k] = [notif[k] EXCEPT !.statut = v.statut, !.delta = v.delta]]
          /\ evts' = [evts EXCEPT ![k] = Append(evts[k], v)]
      BY <1>3, <2>2 DEF Transiter
    <3>3. evts'[k] = <<v>>
      BY <2>1, <3>1, <3>2 DEF TypeOK, ValidationTypeOK
    <3>4. notif'[k] = [notif[k] EXCEPT !.statut = v.statut, !.delta = v.delta]
      BY <2>1, <3>2 DEF TypeOK, ValidationTypeOK
    <3>5. notif'[k] # Aucun /\ notif'[k].statut = v.statut /\ notif'[k].delta = v.delta
      <4> HIDE DEF v
      <4>1. notif'[k].statut = v.statut /\ notif'[k].delta = v.delta
        BY <3>1, <3>4 DEF Lignes
      <4>2. notif'[k] \in Lignes
        BY <2>1, <3>1, <3>4 DEF Lignes, Verdicts
      <4>3. Aucun \notin Lignes
        BY AucunHorsLignes
      <4> QED BY <4>1, <4>2, <4>3
    <3>6. v.statut # "A_VALIDER" /\ v = [statut |-> v.statut, delta |-> v.delta]
      BY <2>1 DEF Verdicts
    <3> QED BY <2>2, <3>3, <3>5, <3>6 DEF Publie
  <2>3. CASE ~(Gagner(k) /\ c = k)
    <3>1. notif'[c] = notif[c] /\ evts'[c] = evts[c]
      BY <1>3, <2>1, <2>3 DEF Transiter, TypeOK, ValidationTypeOK
    <3> QED BY <1>0, <3>1 DEF Publie
  <2> QED BY <2>2, <2>3
<1>4. ASSUME NEW k \in Contrats, ModifierPlanning(k) PROVE UNCHANGED <<notif, evts>>
  BY <1>4 DEF ModifierPlanning
<1>5. ASSUME NEW t \in Taches, NEW k \in Contrats, LireSemaine(t, k) \/ LireLigne(t, k)
      PROVE  UNCHANGED <<notif, evts>>
  BY <1>5 DEF LireSemaine, LireLigne
<1>6. ASSUME NEW t \in Taches, Calculer(t) PROVE UNCHANGED <<notif, evts>>
  BY <1>6 DEF Calculer
<1> QED BY <1>1, <1>2, <1>3, <1>4, <1>5, <1>6 DEF ValidationNext, Tache

\* Every step keeps IVerdict.
LEMMA VerdictNext == Types /\ IVerdict /\ [Next]_vars => IVerdict'
<1> SUFFICES ASSUME Types, IVerdict, [Next]_vars PROVE IVerdict'
  OBVIOUS
<1>1. CASE UNCHANGED <<notif, evts, efface>>
  BY <1>1 DEF IVerdict, Publie
<1>2. CASE ValidationNext /\ UNCHANGED envoiVars
  BY <1>2, VerdictValidation
<1>3. CASE FoyerSupprime
  BY <1>3 DEF FoyerSupprime, IVerdict
<1>4. CASE \/ EtablissementRecu \/ EtablissementSupprime \/ Vieillir \/ Arret \/ UNCHANGED vars
           \/ \E k \in Contrats : ContratRecu(k) \/ ContratSupprime(k)
  BY <1>1, <1>4 DEF EtablissementRecu, EtablissementSupprime, Vieillir, Arret, ContratRecu,
                    ContratSupprime, vars, validationVars, envoiVars, effacementVars
<1>5. ASSUME NEW r \in Clics, Clic(r) PROVE UNCHANGED <<notif, evts, efface>>
  BY <1>5 DEF Clic, Construire, Reserver, Rendre, Reprendre, Remettre, Envoyer, Figer, FigerEnErreur,
              validationVars, effacementVars
<1> QED BY <1>1, <1>2, <1>3, <1>4, <1>5 DEF Next

LEMMA VerdictTenu == Spec => []IVerdict
<1>1. Init => IVerdict
  BY DEF Init, ValidationInit, IVerdict, Publie
<1> QED BY TypesTenus, VerdictNext, <1>1, PTL DEF Spec

\* A validated week has published exactly one event, the verdict that its line
\* shows, whatever validations and ticks race (validation.service.ts, valider).
THEOREM UnSeulVerdict == Spec => []UnVerdict
<1>1. IVerdict => UnVerdict
  BY DEF IVerdict, UnVerdict, VerdictUnique, Publie
<1> QED BY VerdictTenu, <1>1, PTL

(***************************************************************************)
(* One mail per recap, and a line that is its proof: as long as two        *)
(* requests do not send at once, the line of a request that sends is       *)
(* unsettled and, from Remettre on, shows what the request sends.          *)
(***************************************************************************)
Dernier(m) == mails # <<>> /\ mails[Len(mails)] = m
Parti(r)   == clic[r].pc = "figer" /\ clic[r].issue = "ENVOYE"
Prouve     == envoi # Aucun /\ envoi.statut = "ENVOYE"
Compte     == IF Prouve \/ \E r \in Clics : Parti(r) THEN 1 ELSE 0

UnSeulEnEnvoi == \A r, q \in Clics : EnEnvoi(r) /\ EnEnvoi(q) => r = q
LigneOuverte  == \A r \in Clics : EnEnvoi(r) =>
                   envoi # Aucun /\ envoi.statut \in {"EN_COURS", "ECHEC"}
LigneAJour    == \A r \in Clics : clic[r].pc \in {"mail", "figer"} =>
                   /\ envoi.statut = "EN_COURS"
                   /\ clic[r].m = [dest |-> envoi.dest, corps |-> envoi.corps]
PartiDernier  == \A r \in Clics : Parti(r) => Dernier(clic[r].m)
ProuveDernier == Prouve => Dernier([dest |-> envoi.dest, corps |-> envoi.corps])
MailsComptes  == Len(mails) = doutes + Compte

Sain   == UnSeulEnEnvoi /\ LigneOuverte /\ LigneAJour /\ PartiDernier /\ ProuveDernier /\ MailsComptes
IEnvoi == ~chevauche /\ ~efface => Sain

\* A request that reserves the line or resumes it is the only one to send: the
\* overlap is recorded.
LEMMA SainExecuter ==
  ASSUME Types, Sain, NEW r \in Clics, clic[r].pc \in {"reserver", "existant"},
         Executer(r), ~chevauche', UNCHANGED <<mails, doutes>>,
         envoi' # Aucun, envoi'.statut \in {"EN_COURS", "ECHEC"},
         envoi # Aucun => envoi' = envoi
  PROVE  Sain'
<1> USE DEF Types, Sain
<1>1. \A q \in Clics \ {r} : ~EnEnvoi(q) /\ clic'[q] = clic[q]
  BY DEF Executer, TypeOK
<1>2. clic'[r].pc = "remettre"
  BY DEF Executer, TypeOK
<1>3. \A q \in Clics : clic'[q].pc \notin {"mail", "figer"}
  BY <1>1, <1>2 DEF EnEnvoi
<1>4. UnSeulEnEnvoi' /\ LigneOuverte'
  BY <1>1, <1>2 DEF UnSeulEnEnvoi, LigneOuverte, EnEnvoi
<1>5. LigneAJour' /\ PartiDernier' /\ ProuveDernier'
  BY <1>3 DEF LigneAJour, PartiDernier, ProuveDernier, Parti, Prouve
<1>6. MailsComptes'
  <2>1. ~Prouve /\ ~(\E q \in Clics : Parti(q))
    BY <1>1 DEF Prouve, Parti, EnEnvoi
  <2>2. ~Prouve' /\ ~(\E q \in Clics : Parti(q))'
    BY <1>3 DEF Prouve, Parti
  <2> QED BY <2>1, <2>2 DEF MailsComptes, Compte
<1> QED BY <1>4, <1>5, <1>6

\* A step that leaves the line, the mails and the requests that send alone.
LEMMA SainInchange ==
  ASSUME Types, Sain, UNCHANGED <<mails, doutes>>,
         envoi' = envoi \/ (envoi # Aucun /\ envoi' = [envoi EXCEPT !.vieux = TRUE]),
         \A q \in Clics : clic'[q] = clic[q] \/ (~EnEnvoi(q) /\ ~EnEnvoi(q)')
  PROVE  Sain'
<1> USE DEF Types, Sain
<1>1. (envoi' = Aucun <=> envoi = Aucun)
      /\ (envoi # Aucun => envoi'.statut = envoi.statut /\ envoi'.dest = envoi.dest
                                                      /\ envoi'.corps = envoi.corps)
  BY AucunHorsEnvois DEF TypeOK, Envois
<1>2. \A q \in Clics : /\ EnEnvoi(q)' => clic'[q] = clic[q] /\ EnEnvoi(q)
                       /\ EnEnvoi(q) => clic'[q] = clic[q] /\ EnEnvoi(q)'
  BY DEF EnEnvoi
<1>3. \A q \in Clics : Parti(q)' <=> Parti(q)
  BY <1>2 DEF Parti, EnEnvoi
<1>4. Prouve' <=> Prouve
  BY <1>1 DEF Prouve
<1>5. UnSeulEnEnvoi' /\ LigneOuverte'
  BY <1>1, <1>2 DEF UnSeulEnEnvoi, LigneOuverte
<1>6. LigneAJour'
  BY <1>1, <1>2 DEF LigneAJour, LigneOuverte, EnEnvoi
<1>7. PartiDernier' /\ ProuveDernier'
  BY <1>1, <1>2, <1>3, <1>4 DEF PartiDernier, ProuveDernier, Parti, Prouve, Dernier, EnEnvoi
<1>8. MailsComptes'
  BY <1>3, <1>4 DEF MailsComptes, Compte
<1> QED BY <1>5, <1>6, <1>7, <1>8

\* The steps of a request that sends: the others do not.
LEMMA SainEnvoi ==
  ASSUME Types, Sain, NEW r \in Clics,
         Remettre(r) \/ Envoyer(r) \/ Figer(r) \/ FigerEnErreur(r)
  PROVE  Sain'
<1> USE DEF Types, Sain
<1>1. EnEnvoi(r) /\ envoi # Aucun /\ envoi \in Envois /\ envoi.statut \in {"EN_COURS", "ECHEC"}
  BY DEF Remettre, Envoyer, Figer, FigerEnErreur, EnEnvoi, LigneOuverte, TypeOK
<1>2. clic[r].m \in Messages
  BY <1>1 DEF EnEnvoi, ClicsCoherents
<1>3. \A q \in Clics \ {r} : ~EnEnvoi(q) /\ clic'[q] = clic[q]
  BY <1>1 DEF UnSeulEnEnvoi, Remettre, Envoyer, Figer, FigerEnErreur, TypeOK
<1>4. \A q \in Clics \ {r} : ~EnEnvoi(q)' /\ ~Parti(q) /\ ~Parti(q)'
  BY <1>3 DEF EnEnvoi, Parti
<1>5. UnSeulEnEnvoi' /\ ~Prouve
  BY <1>1, <1>4 DEF UnSeulEnEnvoi, Prouve
<1>6. CASE Remettre(r)
  <2>1. /\ envoi' = LigneRemise(clic[r].m) /\ clic'[r] = [clic[r] EXCEPT !.pc = "mail"]
        /\ UNCHANGED <<mails, doutes>>
    BY <1>1, <1>6 DEF Remettre, TypeOK
  <2>2. clic'[r].pc = "mail" /\ clic'[r].m = clic[r].m
    BY <2>1 DEF TypeOK
  <2>3. /\ envoi'.statut = "EN_COURS" /\ envoi'.dest = clic[r].m.dest
        /\ envoi'.corps = clic[r].m.corps
    BY <1>1, <2>1 DEF LigneRemise, Envois
  <2>4. envoi' # Aucun
    <3>1. clic[r].m.dest \in Adresses /\ clic[r].m.corps \in Corps
      BY <1>2 DEF Messages
    <3>2. envoi' \in Envois
      BY <1>1, <2>1, <3>1 DEF LigneRemise, Envois, StatutsEnvoi
    <3> QED BY <3>2, AucunHorsEnvois
  <2>5. clic[r].m = [dest |-> clic[r].m.dest, corps |-> clic[r].m.corps]
    BY <1>2 DEF Messages
  <2>6. LigneOuverte' /\ LigneAJour'
    BY <1>4, <2>2, <2>3, <2>4, <2>5 DEF LigneOuverte, LigneAJour, EnEnvoi
  <2>7. ~(\E q \in Clics : Parti(q)) /\ ~(\E q \in Clics : Parti(q))' /\ ~Prouve'
    BY <1>4, <1>6, <2>2, <2>3 DEF Remettre, Parti, Prouve
  <2>8. PartiDernier' /\ ProuveDernier'
    BY <2>7 DEF PartiDernier, ProuveDernier
  <2>9. MailsComptes'
    BY <1>5, <2>1, <2>7 DEF MailsComptes, Compte
  <2> QED BY <1>5, <2>6, <2>8, <2>9
<1>7. CASE Envoyer(r)
  <2>1. PICK issue \in {"ENVOYE", "ECHEC", "DRY_RUN"} :
          /\ clic' = [clic EXCEPT ![r].pc = "figer", ![r].issue = issue]
          /\ \/ issue = "ENVOYE" /\ mails' = Append(mails, clic[r].m) /\ UNCHANGED doutes
             \/ issue # "ENVOYE" /\ UNCHANGED <<mails, doutes>>
             \/ issue = "ECHEC" /\ mails' = Append(mails, clic[r].m) /\ doutes' = doutes + 1
    BY <1>7 DEF Envoyer
  <2>2. clic'[r].pc = "figer" /\ clic'[r].m = clic[r].m /\ clic'[r].issue = issue /\ envoi' = envoi
    BY <1>7, <2>1 DEF Envoyer, TypeOK
  <2>3. LigneOuverte' /\ LigneAJour' /\ ~Prouve'
    BY <1>1, <1>4, <1>5, <1>7, <2>2 DEF LigneOuverte, LigneAJour, EnEnvoi, Prouve, Envoyer
  <2>4. ~(\E q \in Clics : Parti(q)) /\ ((\E q \in Clics : Parti(q))' <=> issue = "ENVOYE")
    BY <1>4, <1>7, <2>2 DEF Envoyer, Parti
  <2>5. Compte = 0 /\ Compte' = (IF issue = "ENVOYE" THEN 1 ELSE 0)
    BY <1>5, <2>3, <2>4 DEF Compte
  <2>6. MailsComptes'
    BY <1>2, <2>1, <2>5 DEF MailsComptes, TypeOK
  <2>7. PartiDernier'
    <3>1. ASSUME issue = "ENVOYE" PROVE Dernier(clic[r].m)'
      BY <1>2, <2>1, <2>2, <3>1 DEF Dernier, TypeOK
    <3> QED BY <1>4, <2>2, <3>1 DEF PartiDernier, Parti, Dernier
  <2> QED BY <1>5, <2>3, <2>6, <2>7 DEF ProuveDernier
<1>8. CASE Figer(r)
  <2>1. clic'[r] = Inactif /\ envoi' = [envoi EXCEPT !.statut = clic[r].issue]
        /\ UNCHANGED <<mails, doutes>>
    BY <1>1, <1>8 DEF Figer, TypeOK
  <2>2. envoi'.statut = clic[r].issue /\ envoi'.dest = envoi.dest /\ envoi'.corps = envoi.corps
    BY <1>1, <2>1 DEF Envois
  <2>3. envoi' # Aucun
    <3>1. envoi' \in Envois
      BY <1>1, <2>1 DEF Envois, TypeOK
    <3> QED BY <3>1, AucunHorsEnvois
  <2>4. \A q \in Clics : ~EnEnvoi(q)'
    BY <1>4, <2>1 DEF EnEnvoi, Inactif
  <2>5. ~(\E q \in Clics : Parti(q))' /\ ((\E q \in Clics : Parti(q)) <=> Parti(r))
    BY <1>4, <2>4 DEF Parti, EnEnvoi
  <2>6. Prouve' <=> Parti(r)
    BY <1>8, <2>2, <2>3 DEF Prouve, Parti, Figer
  <2>7. MailsComptes'
    BY <1>5, <2>1, <2>5, <2>6 DEF MailsComptes, Compte
  <2>8. ProuveDernier'
    BY <1>8, <2>1, <2>2, <2>6 DEF ProuveDernier, PartiDernier, LigneAJour, Figer, Dernier
  <2>9. LigneOuverte' /\ LigneAJour' /\ PartiDernier'
    BY <2>4 DEF LigneOuverte, LigneAJour, PartiDernier, EnEnvoi, Parti
  <2> QED BY <1>5, <2>7, <2>8, <2>9
<1>9. CASE FigerEnErreur(r)
  <2>1. /\ clic'[r] = [clic[r] EXCEPT !.issue = "ECHEC"] /\ UNCHANGED <<envoi, mails>>
        /\ doutes' = IF Parti(r) THEN doutes + 1 ELSE doutes
    BY <1>9 DEF FigerEnErreur, TypeOK, Parti
  <2>2. clic'[r].pc = "figer" /\ clic'[r].m = clic[r].m /\ clic'[r].issue = "ECHEC"
    BY <1>9, <2>1 DEF FigerEnErreur, TypeOK
  <2>3. LigneOuverte' /\ LigneAJour' /\ ~Prouve'
    BY <1>1, <1>4, <1>5, <1>9, <2>1, <2>2
    DEF LigneOuverte, LigneAJour, EnEnvoi, Prouve, FigerEnErreur
  <2>4. ~(\E q \in Clics : Parti(q))' /\ ((\E q \in Clics : Parti(q)) <=> Parti(r))
    BY <1>4, <2>2 DEF Parti
  <2>5. MailsComptes'
    BY <1>5, <2>1, <2>3, <2>4 DEF MailsComptes, Compte, TypeOK
  <2>6. PartiDernier' /\ ProuveDernier'
    BY <2>3, <2>4 DEF PartiDernier, ProuveDernier
  <2> QED BY <1>5, <2>3, <2>5, <2>6
<1> QED BY <1>6, <1>7, <1>8, <1>9

\* Every step keeps IEnvoi.
LEMMA EnvoiNext == Types /\ IEnvoi /\ [Next]_vars => IEnvoi'
<1> SUFFICES ASSUME Types, IEnvoi, [Next]_vars, ~chevauche', ~efface' PROVE Sain'
  BY DEF IEnvoi
<1> USE DEF effacementVars
<1> DEFINE Muet == \/ envoi' = envoi
                   \/ envoi # Aucun /\ envoi' = [envoi EXCEPT !.vieux = TRUE]
<1>1. CASE UNCHANGED <<clic, mails, doutes, chevauche, efface>> /\ Muet
  BY <1>1, SainInchange DEF IEnvoi
<1>2. CASE UNCHANGED vars \/ (ValidationNext /\ UNCHANGED envoiVars) \/ EtablissementRecu
           \/ EtablissementSupprime \/ Vieillir \/ \E k \in Contrats : ContratRecu(k) \/ ContratSupprime(k)
  BY <1>1, <1>2 DEF vars, envoiVars, effacementVars, EtablissementRecu, EtablissementSupprime,
                    Vieillir, ContratRecu, ContratSupprime
<1>3. CASE Arret
  <2>1. Sain
    BY <1>3 DEF Arret, IEnvoi
  <2>2. \A r \in Clics : ~EnEnvoi(r)'
    BY <1>3 DEF Arret, EnEnvoi, Inactif
  <2>3. UNCHANGED <<envoi, mails>>
    BY <1>3 DEF Arret
  <2>4. ~(\E r \in Clics : Parti(r))' /\ (Prouve' <=> Prouve)
    BY <2>2, <2>3 DEF Parti, EnEnvoi, Prouve
  <2>5. (\E r \in Clics : Parti(r)) => ~Prouve
    BY <2>1 DEF Sain, Parti, LigneOuverte, EnEnvoi, Prouve
  <2>6. doutes' = IF \E r \in Clics : Parti(r) THEN doutes + 1 ELSE doutes
    BY <1>3 DEF Arret, Parti
  <2>7. MailsComptes'
    BY <2>1, <2>3, <2>4, <2>5, <2>6 DEF Sain, MailsComptes, Compte, Types, TypeOK
  <2>8. UnSeulEnEnvoi' /\ LigneOuverte' /\ LigneAJour' /\ PartiDernier'
    BY <2>2 DEF UnSeulEnEnvoi, LigneOuverte, LigneAJour, PartiDernier, EnEnvoi, Parti
  <2>9. ProuveDernier'
    BY <2>1, <2>3, <2>4 DEF Sain, ProuveDernier, Prouve, Dernier
  <2> QED BY <2>7, <2>8, <2>9 DEF Sain
<1>4. CASE FoyerSupprime
  BY <1>4 DEF FoyerSupprime
<1>5. ASSUME NEW r \in Clics, Construire(r) \/ Rendre(r) \/ (Reserver(r) /\ envoi # Aucun)
      PROVE  Sain'
  <2>1. UNCHANGED <<envoi, mails, doutes, chevauche, efface>>
    BY <1>5 DEF Construire, Rendre, Reserver
  <2>2. \A q \in Clics : clic'[q] = clic[q] \/ (~EnEnvoi(q) /\ ~EnEnvoi(q)')
    BY <1>5 DEF Construire, Rendre, Reserver, EnEnvoi, Inactif, Types, TypeOK
  <2> QED BY <2>1, <2>2, SainInchange DEF IEnvoi
<1>6. ASSUME NEW r \in Clics, Reserver(r), envoi = Aucun PROVE Sain'
  <2>1. /\ Executer(r) /\ UNCHANGED <<mails, doutes, efface>> /\ clic[r].pc = "reserver"
        /\ envoi' = [statut |-> "EN_COURS", dest |-> clic[r].m.dest, corps |-> clic[r].m.corps,
                     vieux |-> FALSE]
    BY <1>6 DEF Reserver
  <2>2. clic[r].m \in Messages
    BY <2>1 DEF Types, ClicsCoherents
  <2>3. envoi' # Aucun /\ envoi'.statut = "EN_COURS"
    <3>1. clic[r].m.dest \in Adresses /\ clic[r].m.corps \in Corps
      BY <2>2 DEF Messages
    <3>2. envoi' \in Envois
      BY <2>1, <3>1 DEF Envois, StatutsEnvoi
    <3> QED BY <2>1, <3>2, AucunHorsEnvois
  <2>4. ~chevauche /\ ~efface
    BY <2>1 DEF Executer
  <2> QED BY <1>6, <2>1, <2>3, <2>4, SainExecuter DEF IEnvoi
<1>7. ASSUME NEW r \in Clics, Reprendre(r) PROVE Sain'
  <2>1. /\ Executer(r) /\ UNCHANGED <<envoi, mails, doutes, efface>> /\ clic[r].pc = "existant"
        /\ ~ARendre
    BY <1>7 DEF Reprendre
  <2>2. envoi # Aucun /\ envoi.statut \in {"EN_COURS", "ECHEC"}
    BY <2>1 DEF ARendre, Types, TypeOK, Envois, StatutsEnvoi
  <2>3. ~chevauche /\ ~efface
    BY <2>1 DEF Executer
  <2> QED BY <2>1, <2>2, <2>3, SainExecuter DEF IEnvoi
<1>8. ASSUME NEW r \in Clics, Remettre(r) \/ Envoyer(r) \/ Figer(r) \/ FigerEnErreur(r) PROVE Sain'
  <2>1. UNCHANGED <<chevauche, efface>>
    BY <1>8 DEF Remettre, Envoyer, Figer, FigerEnErreur
  <2> QED BY <1>8, <2>1, SainEnvoi DEF IEnvoi
<1> QED BY <1>2, <1>3, <1>4, <1>5, <1>6, <1>7, <1>8 DEF Next, Clic

LEMMA EnvoiTenu == Spec => []IEnvoi
<1>1. Init => IEnvoi
  <2> SUFFICES ASSUME Init PROVE Sain
    BY DEF IEnvoi
  <2>1. envoi = Aucun /\ mails = <<>> /\ doutes = 0 /\ \A r \in Clics : clic[r].pc = "repos"
    BY DEF Init, Inactif
  <2>2. Compte = 0
    BY <2>1 DEF Compte, Prouve, Parti
  <2>3. MailsComptes
    BY <2>1, <2>2 DEF MailsComptes
  <2> QED BY <2>1, <2>3
          DEF Sain, UnSeulEnEnvoi, LigneOuverte, LigneAJour, PartiDernier, ProuveDernier, EnEnvoi,
              Parti, Prouve
<1> QED BY TypesTenus, EnvoiNext, <1>1, PTL DEF Spec

\* The line ENVOYE shows the address and the text of the last mail that the
\* establishment received, resumptions included (envoi.service.ts, executerEnvoi).
THEOREM LigneProuve == Spec => []PreuveDEnvoi
<1>1. IEnvoi => PreuveDEnvoi
  BY DEF IEnvoi, Sain, ProuveDernier, Prouve, Dernier, PreuveDEnvoi
<1> QED BY EnvoiTenu, <1>1, PTL

\* Apart from the mails whose outcome could not be recorded, the establishment
\* receives one mail per recap (envoi.service.ts, reprendreOuRendre).
THEOREM UnMailParRecap == Spec => []UnSeulMail
<1>1. IEnvoi => UnSeulMail
  BY DEF IEnvoi, Sain, MailsComptes, Compte, Prouve, Parti, UnSeulMail
<1> QED BY EnvoiTenu, <1>1, PTL

(***************************************************************************)
(* The erasure: what the tables and the steps in progress hold goes back   *)
(* to rows that were projected again after it.                             *)
(***************************************************************************)
LignesRevenues ==
  /\ contrats \subseteq revenus
  /\ \A k \in Contrats : notif[k] # Aucun => k \in revenus
  /\ \A t \in Taches : tache[t].pc # "repos" => tache[t].k \in revenus

MailsRevenus ==
  /\ fiche # Aucun => ficheRevenue
  /\ envoi # Aucun => revenus # {} /\ ficheRevenue
  /\ \A r \in Clics : clic[r].pc # "repos" => revenus # {} /\ ficheRevenue

IEffacement == efface /\ ~enVol => LignesRevenues /\ MailsRevenus

\* The steps of the validation.
LEMMA EffacementValidation ==
  ASSUME Types, LignesRevenues, ValidationNext, UNCHANGED envoiVars
  PROVE  LignesRevenues'
<1> USE DEF Types, TypeOK, ValidationTypeOK, LignesRevenues, envoiVars, effacementVars
<1>1. ASSUME NEW k \in Contrats, ModifierPlanning(k) PROVE LignesRevenues'
  BY <1>1 DEF ModifierPlanning
<1>2. ASSUME NEW t \in Taches, NEW k \in Contrats, LireSemaine(t, k) \/ LireLigne(t, k)
      PROVE  LignesRevenues'
  <2>1. UNCHANGED <<contrats, notif, revenus>> /\ k \in revenus
    BY <1>2 DEF LireSemaine, LireLigne, AValider
  <2>2. tache'[t].k = k /\ \A u \in Taches \ {t} : tache'[u] = tache[u]
    BY <1>2 DEF LireSemaine, LireLigne, Libre
  <2> QED BY <2>1, <2>2
<1>3. ASSUME NEW t \in Taches, Inserer(t) \/ Transiter(t) PROVE LignesRevenues'
  <2>1. tache[t].k \in Contrats /\ tache[t].k \in revenus
    BY <1>3 DEF Inserer, Transiter, TachesCoherentes
  <2>2. /\ UNCHANGED <<contrats, revenus>>
        /\ tache'[t].pc = "repos" /\ \A u \in Taches \ {t} : tache'[u] = tache[u]
    BY <1>3 DEF Inserer, Transiter, Libre
  <2>3. \A k \in Contrats \ {tache[t].k} : notif'[k] = notif[k]
    BY <1>3, <2>1 DEF Inserer, Transiter
  <2> QED BY <2>1, <2>2, <2>3
<1>4. ASSUME NEW t \in Taches, Calculer(t) PROVE LignesRevenues'
  <2>1. /\ UNCHANGED <<contrats, notif, revenus>> /\ tache[t].pc # "repos"
        /\ \E w : tache' = [tache EXCEPT ![t].pc = "transiter", ![t].verdict = w]
    BY <1>4 DEF Calculer
  <2>2. tache'[t].k = tache[t].k /\ \A u \in Taches \ {t} : tache'[u] = tache[u]
    BY <2>1 DEF Locaux
  <2> QED BY <2>1, <2>2
<1> QED BY <1>1, <1>2, <1>3, <1>4 DEF ValidationNext, Tache

\* The steps of a request: it begins with a contract and an establishment that
\* are known.
LEMMA EffacementClic ==
  ASSUME Types, LignesRevenues, MailsRevenus, NEW r \in Clics, Clic(r)
  PROVE  LignesRevenues' /\ MailsRevenus'
<1> USE DEF Types, TypeOK, LignesRevenues, MailsRevenus
<1>1. /\ UNCHANGED validationVars /\ UNCHANGED effacementVars /\ fiche' = fiche
      /\ \A q \in Clics \ {r} : clic'[q] = clic[q]
  BY DEF Clic, Construire, Reserver, Executer, Rendre, Reprendre, Remettre, Envoyer, Figer,
         FigerEnErreur
<1>2. revenus # {} /\ ficheRevenue
  <2>1. CASE Construire(r)
    BY <2>1, ConstantesEnvoi DEF Construire, Concernes, Routable
  <2>2. CASE ~Construire(r)
    <3>1. clic[r].pc # "repos"
      BY <2>2 DEF Clic, Reserver, Rendre, Reprendre, Remettre, Envoyer, Figer, FigerEnErreur
    <3> QED BY <3>1
  <2> QED BY <2>1, <2>2
<1> QED BY <1>1, <1>2 DEF validationVars, effacementVars

\* Every step keeps IEffacement.
LEMMA EffacementNext == Types /\ IEffacement /\ [Next]_vars => IEffacement'
<1> SUFFICES ASSUME Types, IEffacement, [Next]_vars, efface', ~enVol'
             PROVE  LignesRevenues' /\ MailsRevenus'
  BY DEF IEffacement
<1> USE DEF Types, TypeOK, effacementVars
<1>1. CASE FoyerSupprime
  BY <1>1 DEF FoyerSupprime, ContratsApresEffacement, LignesRevenues, MailsRevenus
<1>2. CASE ValidationNext /\ UNCHANGED envoiVars
  <2>1. LignesRevenues /\ MailsRevenus
    BY <1>2 DEF IEffacement, envoiVars
  <2> QED BY <1>2, <2>1, EffacementValidation DEF MailsRevenus, envoiVars
<1>3. ASSUME NEW r \in Clics, Clic(r) PROVE LignesRevenues' /\ MailsRevenus'
  <2>1. UNCHANGED effacementVars
    BY <1>3 DEF Clic, Construire, Reserver, Rendre, Reprendre, Remettre, Envoyer, Figer, FigerEnErreur
  <2> QED BY <1>3, <2>1, EffacementClic DEF IEffacement
<1>4. CASE EtablissementRecu \/ EtablissementSupprime
  BY <1>4 DEF EtablissementRecu, EtablissementSupprime, validationVars, IEffacement, LignesRevenues,
              MailsRevenus
<1>5. ASSUME NEW k \in Contrats, ContratRecu(k) \/ ContratSupprime(k)
      PROVE  LignesRevenues' /\ MailsRevenus'
  BY <1>5 DEF ContratRecu, ContratSupprime, IEffacement, LignesRevenues, MailsRevenus
<1>6. CASE Vieillir
  BY <1>6 DEF Vieillir, validationVars, IEffacement, LignesRevenues, MailsRevenus
<1>7. CASE Arret
  BY <1>7 DEF Arret, Libre, Inactif, IEffacement, LignesRevenues, MailsRevenus
<1>8. CASE UNCHANGED vars
  BY <1>8 DEF vars, validationVars, envoiVars, IEffacement, LignesRevenues, MailsRevenus
<1> QED BY <1>1, <1>2, <1>3, <1>4, <1>5, <1>6, <1>7, <1>8 DEF Next

\* After the erasure of the household a week comes back only for a contract
\* that a late event projected again, and the mail only if the establishment
\* was too, but for a step already in progress (appliquerFoyerSupprime,
\* appliquerContratCree, appliquerEtablissementEtat).
THEOREM RienNeRevient == Spec => []EffacementTenu
<1>1. Init => IEffacement
  BY DEF Init, IEffacement
<1>2. IEffacement => EffacementTenu
  BY DEF IEffacement, LignesRevenues, MailsRevenus, EffacementTenu
<1> QED BY TypesTenus, <1>1, <1>2, EffacementNext, PTL DEF Spec
=============================================================================
