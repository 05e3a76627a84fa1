------------------------- MODULE EnvoiEtablissement -------------------------
(***************************************************************************)
(* The mail that a parent sends to an establishment about the weeks that   *)
(* were validated with changes (envoi/envoi.service.ts): one line          *)
(* envoi_etablissement per household, week and establishment, reserved     *)
(* before the mailer is called; a click resumes a failed or stuck line.    *)
(* The erasure of the household (consumers/projection.service.ts) may come *)
(* at any time, and so may a restart.  Nothing orders the events of the    *)
(* contracts and of the establishments with the erasure: an upsert that is *)
(* applied after it puts the row back.                                     *)
(***************************************************************************)
EXTENDS ValidationHebdo

CONSTANTS
  Clics,      \* requests "envoyer" that may be in progress at once
  Adresses,   \* e-mail addresses of the establishment
  Allowlist,  \* addresses a real mail may go to
  MAX_CLICS,  \* bound: requests begun
  MAX_FICHES, \* bound: events of the establishment
  MAX_LIGNES  \* bound: events of the contracts

ASSUME ConstantesEnvoi ==
  /\ Aucun \notin Adresses /\ "muet" \notin Adresses
  /\ Allowlist \subseteq Adresses
  /\ MAX_CLICS \in Nat /\ MAX_FICHES \in Nat /\ MAX_LIGNES \in Nat

VARIABLES
  fiche,    \* table etablissement: its address, "muet" when it is inactive or
            \* has none, or Aucun
  fiches,   \* events of the establishment so far
  lignes,   \* events of the contracts so far
  envoi,    \* table envoi_etablissement: [statut, dest, corps, vieux] or Aucun
  clic,     \* local state of each request
  clics,    \* requests begun so far
  mails,    \* what the establishment has received
  doutes,   \* history: mails received that the service could not record
  chevauche,\* history: two requests were sending at the same time
  efface,   \* history: the household was erased
  enVol,    \* history: a request or a tick was in progress at the erasure
  revenus,  \* history: contracts projected again after the erasure
  ficheRevenue \* history: so was the establishment

effacementVars == <<efface, enVol, revenus, ficheRevenue>>
envoiVars == <<fiche, fiches, lignes, envoi, clic, clics, mails, doutes, chevauche, effacementVars>>
vars == <<validationVars, envoiVars>>

\* What a mail says: the contracts whose changes it tells, as the service
\* renders them or as the parent rewrote the text.
Corps  == [enfants : SUBSET Contrats, edite : BOOLEAN]
Messages == [dest : Adresses, corps : Corps]
StatutsEnvoi == {"EN_COURS", "ENVOYE", "DRY_RUN", "ECHEC"}
Envois == [statut : StatutsEnvoi, dest : Adresses, corps : Corps, vieux : BOOLEAN]

ASSUME AucunHorsEnvois == Aucun \notin Envois

TypeOK ==
  /\ ValidationTypeOK
  /\ fiche \in Adresses \cup {"muet", Aucun}
  /\ fiches \in 0 .. MAX_FICHES /\ lignes \in 0 .. MAX_LIGNES
  /\ envoi \in Envois \cup {Aucun}
  /\ clic \in [Clics -> [pc : {"repos", "reserver", "existant", "remettre", "mail", "figer"},
                         m : Messages \cup {Aucun}, issue : StatutsEnvoi]]
  /\ clics \in 0 .. MAX_CLICS
  /\ mails \in Seq(Messages)
  /\ doutes \in Nat
  /\ chevauche \in BOOLEAN /\ efface \in BOOLEAN /\ enVol \in BOOLEAN
  /\ revenus \subseteq Contrats /\ ficheRevenue \in BOOLEAN

Inactif == [pc |-> "repos", m |-> Aucun, issue |-> "EN_COURS"]

Init ==
  /\ ValidationInit
  /\ fiche \in Adresses
  /\ fiches = 0 /\ lignes = 0 /\ clics = 0 /\ doutes = 0
  /\ chevauche = FALSE /\ efface = FALSE /\ enVol = FALSE
  /\ revenus = {} /\ ficheRevenue = FALSE
  /\ envoi = Aucun
  /\ mails = <<>>
  /\ clic = [r \in Clics |-> Inactif]

----------------------------------------------------------------------------
(* What the read model tells.                                              *)

\* EtablissementCree and EtablissementModifie: an upsert, of a row that the
\* erasure deleted as well.
EtablissementRecu ==
  /\ fiches < MAX_FICHES /\ fiches' = fiches + 1
  /\ fiche' \in (Adresses \cup {"muet"}) \ {fiche}
  /\ ficheRevenue' = (ficheRevenue \/ efface)
  /\ UNCHANGED <<validationVars, lignes, envoi, clic, clics, mails, doutes, chevauche,
                 efface, enVol, revenus>>

EtablissementSupprime ==
  /\ fiche # Aucun /\ fiches < MAX_FICHES /\ fiches' = fiches + 1
  /\ fiche' = Aucun
  /\ UNCHANGED <<validationVars, lignes, envoi, clic, clics, mails, doutes, chevauche,
                 effacementVars>>

\* ContratCree and ContratModifie: an upsert too, after ContratSupprime or
\* after the erasure when the event comes late.
ContratRecu(k) ==
  /\ k \notin contrats /\ lignes < MAX_LIGNES /\ lignes' = lignes + 1
  /\ contrats' = contrats \cup {k}
  /\ revenus' = IF efface THEN revenus \cup {k} ELSE revenus
  /\ UNCHANGED <<planning, modifs, notif, evts, tache, fiche, fiches, envoi, clic, clics,
                 mails, doutes, chevauche, efface, enVol, ficheRevenue>>

\* ContratSupprime is projected: the line of the week stays.
ContratSupprime(k) ==
  /\ k \in contrats /\ lignes < MAX_LIGNES /\ lignes' = lignes + 1
  /\ contrats' = contrats \ {k}
  /\ UNCHANGED <<planning, modifs, notif, evts, tache, fiche, fiches, envoi, clic, clics,
                 mails, doutes, chevauche, effacementVars>>

\* DELAI_REPRISE_EN_COURS_MS has passed since the line was inserted.
Vieillir ==
  /\ envoi # Aucun /\ ~envoi.vieux
  /\ envoi' = [envoi EXCEPT !.vieux = TRUE]
  /\ UNCHANGED <<validationVars, fiche, fiches, lignes, clic, clics, mails, doutes, chevauche,
                 effacementVars>>

\* enfantsConcernes: validated with changes, contract still known.
Concernes == {k \in contrats : notif[k] # Aucun /\ notif[k].statut = "VALIDEE_AVEC_MODIFS"}

\* construire: an active establishment with an address.
Routable == fiche \in Adresses

----------------------------------------------------------------------------
(* envoyer.                                                                *)

\* The guards and the draft; nothing is written when one of them refuses, the
\* window of gardeFenetreTemporelle included (it may close at any time).
Construire(r) ==
  /\ clic[r].pc = "repos" /\ clics < MAX_CLICS
  /\ Concernes # {}
  /\ Routable
  /\ clics' = clics + 1
  /\ \E e \in BOOLEAN :
       clic' = [clic EXCEPT ![r].pc = "reserver",
                            ![r].m = [dest |-> fiche,
                                      corps |-> [enfants |-> Concernes, edite |-> e]]]
  /\ UNCHANGED <<validationVars, fiche, fiches, lignes, envoi, mails, doutes, chevauche,
                 effacementVars>>

EnEnvoi(r) == clic[r].pc \in {"remettre", "mail", "figer"}

\* executerEnvoi begins.
Executer(r) ==
  /\ clic' = [clic EXCEPT ![r].pc = "remettre"]
  /\ chevauche' = (chevauche \/ \E q \in Clics \ {r} : EnEnvoi(q))

\* INSERT ... ON CONFLICT DO NOTHING of the line EN_COURS.
Reserver(r) ==
  /\ clic[r].pc = "reserver"
  /\ IF envoi = Aucun
     THEN /\ envoi' = [statut |-> "EN_COURS", dest |-> clic[r].m.dest,
                       corps |-> clic[r].m.corps, vieux |-> FALSE]
          /\ Executer(r)
     ELSE /\ clic' = [clic EXCEPT ![r].pc = "existant"]
          /\ UNCHANGED <<envoi, chevauche>>
  /\ UNCHANGED <<validationVars, fiche, fiches, lignes, clics, mails, doutes, effacementVars>>

\* Mutant: any line that is not being sent is resumed.
ARendreEnCours == envoi # Aucun => envoi.statut = "EN_COURS" /\ ~envoi.vieux

\* reprendreOuRendre answers with the line: settled, or a young EN_COURS (a
\* line that was erased is an error).
ARendre ==
  envoi # Aucun => \/ envoi.statut \in {"ENVOYE", "DRY_RUN"}
                   \/ envoi.statut = "EN_COURS" /\ ~envoi.vieux

Rendre(r) ==
  /\ clic[r].pc = "existant" /\ ARendre
  /\ clic' = [clic EXCEPT ![r] = Inactif]
  /\ UNCHANGED <<validationVars, fiche, fiches, lignes, envoi, clics, mails, doutes, chevauche,
                 effacementVars>>

Reprendre(r) ==
  /\ clic[r].pc = "existant" /\ ~ARendre
  /\ Executer(r)
  /\ UNCHANGED <<validationVars, fiche, fiches, lignes, envoi, clics, mails, doutes,
                 effacementVars>>

\* Mutant: the line keeps the address and the text of the first attempt.
LigneFigee(m) == [envoi EXCEPT !.statut = "EN_COURS"]

\* What executerEnvoi writes before the mail, without any condition on the
\* status; created_at stays.
LigneRemise(m) == [envoi EXCEPT !.statut = "EN_COURS", !.dest = m.dest, !.corps = m.corps]

Remettre(r) ==
  /\ clic[r].pc = "remettre"
  /\ envoi' = IF envoi = Aucun THEN Aucun ELSE LigneRemise(clic[r].m)
  /\ clic' = [clic EXCEPT ![r].pc = "mail"]
  /\ UNCHANGED <<validationVars, fiche, fiches, lignes, clics, mails, doutes, chevauche,
                 effacementVars>>

\* MailerService.envoyer: neutralised outside the allowlist; otherwise sent,
\* refused, or sent although the transport throws (no reply in time).
Envoyer(r) ==
  /\ clic[r].pc = "mail"
  /\ \E issue \in IF clic[r].m.dest \in Allowlist THEN {"ENVOYE", "ECHEC"} ELSE {"DRY_RUN"} :
       /\ clic' = [clic EXCEPT ![r].pc = "figer", ![r].issue = issue]
       /\ \/ issue = "ENVOYE" /\ mails' = Append(mails, clic[r].m) /\ UNCHANGED doutes
          \/ issue # "ENVOYE" /\ UNCHANGED <<mails, doutes>>
          \/ issue = "ECHEC" /\ mails' = Append(mails, clic[r].m) /\ doutes' = doutes + 1
  /\ UNCHANGED <<validationVars, fiche, fiches, lignes, envoi, clics, chevauche, effacementVars>>

\* The UPDATE of the outcome; no row is left after an erasure.
Figer(r) ==
  /\ clic[r].pc = "figer"
  /\ envoi' = IF envoi = Aucun THEN Aucun ELSE [envoi EXCEPT !.statut = clic[r].issue]
  /\ clic' = [clic EXCEPT ![r] = Inactif]
  /\ UNCHANGED <<validationVars, fiche, fiches, lignes, clics, mails, doutes, chevauche,
                 effacementVars>>

\* This UPDATE throws inside the try: the catch writes ECHEC, for a mail that left.
FigerEnErreur(r) ==
  /\ clic[r].pc = "figer" /\ clic[r].issue # "ECHEC"
  /\ clic' = [clic EXCEPT ![r].issue = "ECHEC"]
  /\ doutes' = IF clic[r].issue = "ENVOYE" THEN doutes + 1 ELSE doutes
  /\ UNCHANGED <<validationVars, fiche, fiches, lignes, envoi, clics, mails, chevauche,
                 effacementVars>>

----------------------------------------------------------------------------
\* The process stops: requests and ticks are forgotten, the lines stay.
Arret ==
  /\ \E r \in Clics : clic[r].pc # "repos"
  /\ clic' = [r \in Clics |-> Inactif]
  /\ tache' = [t \in Taches |-> Libre]
  /\ doutes' = IF \E r \in Clics : clic[r].pc = "figer" /\ clic[r].issue = "ENVOYE"
               THEN doutes + 1 ELSE doutes
  /\ UNCHANGED <<planning, modifs, contrats, notif, evts, fiche, fiches, lignes, envoi,
                 clics, mails, chevauche, effacementVars>>

\* Mutant: the read model of the contracts is forgotten.
ContratsOublies == contrats

\* appliquerFoyerSupprime erases the contracts of the household too.
ContratsApresEffacement == {}

\* appliquerFoyerSupprime, for the tables of this module.
FoyerSupprime ==
  /\ ~efface
  /\ efface' = TRUE
  /\ enVol' = (\/ \E r \in Clics : clic[r].pc # "repos"
               \/ \E t \in Taches : tache[t].pc # "repos")
  /\ notif' = [k \in Contrats |-> Aucun]
  /\ envoi' = Aucun
  /\ contrats' = ContratsApresEffacement
  /\ fiche' = Aucun
  /\ UNCHANGED <<planning, modifs, evts, tache, fiches, lignes, clic, clics, mails, doutes,
                 chevauche, revenus, ficheRevenue>>

Clic(r) ==
  \/ Construire(r) \/ Reserver(r) \/ Rendre(r) \/ Reprendre(r)
  \/ Remettre(r) \/ Envoyer(r) \/ Figer(r) \/ FigerEnErreur(r)

Next ==
  \/ ValidationNext /\ UNCHANGED envoiVars
  \/ EtablissementRecu \/ EtablissementSupprime
  \/ \E k \in Contrats : ContratRecu(k) \/ ContratSupprime(k)
  \/ Vieillir
  \/ \E r \in Clics : Clic(r)
  \/ Arret
  \/ FoyerSupprime

Spec == Init /\ [][Next]_vars

----------------------------------------------------------------------------
(* Properties.                                                             *)

\* VerdictUnique, until the household is erased.
UnVerdict == ~efface => VerdictUnique

\* The line is the proof of the mail: ENVOYE shows the address and the text of
\* the last mail received, resumptions included (executerEnvoi), unless two
\* requests were sending at once.
PreuveDEnvoi ==
  envoi # Aucun /\ ~chevauche /\ ~efface =>
    (envoi.statut = "ENVOYE" => /\ mails # <<>>
                                /\ mails[Len(mails)] = [dest |-> envoi.dest, corps |-> envoi.corps])

\* The establishment is not mailed twice for one recap: apart from the mails
\* whose outcome could not be recorded, it has received one mail if the line
\* says so or a request is about to write it, none otherwise.
UnSeulMail ==
  ~chevauche /\ ~efface =>
    Len(mails) = doutes +
      IF \/ envoi # Aucun /\ envoi.statut = "ENVOYE"
         \/ \E r \in Clics : clic[r].pc = "figer" /\ clic[r].issue = "ENVOYE"
      THEN 1 ELSE 0

\* After the erasure a weekly line can only come back for a contract that a
\* late event projected again, and the line of the mail if the establishment
\* was projected again too; what a request or a tick already begun at the
\* erasure still writes is left aside (enVol).
EffacementTenu ==
  efface /\ ~enVol =>
    /\ \A k \in Contrats \ revenus : notif[k] = Aucun
    /\ envoi # Aucun => revenus # {} /\ ficheRevenue
=============================================================================
