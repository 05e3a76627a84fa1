------------------------- MODULE ProjectionParents -------------------------
(***************************************************************************)
(* What svc-notifications keeps of the parents of a household, fed by the  *)
(* events of ParentsFoyer: the read model (foyer_parent and                *)
(* preference_notification), the inbox cards that the weekly reminder      *)
(* writes from it, and the erasure of the household                        *)
(* (consumers/projection.service.ts, destinataires.service.ts,             *)
(* scheduler.hebdo.ts, inbox.service.ts).                                  *)
(*                                                                         *)
(* A message whose handling failed comes back after the ones that follow   *)
(* it, so that events are applied in any order; processed_event has each   *)
(* applied once (EventBackbone).                                           *)
(***************************************************************************)
EXTENDS ParentsFoyer

CONSTANT InApp  \* the channel of the inbox

\* The rows of the read model carry the date of the event that wrote them.
Copies == [le : Dates, email : Emails, actif : BOOLEAN]
Choix  == [le : Dates, canaux : SUBSET Canaux]

ASSUME ConstantesCopie == InApp \in Canaux /\ Aucun \notin Copies \cup Choix

VARIABLES
  nParents, \* table foyer_parent: Copies or Aucun
  nPrefs,   \* table preference_notification: Choix or Aucun
  cartes,   \* table notification: the parents who have the card of the week
  faits,    \* table processed_event
  tick,     \* the parents whose card the reminder is about to write
  desordre, \* history: parents whose retirement and state came in reverse order
  tardifs   \* history: parents something was still coming for when the
            \* household was erased here

copie == <<nParents, nPrefs, cartes, faits, tick, desordre, tardifs>>
vars  == <<foyerVars, copie>>

TypeOK ==
  /\ FoyerTypeOK
  /\ nParents \in [Parents -> Copies \cup {Aucun}]
  /\ nPrefs \in [Parents -> Choix \cup {Aucun}]
  /\ cartes \subseteq Parents
  /\ faits \subseteq outbox
  /\ tick \subseteq Parents
  /\ desordre \subseteq Parents
  /\ tardifs \subseteq Parents

Init ==
  /\ FoyerInit
  /\ nParents = [p \in Parents |-> Aucun]
  /\ nPrefs = [p \in Parents |-> Aucun]
  /\ cartes = {} /\ faits = {} /\ tick = {}
  /\ desordre = {} /\ tardifs = {}

----------------------------------------------------------------------------
(* The projection: one transaction per message.                            *)

\* marquerTraite: e was not applied yet.
Traiter(e) ==
  /\ e \in outbox \ faits
  /\ faits' = faits \cup {e}

\* An event of the other kind on the same parent, younger than e, was applied.
Depasse(e) ==
  \E f \in faits : /\ {e.type, f.type} = {"etat", "retrait"}
                   /\ f.p = e.p /\ f.le > e.le

\* Mutant: the upsert has no setWhere.
RecentToujours(ligne, le) == TRUE

\* The row is absent or not younger than the event.
Recent(ligne, le) == ligne = Aucun \/ ligne.le <= le

\* appliquerParentEtat (ParentAjoute, ParentModifie): guarded upsert.
ParentEtat(e) ==
  /\ e.type = "etat"
  /\ Traiter(e)
  /\ nParents' = IF Recent(nParents[e.p], e.le)
                 THEN [nParents EXCEPT ![e.p] = [le |-> e.le, email |-> e.email, actif |-> e.actif]]
                 ELSE nParents
  /\ desordre' = IF Depasse(e) THEN desordre \cup {e.p} ELSE desordre
  /\ UNCHANGED <<foyerVars, nPrefs, cartes, tick, tardifs>>

\* appliquerParentRetire: neither guarded nor dated.
ParentRetire(e) ==
  /\ e.type = "retrait"
  /\ Traiter(e)
  /\ nParents' = IF nParents[e.p] = Aucun THEN nParents
                 ELSE [nParents EXCEPT ![e.p].actif = FALSE]
  /\ desordre' = IF Depasse(e) THEN desordre \cup {e.p} ELSE desordre
  /\ UNCHANGED <<foyerVars, nPrefs, cartes, tick, tardifs>>

\* appliquerPreferencesNotif: replaces the rows of the parent unless they are
\* younger.
PreferencesNotif(e) ==
  /\ e.type = "preferences"
  /\ Traiter(e)
  /\ nPrefs' = IF Recent(nPrefs[e.p], e.le)
               THEN [nPrefs EXCEPT ![e.p] = [le |-> e.le, canaux |-> e.canaux]]
               ELSE nPrefs
  /\ UNCHANGED <<foyerVars, nParents, cartes, tick, desordre, tardifs>>

\* Mutant: only the parents that the event names.
EffacesDuMessage(e) == e.ids

\* The parents whose cards and preferences are erased: those of the event and
\* those of the read model.
Effaces(e) == e.ids \cup {p \in Parents : nParents[p] # Aucun}

\* Parents something is still to be written for.
EnRoute(e) == tick \cup {p \in Parents : \E f \in outbox \ (faits \cup {e}) : f.p = p}

\* appliquerFoyerSupprime: one household, hence the whole of foyer_parent.
FoyerSupprime(e) ==
  /\ e.type = "effacement"
  /\ Traiter(e)
  /\ cartes' = cartes \ Effaces(e)
  /\ nPrefs' = [p \in Parents |-> IF p \in Effaces(e) THEN Aucun ELSE nPrefs[p]]
  /\ nParents' = [p \in Parents |-> Aucun]
  /\ tardifs' = tardifs \cup EnRoute(e)
  /\ UNCHANGED <<foyerVars, tick, desordre>>

----------------------------------------------------------------------------
(* The weekly reminder: who has the inbox channel is read once, the cards  *)
(* are written one by one after it.                                        *)

\* destinatairesInApp: active parents whose preference is projected and active.
DestinatairesInApp ==
  {p \in Parents : /\ nParents[p] # Aucun /\ nParents[p].actif
                   /\ nPrefs[p] # Aucun /\ InApp \in nPrefs[p].canaux}

LireDestinataires ==
  /\ tick = {} /\ DestinatairesInApp \ cartes # {}
  /\ tick' = DestinatairesInApp
  /\ UNCHANGED <<foyerVars, nParents, nPrefs, cartes, faits, desordre, tardifs>>

\* creer: the unique key makes the second card of a week a no-op; a failed
\* insert is logged and passed over.
CreerCarte(p) ==
  /\ p \in tick
  /\ tick' = tick \ {p}
  /\ cartes' \in {cartes, cartes \cup {p}}
  /\ UNCHANGED <<foyerVars, nParents, nPrefs, faits, desordre, tardifs>>

Projeter == \E e \in outbox : ParentEtat(e) \/ ParentRetire(e) \/ PreferencesNotif(e) \/ FoyerSupprime(e)

Emettre == FoyerNext /\ UNCHANGED copie

Next ==
  \/ Emettre
  \/ Projeter
  \/ LireDestinataires
  \/ \E p \in Parents : CreerCarte(p)

Spec == Init /\ [][Next]_vars

----------------------------------------------------------------------------
(* Properties.                                                             *)

\* When every event was applied, the notifications service sees the address,
\* the activity and the channels that the household has, whatever the order
\* of the deliveries, but for parents whose retirement came out of order and
\* for those two overlapping requests have written.
PropagationFidele ==
  faits = outbox /\ vivant =>
    \A p \in Parents \ (croises \cup desordre) : Existe(p) =>
      /\ nParents[p] # Aucun /\ nPrefs[p] # Aucun
      /\ nParents[p].email = parents[p].email
      /\ nParents[p].actif = parents[p].actif
      /\ nPrefs[p].canaux = prefs[p]

\* Once FoyerSupprime was applied, no address, preference or card is left of
\* a parent, retired or not, named by the event or not, unless an event on
\* this parent was still undelivered or the reminder was about to write the
\* card (appliquerFoyerSupprime).
EffacementTenu ==
  (\E e \in faits : e.type = "effacement") =>
    \A p \in Parents \ tardifs : /\ nParents[p] = Aucun /\ nPrefs[p] = Aucun
                                 /\ p \notin cartes
=============================================================================
