------------------------- MODULE JetStreamConsumer -------------------------
(***************************************************************************)
(* The idempotent JetStream consumer shared by the services                *)
(* (libs/nest-commons/src/lib/messaging/jetstream-consumer.ts): one durable *)
(* bound to one stream, and the loop that projects its messages one after  *)
(* the other, then acknowledges, re-asks or dead-letters them.             *)
(*                                                                         *)
(* The broker keeps, for each stored message, how many times it delivered  *)
(* it and whether it is settled.  nats.js prefetches: a delivered copy     *)
(* waits in the iterator of consume() while the loop works on another one, *)
(* and may time out there and be delivered again.                          *)
(***************************************************************************)
EXTENDS Naturals, Sequences, FiniteSets

CONSTANTS
  Evenements,      \* envelope ids
  Inapplicables,   \* ids whose projection always throws (payload, orphan)
  Inconnus,        \* unreadable, no valid envelope, or a type not handled
  PannesConso,     \* the faults of the environment, see PannesPossibles
  Aucun,           \* stands for "no message in hand"
  MAX_LIVRAISONS,  \* max_deliver of the durable
  POSITIONS,       \* bound: positions the stream may reach
  TAMPON_MAX       \* bound: copies prefetched by the iterator

\* "base": a projection's transaction fails.  "trace": the insertion in
\* dead_letter fails.  "ackPerdu": an ack, nak or term never reaches the broker.
\* "iterateur": the iterator of consume() ends.  "arret": the process restarts.
PannesPossibles == {"base", "trace", "ackPerdu", "iterateur", "arret"}

ASSUME ConstantesConsommateur ==
  /\ Inapplicables \subseteq Evenements
  /\ Inconnus \subseteq Evenements
  /\ PannesConso \subseteq PannesPossibles
  /\ MAX_LIVRAISONS \in Nat \ {0}
  /\ POSITIONS \in Nat
  /\ TAMPON_MAX \in Nat

VARIABLES
  flux,         \* the stream: ids, possibly repeated, in stream order
  livraisons,   \* broker: deliveries of each position (deliveryCount)
  statut,       \* broker: state of each position for this durable
  liaison,      \* consumer: binding of the durable (lies) and life of its loop
  tampon,       \* consumer: copies delivered and not yet taken by the loop
  courant,      \* consumer: the copy in hand, or Aucun
  phase,        \* consumer: where traiterMessage is
  traites,      \* database: ids in processed_event
  effets,       \* database: how many times each id was applied (history)
  rejets,       \* database: ids with a line in dead_letter
  perdus        \* history: positions lost with their last delivery

brokerVars == <<livraisons, statut>>
boucleVars == <<liaison, tampon, courant, phase>>
baseVars   == <<traites, effets, rejets>>
consoVars  == <<brokerVars, boucleVars, baseVars, perdus>>
vars       == <<flux, consoVars>>

Positions == 1 .. POSITIONS
Copies    == [pos : Positions, n : 1 .. MAX_LIVRAISONS]

ASSUME AucunHorsCopies == Aucun \notin Copies

Phases == {"attente", "projection", "rejet", "epuise", "ack", "term"}

TypeOK ==
  /\ flux \in Seq(Evenements)
  /\ Len(flux) <= POSITIONS
  /\ livraisons \in [Positions -> 0 .. MAX_LIVRAISONS]
  /\ statut \in [Positions -> {"attente", "remis", "regle"}]
  /\ liaison \in {"absente", "vive", "morte"}
  /\ tampon \in Seq(Copies)
  /\ courant \in Copies \cup {Aucun}
  /\ phase \in Phases
  /\ traites \subseteq Evenements
  /\ effets \in [Evenements -> Nat]
  /\ rejets \subseteq Evenements
  /\ perdus \subseteq Positions

ConsoInit ==
  /\ livraisons = [p \in Positions |-> 0]
  /\ statut = [p \in Positions |-> "attente"]
  /\ liaison = "absente"
  /\ tampon = <<>>
  /\ courant = Aucun
  /\ phase = "attente"
  /\ traites = {}
  /\ effets = [e \in Evenements |-> 0]
  /\ rejets = {}
  /\ perdus = {}

Init == flux = <<>> /\ ConsoInit

Id == flux[courant.pos]

\* Copies of position p that the loop still has to handle.
EnMain(p) ==
  \/ courant # Aucun /\ courant.pos = p
  \/ \E i \in DOMAIN tampon : tampon[i].pos = p

----------------------------------------------------------------------------
(* The broker.                                                             *)

\* A producer stores a message; an id may come twice (relay retries).
Produire(e) ==
  /\ Len(flux) < POSITIONS
  /\ flux' = Append(flux, e)
  /\ UNCHANGED consoVars

\* Mutant: the durable has no max_deliver.
LivrerSansPlafond(p) ==
  /\ liaison = "vive"
  /\ p <= Len(flux)
  /\ statut[p] = "attente"
  /\ livraisons[p] = 0 => \A q \in 1 .. p - 1 : livraisons[q] > 0
  /\ Len(tampon) < TAMPON_MAX
  /\ livraisons' = [livraisons EXCEPT ![p] = @ + 1]
  /\ statut' = [statut EXCEPT ![p] = "remis"]
  /\ tampon' = Append(tampon, [pos |-> p, n |-> livraisons[p] + 1])
  /\ UNCHANGED <<flux, liaison, courant, phase, baseVars, perdus>>

\* Delivery of a new message, in stream order, or of one to be redelivered,
\* while it has deliveries left and the prefetch has room.
Livrer(p) ==
  /\ liaison = "vive"
  /\ p <= Len(flux)
  /\ statut[p] = "attente"
  /\ livraisons[p] < MAX_LIVRAISONS
  /\ livraisons[p] = 0 => \A q \in 1 .. p - 1 : livraisons[q] > 0
  /\ Len(tampon) < TAMPON_MAX
  /\ livraisons' = [livraisons EXCEPT ![p] = @ + 1]
  /\ statut' = [statut EXCEPT ![p] = "remis"]
  /\ tampon' = Append(tampon, [pos |-> p, n |-> livraisons[p] + 1])
  /\ UNCHANGED <<flux, liaison, courant, phase, baseVars, perdus>>

\* The acknowledgement delay (backoff) of a delivered copy elapses.
ExpirerDelai(p) ==
  /\ statut[p] = "remis"
  /\ statut' = [statut EXCEPT ![p] = "attente"]
  /\ UNCHANGED <<flux, livraisons, boucleVars, baseVars, perdus>>

\* What an ack or a term does at the broker.
Regler == statut' = [statut EXCEPT ![courant.pos] = "regle"]

\* What a nak does: the message is to be delivered again, unless settled.
Redemander ==
  statut' = [statut EXCEPT ![courant.pos] = IF @ = "remis" THEN "attente" ELSE @]

----------------------------------------------------------------------------
(* The loop: boucle, traiterMessage, gererEchecTransitoire, deadLetterEtAck. *)

\* The next message of the iterator.
Prendre ==
  /\ phase = "attente"
  /\ tampon # <<>>
  /\ courant' = Head(tampon)
  /\ tampon' = Tail(tampon)
  /\ phase' = "projection"
  /\ UNCHANGED <<flux, brokerVars, liaison, baseVars, perdus>>

\* Mutant: the effect does not depend on the insertion of the id.
AppliquerToujours(e) ==
  /\ traites' = traites \cup {e}
  /\ effets' = [effets EXCEPT ![e] = @ + 1]

\* Mutant: the id is not recorded.
AppliquerSansTrace(e) ==
  /\ effets' = IF e \in traites THEN effets ELSE [effets EXCEPT ![e] = @ + 1]
  /\ UNCHANGED traites

\* The transaction of the projection: marquerTraite inserts the id, and the
\* effect is applied only if the id was not there.  One commit for both.
AppliquerUneFois(e) ==
  /\ traites' = traites \cup {e}
  /\ effets' = IF e \in traites THEN effets ELSE [effets EXCEPT ![e] = @ + 1]

\* projection.traiter returns TRAITE.
Projeter ==
  /\ phase = "projection"
  /\ Id \notin Inconnus \cup Inapplicables
  /\ AppliquerUneFois(Id)
  /\ phase' = "ack"
  /\ UNCHANGED <<flux, brokerVars, liaison, tampon, courant, rejets, perdus>>

\* PARSE_KO, IGNORE_ENVELOPPE_INVALIDE or IGNORE_TYPE_INCONNU.
Ecarter ==
  /\ phase = "projection"
  /\ Id \in Inconnus
  /\ phase' = "rejet"
  /\ UNCHANGED <<flux, brokerVars, liaison, tampon, courant, baseVars, perdus>>

\* ECHEC_TRANSITOIRE: the projection threw and its transaction rolled back.
Echouer ==
  /\ phase = "projection"
  /\ Id \notin Inconnus
  /\ Id \in Inapplicables \/ "base" \in PannesConso

\* Mutant: a nak, even on the last delivery.
EchouerNakSansFin ==
  /\ Echouer
  /\ courant.n <= MAX_LIVRAISONS
  /\ Redemander
  /\ courant' = Aucun
  /\ phase' = "attente"
  /\ UNCHANGED <<flux, livraisons, liaison, tampon, baseVars, perdus>>

\* Not the last delivery: nak.
EchouerNak ==
  /\ Echouer
  /\ courant.n < MAX_LIVRAISONS
  /\ Redemander \/ ("ackPerdu" \in PannesConso /\ UNCHANGED statut)
  /\ courant' = Aucun
  /\ phase' = "attente"
  /\ UNCHANGED <<flux, livraisons, liaison, tampon, baseVars, perdus>>

\* Mutant: term without a line in dead_letter.
EchouerDernierSansTrace ==
  /\ Echouer
  /\ courant.n >= MAX_LIVRAISONS
  /\ phase' = "term"
  /\ UNCHANGED <<flux, brokerVars, liaison, tampon, courant, baseVars, perdus>>

\* The last delivery: the message goes to dead_letter, then term.
EchouerDernier ==
  /\ Echouer
  /\ courant.n >= MAX_LIVRAISONS
  /\ phase' = "epuise"
  /\ UNCHANGED <<flux, brokerVars, liaison, tampon, courant, baseVars, perdus>>

\* DeadLetterService.enregistrer is best effort: it swallows its own failure.
Tracer(apres) ==
  /\ \/ rejets' = rejets \cup {Id} /\ UNCHANGED perdus
     \/ "trace" \in PannesConso /\ perdus' = perdus \cup {courant.pos} /\ UNCHANGED rejets
  /\ phase' = apres
  /\ UNCHANGED <<flux, brokerVars, liaison, tampon, courant, traites, effets>>

TracerRejet  == phase = "rejet"  /\ Tracer("ack")
TracerEpuise == phase = "epuise" /\ Tracer("term")

\* message.ack() and message.term(): published without waiting for a reply.
Acquitter ==
  /\ phase \in {"ack", "term"}
  /\ Regler \/ ("ackPerdu" \in PannesConso /\ UNCHANGED statut)
  /\ courant' = Aucun
  /\ phase' = "attente"
  /\ UNCHANGED <<flux, livraisons, liaison, tampon, baseVars, perdus>>

\* What the process had prefetched or in hand when it lets go of it; a
\* message whose last delivery was there will not be delivered again.
Lacher ==
  /\ tampon' = <<>>
  /\ perdus' = perdus \cup {p \in Positions : livraisons[p] = MAX_LIVRAISONS /\ EnMain(p)}

\* lierTous, at the start and then every DELAI_BIND_MS: creates or updates the
\* durable and starts the loop.  A durable in lies is never bound again.
Lier ==
  /\ liaison = "absente"
  /\ liaison' = "vive"
  /\ UNCHANGED <<flux, brokerVars, tampon, courant, phase, baseVars, perdus>>

\* The iterator of consume() ends or throws: the for-await of boucle is left
\* for good, the durable stays in lies.
Interrompre ==
  /\ "iterateur" \in PannesConso
  /\ liaison = "vive" /\ phase = "attente"
  /\ liaison' = "morte"
  /\ Lacher
  /\ UNCHANGED <<flux, brokerVars, courant, phase, baseVars>>

\* The process stops: prefetched copies and the copy in hand are forgotten.
Redemarrer ==
  /\ "arret" \in PannesConso
  /\ liaison # "absente"
  /\ Lacher
  /\ liaison' = "absente"
  /\ courant' = Aucun
  /\ phase' = "attente"
  /\ UNCHANGED <<flux, brokerVars, baseVars>>

----------------------------------------------------------------------------
Diffuser == \E p \in Positions : Livrer(p) \/ ExpirerDelai(p)

Boucle ==
  \/ Prendre
  \/ Projeter
  \/ Ecarter
  \/ EchouerNak
  \/ EchouerDernier
  \/ TracerRejet
  \/ TracerEpuise
  \/ Acquitter

ConsoNext == Diffuser \/ Boucle \/ Lier \/ Interrompre \/ Redemarrer

Next == (\E e \in Evenements : Produire(e)) \/ ConsoNext

\* Node runs the loop whenever a message or a promise is ready, lierTous runs
\* until it succeeds; the broker delivers what it may and its timers expire.
Equite ==
  /\ WF_vars(Boucle)
  /\ WF_vars(Lier)
  /\ \A p \in Positions : SF_vars(Livrer(p)) /\ WF_vars(ExpirerDelai(p))

Spec == Init /\ [][Next]_vars
SpecEquitable == Spec /\ Equite

----------------------------------------------------------------------------
(* Properties.                                                             *)

\* The id in processed_event and the effect commit together: whatever is
\* repeated, by the relay, by the broker or after a restart, an event has at
\* most one effect (projection.service.ts, marquerTraite).
EffetUnique == \A e \in Evenements : effets[e] = IF e \in traites THEN 1 ELSE 0

\* The broker will never deliver position p again and no copy of it remains.
Abandonne(p) ==
  /\ p <= Len(flux)
  /\ statut[p] = "regle" \/ livraisons[p] = MAX_LIVRAISONS
  /\ ~EnMain(p)

Trace(p) == flux[p] \in traites \cup rejets

\* "Aucun message recu ne disparait en silence" (jetstream-consumer.ts), and
\* where it ends: what the broker gave up was applied or has a line in
\* dead_letter, unless its last delivery was in the hands of a process or of
\* an iterator that stopped, or dead_letter refused its line.
RienNeDisparait == \A p \in Positions : Abandonne(p) => Trace(p) \/ p \in perdus

\* Each stored message is applied or dead-lettered in the end, whatever the
\* restarts, but for those two losses and while the loop is alive: nothing
\* binds again a durable whose iterator has ended (lies), but a restart.
ToutAboutit ==
  \A p \in Positions :
    p <= Len(flux) ~> p <= Len(flux) /\ (Trace(p) \/ p \in perdus \/ liaison = "morte")
=============================================================================
