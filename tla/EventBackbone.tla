--------------------------- MODULE EventBackbone ---------------------------
(***************************************************************************)
(* The path of an integration event from a command of one service to the   *)
(* read model of another: OutboxRelay and JetStreamConsumer side by side,  *)
(* sharing the stream.  The two run in different processes, which stop and *)
(* restart independently; the relay retries what it is not sure to have    *)
(* published, so the stream may hold an id more than once.                 *)
(***************************************************************************)
EXTENDS Naturals, Sequences, FiniteSets

CONSTANTS
  Evenements, Transactions, Foyers, SansFoyer, TxDe, FoyerDe, Refuses,
  Pannes, CONCURRENCE, FLUX_MAX, TAILLE_LOT, PAGES_MAX,
  Inapplicables, Inconnus, PannesConso, Aucun, MAX_LIVRAISONS, TAMPON_MAX

VARIABLES
  txEtat, debut, fin, heure, decale, publies, fenetre, connecte,
  etape, page, lot, pleine, publiees, attente,
  flux,
  livraisons, statut, liaison, tampon, courant, phase, traites, effets, rejets, perdus

R == INSTANCE OutboxRelay
C == INSTANCE JetStreamConsumer WITH POSITIONS <- FLUX_MAX

\* The stream has room for each event once (FLUX_MAX is a bound of the model).
ASSUME ConstantesBackbone ==
  /\ R!ConstantesOutbox /\ C!ConstantesConsommateur /\ C!AucunHorsCopies
  /\ Cardinality(Evenements) <= FLUX_MAX

\* The variables of each side, apart from the stream, which the producer
\* writes and the consumer only reads.
producteurVars ==
  <<txEtat, debut, fin, heure, decale, publies, fenetre, connecte,
    etape, page, lot, pleine, publiees, attente>>
consommateurVars ==
  <<livraisons, statut, liaison, tampon, courant, phase, traites, effets, rejets, perdus>>

vars == <<producteurVars, flux, consommateurVars>>

Init == R!Init /\ C!ConsoInit

Producteur   == R!Next /\ UNCHANGED consommateurVars
Consommateur == C!ConsoNext /\ UNCHANGED producteurVars

Next == Producteur \/ Consommateur

Spec == Init /\ [][Next]_vars

----------------------------------------------------------------------------
\* The events of the committed commands.
Emis == {e \in Evenements : R!Valide(e)}

P == INSTANCE PropagationFiable WITH emis <- Emis, signales <- rejets

\* Whatever fails, is repeated or restarts on the way, the two components
\* together implement the promise of PropagationFiable (outbox.relay.ts:
\* at-least-once publication, idempotence of the consumer on the id).
Fiable == P!Spec
=============================================================================
