------------------------ MODULE EventBackbone_proofs ------------------------
(***************************************************************************)
(* The relay and the consumer, side by side on one stream, keep what each  *)
(* promises alone, and together implement PropagationFiable, for any       *)
(* events, transactions, faults and bounds.                                *)
(*                                                                         *)
(* Their invariants are proved in OutboxRelay_proofs and                   *)
(* JetStreamConsumer_proofs, instantiated here; a step of one side is a    *)
(* step of its component, and the other one sees at most a new message.    *)
(***************************************************************************)
EXTENDS EventBackbone, FiniteSetTheorems, TLAPS

RP == INSTANCE OutboxRelay_proofs
CP == INSTANCE JetStreamConsumer_proofs WITH POSITIONS <- FLUX_MAX

(***************************************************************************)
(* R and RP, C and CP, are two instances of the same definitions.          *)
(***************************************************************************)
LEMMA MemeRelais ==
  /\ R!Init <=> RP!Init
  /\ R!Next <=> RP!Next
  BY DEF R!Init, RP!Init,
      R!Next, R!Commandes, R!Commencer, R!Valider, R!Annuler, R!SousLeCycle, R!NonPublies,
      R!Valide, R!OccurredAt, R!Cycle, R!DemarrerCycle, R!LirePage, R!Tris, R!PageDe,
      R!FinDeCycle, R!LireEchec, R!Differer, R!Publier, R!EnPublication, R!Stocker,
      R!PublierEchec, R!Retenir, R!PublierSansReponse, R!Marquer, R!MarquerEchec,
      R!MarquerSansReponse, R!FinDePage, R!PageSuivante, R!Environnement, R!Redemarrer,
      R!PerdreConnexion, R!Reconnecter, R!OublierDoublon, R!txVars, R!relaisVars, R!fluxVars,
      R!Cardinality, RP!Next, RP!Commandes, RP!Commencer, RP!Valider, RP!Annuler,
      RP!SousLeCycle, RP!NonPublies, RP!Valide, RP!OccurredAt, RP!Cycle, RP!DemarrerCycle,
      RP!LirePage, RP!Tris, RP!PageDe, RP!FinDeCycle, RP!LireEchec, RP!Differer, RP!Publier,
      RP!EnPublication, RP!Stocker, RP!PublierEchec, RP!Retenir, RP!PublierSansReponse,
      RP!Marquer, RP!MarquerEchec, RP!MarquerSansReponse, RP!FinDePage, RP!PageSuivante,
      RP!Environnement, RP!Redemarrer, RP!PerdreConnexion, RP!Reconnecter, RP!OublierDoublon,
      RP!txVars, RP!relaisVars, RP!fluxVars, RP!Cardinality

LEMMA MemeConsommateur ==
  /\ C!ConsoInit <=> CP!ConsoInit
  /\ C!ConsoNext <=> CP!ConsoNext
  BY DEF C!ConsoInit, CP!ConsoInit,
      C!ConsoNext, C!Diffuser, C!Livrer, C!ExpirerDelai, C!Boucle, C!Prendre, C!Projeter,
      C!AppliquerUneFois, C!Id, C!Ecarter, C!EchouerNak, C!Echouer, C!Redemander,
      C!EchouerDernier, C!TracerRejet, C!TracerEpuise, C!Tracer, C!Acquitter, C!Regler,
      C!Lier, C!Interrompre, C!Redemarrer, C!Lacher, C!EnMain, C!Positions, C!brokerVars,
      C!boucleVars, C!baseVars, CP!ConsoNext, CP!Diffuser, CP!Livrer, CP!ExpirerDelai,
      CP!Boucle, CP!Prendre, CP!Projeter, CP!AppliquerUneFois, CP!Id, CP!Ecarter,
      CP!EchouerNak, CP!Echouer, CP!Redemander, CP!EchouerDernier, CP!TracerRejet,
      CP!TracerEpuise, CP!Tracer, CP!Acquitter, CP!Regler, CP!Lier, CP!Interrompre,
      CP!Redemarrer, CP!Lacher, CP!EnMain, CP!Positions, CP!brokerVars, CP!boucleVars,
      CP!baseVars

LEMMA Hypotheses ==
  /\ RP!ConstantesOutbox /\ CP!ConstantesConsommateur /\ CP!AucunHorsCopies
  /\ FLUX_MAX \in Nat /\ IsFiniteSet(Evenements) /\ Cardinality(Evenements) <= FLUX_MAX
  BY ConstantesBackbone
  DEF R!ConstantesOutbox, RP!ConstantesOutbox, R!PannesOutbox, RP!PannesOutbox,
      R!IsFiniteSet, RP!IsFiniteSet, IsFiniteSet,
      R!UnFoyerParCommande, RP!UnFoyerParCommande,
      C!ConstantesConsommateur, CP!ConstantesConsommateur, C!PannesPossibles, CP!PannesPossibles,
      C!AucunHorsCopies, CP!AucunHorsCopies, C!Copies, CP!Copies, C!Positions, CP!Positions

(***************************************************************************)
(* The stream keeps room for every event outside the deduplication window, *)
(* so that a publication is always a message the consumer may see.         *)
(***************************************************************************)
Place == Len(flux) + Cardinality(Evenements \ fenetre) <= FLUX_MAX

Inv == RP!Inv /\ CP!InvTrace /\ Place

\* What a step of the relay does to the stream.
LEMMA FluxSuit ==
  ASSUME RP!Inv, RP!Next
  PROVE  \/ UNCHANGED flux /\ fenetre' = fenetre
         \/ /\ UNCHANGED flux
            /\ Len(flux) + Cardinality(Evenements \ fenetre) < FLUX_MAX
            /\ \E e \in fenetre : fenetre' = fenetre \ {e}
         \/ \E e \in Evenements \ fenetre :
              flux' = Append(flux, e) /\ fenetre' = fenetre \cup {e}
<1>1. CASE RP!Commandes
  BY <1>1 DEF RP!Commandes, RP!Commencer, RP!Valider, RP!Annuler, RP!fluxVars
<1>2. CASE RP!Cycle
  <2>1. ASSUME NEW e \in Evenements, RP!Stocker(e)
        PROVE  \/ UNCHANGED flux /\ fenetre' = fenetre
               \/ e \in Evenements \ fenetre /\ flux' = Append(flux, e) /\ fenetre' = fenetre \cup {e}
    BY <2>1 DEF RP!Stocker
  <2>2. CASE \E e \in Evenements : RP!Publier(e) \/ RP!PublierSansReponse(e)
    BY <2>1, <2>2 DEF RP!Publier, RP!PublierSansReponse
  <2>3. CASE ~\E e \in Evenements : RP!Publier(e) \/ RP!PublierSansReponse(e)
    BY <1>2, <2>3
    DEF RP!Cycle, RP!DemarrerCycle, RP!LirePage, RP!LireEchec, RP!Differer, RP!PublierEchec,
        RP!Marquer, RP!MarquerEchec, RP!MarquerSansReponse, RP!FinDePage, RP!fluxVars
  <2> QED BY <2>2, <2>3
<1>3. CASE RP!Environnement
  <2>1. CASE \E e \in Evenements : RP!OublierDoublon(e)
    BY <2>1 DEF RP!OublierDoublon, RP!Cardinality, Cardinality
  <2>2. CASE RP!Redemarrer \/ RP!PerdreConnexion \/ RP!Reconnecter
    BY <2>2 DEF RP!Redemarrer, RP!PerdreConnexion, RP!Reconnecter, RP!fluxVars
  <2> QED BY <1>3, <2>1, <2>2 DEF RP!Environnement
<1> QED BY <1>1, <1>2, <1>3 DEF RP!Next

LEMMA PlaceTenue ==
  ASSUME RP!Inv, Place, RP!Next
  PROVE  /\ Place'
         /\ \/ UNCHANGED flux
            \/ \E e \in Evenements : Len(flux) < FLUX_MAX /\ flux' = Append(flux, e)
<1> DEFINE hors == Evenements \ fenetre
<1>1. /\ flux \in Seq(Evenements) /\ fenetre \subseteq Evenements
      /\ FLUX_MAX \in Nat /\ IsFiniteSet(hors) /\ Len(flux) \in Nat
  BY Hypotheses, FS_Subset DEF RP!Inv, RP!TypeOK
<1>2. Cardinality(hors) \in Nat
  BY <1>1, FS_CardinalityType
<1>3. CASE UNCHANGED flux /\ fenetre' = fenetre
  BY <1>3 DEF Place
<1>4. ASSUME UNCHANGED flux, Len(flux) + Cardinality(hors) < FLUX_MAX,
             NEW e \in fenetre, fenetre' = fenetre \ {e}
      PROVE  Place'
  <2>1. hors' = hors \cup {e}
    BY <1>1, <1>4
  <2>2. Cardinality(hors \cup {e}) <= Cardinality(hors) + 1
    <3> HIDE DEF hors
    <3>1. Cardinality(hors \cup {e}) = IF e \in hors THEN Cardinality(hors) ELSE Cardinality(hors) + 1
      BY <1>1, FS_AddElement
    <3> QED BY <1>2, <3>1
  <2>3. Cardinality(hors \cup {e}) \in Nat
    <3> HIDE DEF hors
    <3> QED BY <1>1, FS_AddElement, FS_CardinalityType
  <2>4. Place' <=> Len(flux) + Cardinality(hors \cup {e}) <= FLUX_MAX
    BY <1>4, <2>1 DEF Place
  <2> HIDE DEF hors
  <2> QED BY <1>1, <1>2, <1>4, <2>2, <2>3, <2>4
<1>5. ASSUME NEW e \in hors, flux' = Append(flux, e), fenetre' = fenetre \cup {e}
      PROVE  Place' /\ Len(flux) < FLUX_MAX
  <2>1. hors' = hors \ {e} /\ Len(flux') = Len(flux) + 1
    BY <1>1, <1>5
  <2>2. Cardinality(hors \ {e}) = Cardinality(hors) - 1
    <3> HIDE DEF hors
    <3> QED BY <1>1, <1>5, FS_RemoveElement
  <2>3. Cardinality(hors \ {e}) \in Nat
    <3> HIDE DEF hors
    <3> QED BY <1>1, FS_RemoveElement, FS_CardinalityType
  <2>4. Len(flux) + Cardinality(hors) <= FLUX_MAX
    BY DEF Place
  <2>5. Place' <=> Len(flux) + 1 + Cardinality(hors \ {e}) <= FLUX_MAX
    BY <2>1 DEF Place
  <2> HIDE DEF hors
  <2> QED BY <1>1, <1>2, <2>2, <2>3, <2>4, <2>5
<1> QED BY <1>3, <1>4, <1>5, FluxSuit

\* A step of the relay is at most a new message for the consumer, and a step
\* of the consumer is nothing for the relay.
LEMMA PasDeChacun ==
  ASSUME Inv, [Next]_vars
  PROVE  [RP!Next]_(RP!vars) /\ [CP!Next]_(CP!vars) /\ Place'
<1>1. CASE Producteur
  <2>1. RP!Next /\ UNCHANGED consommateurVars
    BY <1>1, MemeRelais DEF Producteur
  <2>2. /\ Place'
        /\ \/ UNCHANGED flux
           \/ \E e \in Evenements : Len(flux) < FLUX_MAX /\ flux' = Append(flux, e)
    BY <2>1, PlaceTenue DEF Inv
  <2>3. UNCHANGED CP!consoVars
    BY <2>1 DEF consommateurVars, CP!consoVars, CP!brokerVars, CP!boucleVars, CP!baseVars
  <2> QED BY <2>1, <2>2, <2>3 DEF CP!Next, CP!Produire, CP!vars
<1>2. CASE Consommateur
  <2>1. CP!ConsoNext /\ UNCHANGED producteurVars
    BY <1>2, MemeConsommateur DEF Consommateur
  <2>2. UNCHANGED flux
    BY <2>1 DEF CP!ConsoNext, CP!Diffuser, CP!Livrer, CP!ExpirerDelai, CP!Boucle, CP!Prendre,
                CP!Projeter, CP!Ecarter, CP!EchouerNak, CP!EchouerDernier, CP!TracerRejet,
                CP!TracerEpuise, CP!Tracer, CP!Acquitter, CP!Lier, CP!Interrompre, CP!Redemarrer
  <2>3. UNCHANGED RP!vars
    BY <2>1, <2>2 DEF producteurVars, RP!vars, RP!txVars, RP!fluxVars, RP!relaisVars
  <2>4. Place'
    BY <2>1, <2>2 DEF Inv, Place, producteurVars
  <2> QED BY <2>1, <2>3, <2>4 DEF CP!Next
<1>3. CASE UNCHANGED vars
  <2>1. UNCHANGED RP!vars /\ UNCHANGED CP!vars
    BY <1>3 DEF vars, producteurVars, consommateurVars, RP!vars, RP!txVars, RP!fluxVars,
                RP!relaisVars, CP!vars, CP!consoVars, CP!brokerVars, CP!boucleVars, CP!baseVars
  <2> QED BY <1>3, <2>1 DEF Inv, Place, vars, producteurVars
<1> QED BY <1>1, <1>2, <1>3 DEF Next

LEMMA InvInit == Init => Inv
<1> SUFFICES ASSUME Init PROVE Inv
  OBVIOUS
<1>1. RP!Init /\ CP!ConsoInit
  BY MemeRelais, MemeConsommateur DEF Init
<1>2. flux = <<>> /\ fenetre = {}
  BY <1>1 DEF RP!Init
<1>3. RP!Inv
  BY <1>1, RP!InvInit, Hypotheses
<1>4. CP!InvTrace
  <2>1. CP!Init
    BY <1>1, <1>2 DEF CP!Init
  <2> QED BY <2>1, CP!TraceInit, Hypotheses
<1>5. Place
  <2>1. Len(flux) = 0 /\ Evenements \ fenetre = Evenements
    BY <1>2
  <2>2. Cardinality(Evenements) \in Nat
    BY Hypotheses, FS_CardinalityType
  <2>3. Cardinality(Evenements \ fenetre) = Cardinality(Evenements)
    BY <2>1
  <2>4. Len(flux) + Cardinality(Evenements) = Cardinality(Evenements)
    BY <2>1, <2>2
  <2> QED BY <2>3, <2>4, Hypotheses DEF Place
<1> QED BY <1>3, <1>4, <1>5 DEF Inv

LEMMA InvNext == Inv /\ [Next]_vars => Inv'
<1> SUFFICES ASSUME Inv, [Next]_vars PROVE Inv'
  OBVIOUS
<1>1. [RP!Next]_(RP!vars) /\ [CP!Next]_(CP!vars) /\ Place'
  BY PasDeChacun
<1>2. RP!Inv'
  BY <1>1, RP!InvNext, Hypotheses DEF Inv
<1>3. CP!InvTrace'
  BY <1>1, CP!TraceNext, Hypotheses DEF Inv
<1> QED BY <1>1, <1>2, <1>3 DEF Inv

LEMMA InvTenu == Spec => []Inv
  BY InvInit, InvNext, PTL DEF Spec

(***************************************************************************)
(* Each component, put beside the other, behaves as it does alone.         *)
(***************************************************************************)

\* What holds of the relay alone holds beside the consumer, and the other way
\* round: both are ordinary behaviours of the two components.
THEOREM ComposantsTenus == Spec => RP!Spec /\ CP!Spec
<1>1. Init => RP!Init /\ CP!Init
  BY MemeRelais, MemeConsommateur DEF Init, RP!Init, CP!Init
<1>2. Inv /\ [Next]_vars => [RP!Next]_(RP!vars) /\ [CP!Next]_(CP!vars)
  BY PasDeChacun
<1> QED BY <1>1, <1>2, InvTenu, PTL DEF Spec, RP!Spec, CP!Spec

\* Nothing disappears between the two: what the broker has given up was
\* applied, has a line in dead_letter, or was lost with a last delivery.
THEOREM RienPerdu == Spec => []CP!RienNeDisparait
  BY ComposantsTenus, CP!RienPerdu, Hypotheses, PTL

(***************************************************************************)
(* The promise.                                                            *)
(***************************************************************************)
LEMMA EmisCommis ==
  ASSUME Inv, phase # "attente"
  PROVE  CP!Id \in Emis
<1>1. CP!Id \in Evenements
  BY CP!IdEvenement, Hypotheses DEF Inv, CP!InvTrace
<1>2. courant.pos \in DOMAIN flux
  BY DEF Inv, CP!InvTrace, CP!Inv, CP!TypeOK, CP!CopiesDansFlux, CP!Copies, CP!Positions
<1>3. RP!Valide(CP!Id)
  BY <1>2 DEF Inv, RP!Inv, RP!PasDeFantome, RP!DansFlux, CP!Id
<1> QED BY <1>1, <1>3 DEF Emis, RP!Valide, R!Valide

\* The relay and the commands: only a commit shows, all its events at once.
LEMMA ProducteurTientParole ==
  ASSUME Inv, RP!Next, UNCHANGED consommateurVars
  PROVE  P!Emettre \/ UNCHANGED P!vars
<1>1. UNCHANGED <<effets, rejets>>
  BY DEF consommateurVars
<1>2. CASE \E t \in Transactions : RP!Valider(t)
  <2>1. PICK t \in Transactions : RP!Valider(t)
    BY <1>2
  <2>2. Emis \subseteq Emis'
    BY <2>1, Hypotheses DEF RP!Valider, Emis, R!Valide, Inv, RP!Inv, RP!TypeOK
  <2>3. Emis' \ Emis \in SUBSET (Evenements \ Emis) /\ Emis' = Emis \cup (Emis' \ Emis)
    BY <2>2 DEF Emis
  <2> QED BY <1>1, <2>3 DEF P!Emettre
<1>3. CASE \E t \in Transactions : RP!Commencer(t) \/ RP!Annuler(t)
  <2>1. PICK t \in Transactions : RP!Commencer(t) \/ RP!Annuler(t)
    BY <1>3
  <2>2. \A e \in Evenements : R!Valide(e)' <=> R!Valide(e)
    BY <2>1, Hypotheses DEF RP!Commencer, RP!Annuler, R!Valide, Inv, RP!Inv, RP!TypeOK
  <2>3. Emis' = Emis
    BY <2>2 DEF Emis
  <2> QED BY <1>1, <2>3 DEF P!vars
<1>4. CASE RP!Cycle \/ RP!Environnement
  <2>1. UNCHANGED txEtat
    BY <1>4
    DEF RP!Cycle, RP!DemarrerCycle, RP!LirePage, RP!LireEchec, RP!Differer, RP!Publier,
        RP!PublierEchec, RP!PublierSansReponse, RP!Marquer, RP!MarquerEchec,
        RP!MarquerSansReponse, RP!FinDePage, RP!Environnement, RP!Redemarrer,
        RP!PerdreConnexion, RP!Reconnecter, RP!OublierDoublon, RP!txVars
  <2>2. Emis' = Emis
    BY <2>1 DEF Emis, R!Valide
  <2> QED BY <1>1, <2>2 DEF P!vars
<1> QED BY <1>2, <1>3, <1>4 DEF RP!Next, RP!Commandes

\* The consumer: an effect is the first of an event of a committed command,
\* and so is what dead_letter reports.
LEMMA ConsommateurTientParole ==
  ASSUME Inv, CP!ConsoNext, UNCHANGED producteurVars
  PROVE  \/ \E e \in Evenements : P!Appliquer(e) \/ P!Signaler(e)
         \/ UNCHANGED P!vars
<1>1. Emis' = Emis
  BY DEF producteurVars, Emis, R!Valide
<1>2. Emis \subseteq Evenements
  BY DEF Emis
<1>3. CASE CP!Projeter
  <2>1. CP!Id \in Emis /\ CP!Id \in Evenements
    BY <1>2, <1>3, EmisCommis DEF CP!Projeter
  <2>2. CASE CP!Id \in traites
    BY <1>1, <1>3, <2>2 DEF CP!Projeter, CP!AppliquerUneFois, P!vars
  <2>3. CASE CP!Id \notin traites
    <3>1. effets[CP!Id] = 0
      BY <2>1, <2>3 DEF Inv, CP!InvTrace, CP!Inv, CP!EffetUnique
    <3>2. effets' = [effets EXCEPT ![CP!Id] = 1] /\ rejets' = rejets
      BY <1>3, <2>3, <3>1 DEF CP!Projeter, CP!AppliquerUneFois
    <3>3. P!Appliquer(CP!Id)
      BY <1>1, <2>1, <3>1, <3>2 DEF P!Appliquer
    <3> QED BY <2>1, <3>3
  <2> QED BY <2>2, <2>3
<1>4. CASE CP!TracerRejet \/ CP!TracerEpuise
  <2>1. CP!Id \in Emis /\ CP!Id \in Evenements
    BY <1>2, <1>4, EmisCommis DEF CP!TracerRejet, CP!TracerEpuise
  <2>2. /\ rejets' = rejets \cup {CP!Id} \/ rejets' = rejets
        /\ effets' = effets
    BY <1>4 DEF CP!TracerRejet, CP!TracerEpuise, CP!Tracer
  <2>3. CASE rejets' = rejets
    BY <1>1, <2>2, <2>3 DEF P!vars
  <2>4. CASE rejets' = rejets \cup {CP!Id}
    <3>1. P!Signaler(CP!Id)
      BY <1>1, <2>1, <2>2, <2>4 DEF P!Signaler
    <3> QED BY <2>1, <3>1
  <2> QED BY <2>2, <2>3, <2>4
<1>5. CASE ~CP!Projeter /\ ~CP!TracerRejet /\ ~CP!TracerEpuise
  <2>1. UNCHANGED <<effets, rejets>>
    BY <1>5
    DEF CP!ConsoNext, CP!Diffuser, CP!Livrer, CP!ExpirerDelai, CP!Boucle, CP!Prendre, CP!Ecarter,
        CP!EchouerNak, CP!EchouerDernier, CP!Acquitter, CP!Lier, CP!Interrompre, CP!Redemarrer,
        CP!baseVars
  <2> QED BY <1>1, <2>1 DEF P!vars
<1> QED BY <1>3, <1>4, <1>5

LEMMA PromesseInit == Init => P!Init
<1> SUFFICES ASSUME Init PROVE P!Init
  OBVIOUS
<1>1. RP!Init /\ CP!ConsoInit
  BY MemeRelais, MemeConsommateur DEF Init
<1>2. Emis = {}
  <2>1. \A e \in Evenements : txEtat[TxDe[e]] = "absente"
    BY <1>1, Hypotheses DEF RP!Init, RP!ConstantesOutbox
  <2> QED BY <2>1 DEF Emis, R!Valide
<1> QED BY <1>1, <1>2 DEF P!Init, CP!ConsoInit

LEMMA PromesseNext == Inv /\ [Next]_vars => [P!Next]_(P!vars)
<1> SUFFICES ASSUME Inv, [Next]_vars PROVE [P!Next]_(P!vars)
  OBVIOUS
<1>1. CASE Producteur
  BY <1>1, MemeRelais, ProducteurTientParole DEF Producteur, P!Next
<1>2. CASE Consommateur
  BY <1>2, MemeConsommateur, ConsommateurTientParole DEF Consommateur, P!Next
<1>3. CASE UNCHANGED vars
  BY <1>3 DEF vars, producteurVars, consommateurVars, P!vars, Emis, R!Valide
<1> QED BY <1>1, <1>2, <1>3 DEF Next

\* At-least-once publication and a consumer idempotent on the id implement the
\* promise: an event takes effect at most once, and only if its command has
\* committed, whatever fails or restarts on either side (outbox.relay.ts,
\* jetstream-consumer.ts).
THEOREM PromesseTenue == Spec => Fiable
  BY PromesseInit, PromesseNext, InvTenu, PTL DEF Spec, Fiable, P!Spec

=============================================================================
