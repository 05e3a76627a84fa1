---------------------- MODULE JetStreamConsumer_proofs ----------------------
(***************************************************************************)
(* Proofs about JetStreamConsumer, for any set of events, any number of    *)
(* deliveries and any stream length: type correctness, at most one effect  *)
(* per event, and that a message never disappears otherwise than with its  *)
(* last delivery, lost by a stop or refused by dead_letter.                *)
(***************************************************************************)
EXTENDS JetStreamConsumer, TLAPS

(***************************************************************************)
(* The copies that the loop holds point into the stream, and it holds one  *)
(* whenever it is inside traiterMessage.                                   *)
(***************************************************************************)
CopiesDansFlux ==
  /\ \A i \in DOMAIN tampon : tampon[i].pos <= Len(flux)
  /\ phase # "attente" => courant \in Copies /\ courant.pos <= Len(flux)
  /\ phase = "attente" => courant = Aucun

\* What a sequence over S holds is in S.
LEMMA ElementsDeSuite ==
  ASSUME NEW S, NEW s \in Seq(S)
  PROVE  \A i \in DOMAIN s : s[i] \in S
  OBVIOUS

Inv == TypeOK /\ CopiesDansFlux /\ EffetUnique

\* The consumer starts in Inv.
LEMMA InvInit == Init => Inv
  BY ConstantesConsommateur
  DEF Init, ConsoInit, Inv, TypeOK, CopiesDansFlux, EffetUnique, Positions, Phases

\* The id of the copy in hand is an event.
LEMMA IdEvenement ==
  ASSUME Inv, phase # "attente"
  PROVE  Id \in Evenements
  BY DEF Inv, TypeOK, CopiesDansFlux, Id, Copies, Positions

\* Every step preserves Inv.
LEMMA InvNext == Inv /\ [Next]_vars => Inv'
<1> SUFFICES ASSUME Inv, [Next]_vars PROVE Inv'
  OBVIOUS
<1> USE ConstantesConsommateur, AucunHorsCopies DEF Inv
<1>1. CASE UNCHANGED vars
  BY <1>1 DEF vars, consoVars, brokerVars, boucleVars, baseVars, TypeOK,
              CopiesDansFlux, EffetUnique
<1>2. ASSUME NEW e \in Evenements, Produire(e) PROVE Inv'
  <2>1. /\ flux' \in Seq(Evenements)
        /\ Len(flux') = Len(flux) + 1
        /\ Len(flux') <= POSITIONS
    BY <1>2 DEF Produire, TypeOK
  <2>2. UNCHANGED <<livraisons, statut, liaison, tampon, courant, phase, traites, effets, rejets, perdus>>
    BY <1>2 DEF Produire, consoVars, brokerVars, boucleVars, baseVars
  <2>3. TypeOK'
    BY <2>1, <2>2 DEF TypeOK
  <2>4. CopiesDansFlux'
    <3>1. ASSUME NEW q \in Positions, q <= Len(flux) PROVE q <= Len(flux')
      BY <2>1, <3>1 DEF TypeOK, Positions
    <3>2. \A i \in DOMAIN tampon : tampon[i].pos \in Positions
      BY ElementsDeSuite DEF TypeOK, Copies
    <3> QED BY <2>2, <3>1, <3>2 DEF CopiesDansFlux, Copies
  <2>5. EffetUnique'
    BY <2>2 DEF EffetUnique
  <2> QED BY <2>3, <2>4, <2>5
<1>3. ASSUME NEW p \in Positions, Livrer(p) PROVE Inv'
  <2>1. [pos |-> p, n |-> livraisons[p] + 1] \in Copies
    BY <1>3 DEF Livrer, TypeOK, Copies, Positions
  <2>2. TypeOK'
    <3>1. tampon' \in Seq(Copies)
      BY <1>3, <2>1 DEF Livrer, TypeOK
    <3>2. /\ livraisons' \in [Positions -> 0 .. MAX_LIVRAISONS]
          /\ statut' \in [Positions -> {"attente", "remis", "regle"}]
      BY <1>3 DEF Livrer, TypeOK
    <3> QED BY <1>3, <3>1, <3>2 DEF Livrer, TypeOK, baseVars
  <2>3. CopiesDansFlux'
    <3> DEFINE c == [pos |-> p, n |-> livraisons[p] + 1]
    <3>1. /\ tampon' = Append(tampon, c)
          /\ c.pos <= Len(flux)
          /\ UNCHANGED <<flux, courant, phase>>
      BY <1>3 DEF Livrer
    <3>2. ASSUME NEW i \in DOMAIN tampon' PROVE tampon'[i].pos <= Len(flux)
      <4>1. (i \in DOMAIN tampon /\ tampon'[i] = tampon[i]) \/ tampon'[i] = c
        BY <3>1, <3>2 DEF TypeOK
      <4> QED BY <3>1, <4>1 DEF CopiesDansFlux
    <3> QED BY <3>1, <3>2 DEF CopiesDansFlux
  <2>4. EffetUnique'
    BY <1>3 DEF Livrer, baseVars, EffetUnique
  <2> QED BY <2>2, <2>3, <2>4
<1>4. ASSUME NEW p \in Positions, ExpirerDelai(p) PROVE Inv'
  BY <1>4 DEF ExpirerDelai, boucleVars, baseVars, TypeOK, CopiesDansFlux, EffetUnique
<1>5. CASE Prendre
  <2>1. Head(tampon) \in Copies /\ Head(tampon).pos <= Len(flux)
    BY <1>5 DEF Prendre, TypeOK, CopiesDansFlux
  <2>2. Tail(tampon) \in Seq(Copies)
    BY <1>5 DEF Prendre, TypeOK
  <2>3. \A i \in DOMAIN Tail(tampon) : Tail(tampon)[i].pos <= Len(flux)
    BY <1>5 DEF Prendre, TypeOK, CopiesDansFlux
  <2> QED BY <1>5, <2>1, <2>2, <2>3
          DEF Prendre, brokerVars, baseVars, TypeOK, CopiesDansFlux, EffetUnique, Phases
<1>6. CASE Projeter
  <2>1. Id \in Evenements
    BY <1>6, IdEvenement DEF Projeter
  <2> QED BY <1>6, <2>1
          DEF Projeter, AppliquerUneFois, brokerVars, TypeOK, CopiesDansFlux,
              EffetUnique, Phases
<1>7. CASE Ecarter
  BY <1>7 DEF Ecarter, brokerVars, baseVars, TypeOK, CopiesDansFlux, EffetUnique, Phases
<1>8. CASE EchouerNak
  <2>1. statut' \in [Positions -> {"attente", "remis", "regle"}]
    BY <1>8 DEF EchouerNak, Redemander, TypeOK
  <2> QED BY <1>8, <2>1
          DEF EchouerNak, baseVars, TypeOK, CopiesDansFlux, EffetUnique, Phases
<1>9. CASE EchouerDernier
  BY <1>9 DEF EchouerDernier, Echouer, brokerVars, baseVars, TypeOK,
              CopiesDansFlux, EffetUnique, Phases
<1>10. ASSUME NEW apres \in {"ack", "term"}, phase # "attente", Tracer(apres)
       PROVE  Inv'
  <2>1. Id \in Evenements /\ courant.pos \in Positions
    BY <1>10, IdEvenement DEF CopiesDansFlux, Copies
  <2> QED BY <1>10, <2>1
          DEF Tracer, brokerVars, TypeOK, CopiesDansFlux, EffetUnique, Phases
<1>11. CASE TracerRejet
  BY <1>10, <1>11 DEF TracerRejet
<1>12. CASE TracerEpuise
  BY <1>10, <1>12 DEF TracerEpuise
<1>13. CASE Acquitter
  <2>1. statut' \in [Positions -> {"attente", "remis", "regle"}]
    BY <1>13 DEF Acquitter, Regler, TypeOK
  <2> QED BY <1>13, <2>1
          DEF Acquitter, baseVars, TypeOK, CopiesDansFlux, EffetUnique, Phases
<1>14. CASE Redemarrer
  BY <1>14 DEF Redemarrer, Lacher, brokerVars, baseVars, TypeOK, CopiesDansFlux,
               EffetUnique, Phases
<1>15. CASE Lier
  BY <1>15 DEF Lier, brokerVars, baseVars, TypeOK, CopiesDansFlux, EffetUnique
<1>16. CASE Interrompre
  BY <1>16 DEF Interrompre, Lacher, brokerVars, baseVars, TypeOK, CopiesDansFlux,
               EffetUnique
<1> QED
  BY <1>1, <1>2, <1>3, <1>4, <1>5, <1>6, <1>7, <1>8, <1>9, <1>11, <1>12, <1>13, <1>14,
     <1>15, <1>16
  DEF Next, ConsoNext, Diffuser, Boucle

\* Type correctness, with the fact it rests on: the loop never works on a
\* position the stream does not have (jetstream-consumer.ts, boucle).
THEOREM TypeCorrect == Spec => []TypeOK
<1>1. Inv => TypeOK
  BY DEF Inv
<1> QED BY InvInit, InvNext, <1>1, PTL DEF Spec

\* At most one effect per event id, whatever the relay, the broker and the
\* restarts repeat (marquerTraite and the projection commit together).
THEOREM UnSeulEffet == Spec => []EffetUnique
<1>1. Inv => EffetUnique
  BY DEF Inv
<1> QED BY InvInit, InvNext, <1>1, PTL DEF Spec

(***************************************************************************)
(* No message disappears.  What is settled has a trace or was lost; a      *)
(* message at its last delivery without either still has that last copy in *)
(* the hands of the loop; and the loop acknowledges only what has a trace  *)
(* or was refused by dead_letter.  Positions beyond the end of the stream  *)
(* are untouched.                                                          *)
(***************************************************************************)
DerniereCopie(p) == [pos |-> p, n |-> MAX_LIVRAISONS]

DerniereEnMain(p) ==
  \/ courant = DerniereCopie(p)
  \/ \E i \in DOMAIN tampon : tampon[i] = DerniereCopie(p)

Explique(p) == Trace(p) \/ p \in perdus

RegleTrace   == \A p \in Positions : statut[p] = "regle" => p <= Len(flux) /\ Explique(p)
FuturIntact  == \A p \in Positions : livraisons[p] > 0 => p <= Len(flux)
EpuiseTrace  ==
  \A p \in Positions :
    livraisons[p] = MAX_LIVRAISONS => Explique(p) \/ DerniereEnMain(p)
AcquitteTrace ==
  phase \in {"ack", "term"} => Id \in traites \cup rejets \/ courant.pos \in perdus

InvTrace == Inv /\ RegleTrace /\ FuturIntact /\ EpuiseTrace /\ AcquitteTrace

\* The consumer starts in InvTrace.
LEMMA TraceInit == Init => InvTrace
  BY InvInit, ConstantesConsommateur
  DEF Init, ConsoInit, InvTrace, RegleTrace, FuturIntact, EpuiseTrace, AcquitteTrace

\* A trace stays when a message is stored: the stream keeps its positions.
LEMMA TraceStable ==
  ASSUME Inv, NEW e \in Evenements, flux' = Append(flux, e),
         UNCHANGED <<traites, rejets, perdus>>,
         NEW p \in Positions, p <= Len(flux)
  PROVE  p <= Len(flux') /\ (Explique(p) => Explique(p)')
<1>1. flux \in Seq(Evenements) /\ p \in 1 .. Len(flux)
  BY DEF Inv, TypeOK, Positions
<1>2. flux'[p] = flux[p] /\ p <= Len(flux')
  BY <1>1
<1> QED BY <1>2 DEF Explique, Explique, Trace

\* A step that leaves the broker, the stream and the held copies alone, and
\* only adds traces, keeps what is known of settled and exhausted messages.
LEMMA TraceLocale ==
  ASSUME InvTrace, Inv', UNCHANGED <<flux, livraisons, statut, tampon, courant>>,
         traites \subseteq traites', rejets \subseteq rejets', perdus \subseteq perdus'
  PROVE  RegleTrace' /\ FuturIntact' /\ EpuiseTrace'
<1>1. \A p \in Positions : Explique(p) => Explique(p)'
  BY DEF Explique, Explique, Trace
<1>2. \A p \in Positions : DerniereEnMain(p)' <=> DerniereEnMain(p)
  BY DEF DerniereEnMain, DerniereCopie
<1> QED BY <1>1, <1>2 DEF InvTrace, RegleTrace, FuturIntact, EpuiseTrace

\* A step that hands the copy in hand back to the broker, settled or not,
\* keeps InvTrace when that copy is not a last one or has a trace.
LEMMA TraceRendre ==
  ASSUME InvTrace, Inv', phase # "attente", courant' = Aucun, phase' = "attente",
         UNCHANGED <<flux, livraisons, tampon, traites, rejets, perdus>>,
         \/ UNCHANGED statut
         \/ Redemander
         \/ Regler /\ (Id \in traites \cup rejets \/ courant.pos \in perdus),
         courant.n < MAX_LIVRAISONS \/ Id \in traites \cup rejets \/ courant.pos \in perdus
  PROVE  InvTrace'
<1> USE DEF Inv, TypeOK, CopiesDansFlux
<1>1. courant \in Copies /\ courant.pos \in Positions /\ courant.pos <= Len(flux)
  BY DEF InvTrace, Copies
<1>2. RegleTrace'
  <2> SUFFICES ASSUME NEW p \in Positions, statut'[p] = "regle"
               PROVE  p <= Len(flux) /\ Explique(p)
    BY DEF RegleTrace, Explique, Trace
  <2>1. CASE statut[p] = "regle"
    BY <2>1 DEF InvTrace, RegleTrace
  <2>2. CASE statut[p] # "regle"
    <3>1. p = courant.pos /\ (Id \in traites \cup rejets \/ courant.pos \in perdus)
      BY <1>1, <2>2 DEF InvTrace, Redemander, Regler
    <3> QED BY <1>1, <3>1 DEF Id, Explique, Trace
  <2> QED BY <2>1, <2>2
<1>3. FuturIntact'
  BY DEF InvTrace, FuturIntact
<1>4. EpuiseTrace'
  <2> SUFFICES ASSUME NEW p \in Positions, livraisons[p] = MAX_LIVRAISONS, ~Explique(p)
               PROVE  \E i \in DOMAIN tampon : tampon[i] = DerniereCopie(p)
    BY DEF EpuiseTrace, Explique, Trace, DerniereEnMain, DerniereCopie
  <2>1. courant # DerniereCopie(p)
    BY ConstantesConsommateur DEF DerniereCopie, Id, Explique, Trace
  <2> QED BY <2>1 DEF InvTrace, EpuiseTrace, DerniereEnMain
<1>5. AcquitteTrace'
  BY DEF AcquitteTrace
<1> QED BY <1>2, <1>3, <1>4, <1>5 DEF InvTrace

\* A step that lets go of the prefetched copies, and perhaps of the copy in
\* hand, records the last deliveries among them.
LEMMA TraceLacher ==
  ASSUME InvTrace, Inv', Lacher, phase' = "attente",
         UNCHANGED <<flux, livraisons, statut, traites, rejets>>
  PROVE  InvTrace'
<1>1. perdus' = perdus \cup {p \in Positions : livraisons[p] = MAX_LIVRAISONS /\ EnMain(p)}
  BY DEF Lacher
<1>2. \A p \in Positions : Explique(p) => Explique(p)'
  BY <1>1 DEF Explique, Trace
<1>3. RegleTrace' /\ FuturIntact'
  BY <1>2 DEF InvTrace, RegleTrace, FuturIntact
<1>4. EpuiseTrace'
  <2> SUFFICES ASSUME NEW p \in Positions, livraisons[p] = MAX_LIVRAISONS
               PROVE  Explique(p)'
    BY DEF EpuiseTrace
  <2>1. CASE Explique(p)
    BY <1>2, <2>1
  <2>2. CASE DerniereEnMain(p)
    <3>1. EnMain(p)
      BY <2>2, AucunHorsCopies, ConstantesConsommateur
      DEF EnMain, DerniereEnMain, DerniereCopie, Copies
    <3> QED BY <1>1, <3>1 DEF Explique
  <2> QED BY <2>1, <2>2 DEF InvTrace, EpuiseTrace
<1>5. AcquitteTrace'
  BY DEF AcquitteTrace
<1> QED BY <1>3, <1>4, <1>5 DEF InvTrace

\* Every step preserves InvTrace.
LEMMA TraceNext ==
  ASSUME InvTrace, [Next]_vars
  PROVE  InvTrace'
<1>0. Inv /\ Inv'
  BY InvNext DEF InvTrace
<1> USE <1>0
<1>1. CASE UNCHANGED vars
  <2>1. UNCHANGED <<flux, livraisons, statut, liaison, tampon, courant, phase, traites, effets, rejets, perdus>>
    BY <1>1 DEF vars, consoVars, brokerVars, boucleVars, baseVars
  <2>2. AcquitteTrace'
    BY <2>1 DEF InvTrace, AcquitteTrace, Id
  <2> QED BY <2>1, <2>2, TraceLocale DEF InvTrace
<1>2. ASSUME NEW e \in Evenements, Produire(e) PROVE InvTrace'
  <2>1. /\ flux' = Append(flux, e)
        /\ UNCHANGED <<livraisons, statut, liaison, tampon, courant, phase, traites, effets, rejets, perdus>>
    BY <1>2 DEF Produire, consoVars, brokerVars, boucleVars, baseVars
  <2>2. \A p \in Positions : p <= Len(flux) => p <= Len(flux') /\ (Explique(p) => Explique(p)')
    BY <2>1, TraceStable
  <2>3. RegleTrace' /\ FuturIntact'
    BY <2>1, <2>2 DEF InvTrace, RegleTrace, FuturIntact
  <2>4. EpuiseTrace'
    <3>1. \A p \in Positions : livraisons[p] = MAX_LIVRAISONS => p <= Len(flux)
      BY ConstantesConsommateur DEF InvTrace, FuturIntact
    <3>2. \A p \in Positions : DerniereEnMain(p)' <=> DerniereEnMain(p)
      BY <2>1 DEF DerniereEnMain, DerniereCopie
    <3> QED BY <2>1, <2>2, <3>1, <3>2 DEF InvTrace, EpuiseTrace
  <2>5. AcquitteTrace'
    BY <2>1 DEF InvTrace, AcquitteTrace, Inv, TypeOK, CopiesDansFlux, Id, Copies, Positions
  <2> QED BY <2>3, <2>4, <2>5 DEF InvTrace
<1>3. ASSUME NEW p \in Positions, Livrer(p) PROVE InvTrace'
  <2> DEFINE c == [pos |-> p, n |-> livraisons[p] + 1]
  <2>1. /\ p <= Len(flux)
        /\ livraisons' = [livraisons EXCEPT ![p] = @ + 1]
        /\ statut' = [statut EXCEPT ![p] = "remis"]
        /\ tampon' = Append(tampon, c)
        /\ UNCHANGED <<flux, courant, phase, traites, effets, rejets, perdus>>
    BY <1>3 DEF Livrer, baseVars
  <2>2. RegleTrace'
    BY <2>1 DEF InvTrace, RegleTrace, Explique, Trace, Inv, TypeOK
  <2>3. FuturIntact'
    BY <2>1 DEF InvTrace, FuturIntact, Inv, TypeOK
  <2>4. EpuiseTrace'
    <3> SUFFICES ASSUME NEW q \in Positions, livraisons'[q] = MAX_LIVRAISONS, ~Explique(q)
                 PROVE  \/ courant = DerniereCopie(q)
                        \/ \E i \in DOMAIN tampon' : tampon'[i] = DerniereCopie(q)
      BY <2>1 DEF EpuiseTrace, Explique, Trace, DerniereEnMain, DerniereCopie
    <3>1. tampon \in Seq(Copies)
      BY DEF Inv, TypeOK
    <3>2. \A i \in DOMAIN tampon : i \in DOMAIN tampon' /\ tampon'[i] = tampon[i]
      BY <2>1, <3>1
    <3>3. Len(tampon) + 1 \in DOMAIN tampon' /\ tampon'[Len(tampon) + 1] = c
      BY <2>1, <3>1
    <3>4. CASE q = p
      <4>1. c = DerniereCopie(q)
        BY <2>1, <3>4 DEF DerniereCopie, Inv, TypeOK
      <4> QED BY <3>3, <4>1
    <3>5. CASE q # p
      <4>1. DerniereEnMain(q)
        BY <2>1, <3>5 DEF InvTrace, EpuiseTrace, Inv, TypeOK
      <4> QED BY <3>2, <4>1 DEF DerniereEnMain
    <3> QED BY <3>4, <3>5
  <2>5. AcquitteTrace'
    BY <2>1 DEF InvTrace, AcquitteTrace, Id
  <2> QED BY <2>2, <2>3, <2>4, <2>5 DEF InvTrace
<1>4. ASSUME NEW p \in Positions, ExpirerDelai(p) PROVE InvTrace'
  <2>1. /\ statut' = [statut EXCEPT ![p] = "attente"]
        /\ UNCHANGED <<flux, livraisons, tampon, courant, phase, traites, effets, rejets, perdus>>
    BY <1>4 DEF ExpirerDelai, boucleVars, baseVars
  <2>2. RegleTrace'
    BY <2>1 DEF InvTrace, RegleTrace, Explique, Trace, Inv, TypeOK
  <2>3. FuturIntact' /\ AcquitteTrace'
    BY <2>1 DEF InvTrace, FuturIntact, AcquitteTrace, Id
  <2>4. EpuiseTrace'
    BY <2>1 DEF InvTrace, EpuiseTrace, Explique, Trace, DerniereEnMain, DerniereCopie
  <2> QED BY <2>2, <2>3, <2>4 DEF InvTrace
<1>5. CASE Prendre
  <2>1. /\ phase = "attente" /\ tampon # <<>>
        /\ courant' = Head(tampon) /\ tampon' = Tail(tampon) /\ phase' = "projection"
        /\ UNCHANGED <<flux, livraisons, statut, traites, effets, rejets, perdus>>
    BY <1>5 DEF Prendre, brokerVars, baseVars
  <2>2. RegleTrace' /\ FuturIntact' /\ AcquitteTrace'
    BY <2>1 DEF InvTrace, RegleTrace, FuturIntact, AcquitteTrace, Explique, Trace
  <2>3. EpuiseTrace'
    <3> SUFFICES ASSUME NEW p \in Positions, livraisons[p] = MAX_LIVRAISONS, ~Explique(p)
                 PROVE  \/ courant' = DerniereCopie(p)
                        \/ \E i \in DOMAIN tampon' : tampon'[i] = DerniereCopie(p)
      BY <2>1 DEF EpuiseTrace, Explique, Trace, DerniereEnMain, DerniereCopie
    <3>1. courant # DerniereCopie(p)
      BY <2>1, AucunHorsCopies, ConstantesConsommateur
      DEF Inv, CopiesDansFlux, DerniereCopie, Copies
    <3>2. PICK i \in DOMAIN tampon : tampon[i] = DerniereCopie(p)
      BY <3>1 DEF InvTrace, EpuiseTrace, DerniereEnMain
    <3>3. tampon \in Seq(Copies)
      BY DEF Inv, TypeOK
    <3>4. CASE i = 1
      BY <2>1, <3>2, <3>3, <3>4
    <3>5. CASE i # 1
      <4>1. i - 1 \in DOMAIN tampon' /\ tampon'[i - 1] = tampon[i]
        BY <2>1, <3>2, <3>3, <3>5
      <4> QED BY <3>2, <4>1
    <3> QED BY <3>4, <3>5
  <2> QED BY <2>2, <2>3 DEF InvTrace
<1>6. CASE Projeter
  <2>1. /\ UNCHANGED <<flux, livraisons, statut, tampon, courant, rejets, perdus>>
        /\ traites' = traites \cup {Id}
    BY <1>6 DEF Projeter, AppliquerUneFois, brokerVars
  <2>2. AcquitteTrace'
    BY <2>1 DEF AcquitteTrace, Id
  <2> QED BY <2>1, <2>2, TraceLocale DEF InvTrace
<1>7. CASE Ecarter \/ EchouerDernier
  <2>1. /\ UNCHANGED <<flux, livraisons, statut, tampon, courant, traites, rejets, perdus>>
        /\ phase' \in {"rejet", "epuise"}
    BY <1>7 DEF Ecarter, EchouerDernier, brokerVars, baseVars
  <2>2. AcquitteTrace'
    BY <2>1 DEF AcquitteTrace
  <2> QED BY <2>1, <2>2, TraceLocale DEF InvTrace
<1>8. CASE TracerRejet \/ TracerEpuise
  <2>1. /\ UNCHANGED <<flux, livraisons, statut, tampon, courant, traites>>
        /\ \/ rejets' = rejets \cup {Id} /\ UNCHANGED perdus
           \/ perdus' = perdus \cup {courant.pos} /\ UNCHANGED rejets
    BY <1>8 DEF TracerRejet, TracerEpuise, Tracer, brokerVars
  <2>2. AcquitteTrace'
    BY <2>1 DEF AcquitteTrace, Id
  <2> QED BY <2>1, <2>2, TraceLocale DEF InvTrace
<1>9. CASE EchouerNak
  <2>1. /\ phase # "attente" /\ courant' = Aucun /\ phase' = "attente"
        /\ UNCHANGED <<flux, livraisons, tampon, traites, rejets, perdus>>
        /\ Redemander \/ UNCHANGED statut
        /\ courant.n < MAX_LIVRAISONS
    BY <1>9 DEF EchouerNak, Echouer, baseVars
  <2> QED BY <2>1, TraceRendre
<1>10. CASE Acquitter
  <2>1. /\ phase \in {"ack", "term"} /\ courant' = Aucun /\ phase' = "attente"
        /\ UNCHANGED <<flux, livraisons, tampon, traites, rejets, perdus>>
        /\ Regler \/ UNCHANGED statut
    BY <1>10 DEF Acquitter, baseVars
  <2>2. Id \in traites \cup rejets \/ courant.pos \in perdus
    BY <2>1 DEF InvTrace, AcquitteTrace
  <2> QED BY <2>1, <2>2, TraceRendre
<1>11. CASE Redemarrer \/ Interrompre
  <2>1. /\ Lacher /\ phase' = "attente"
        /\ UNCHANGED <<flux, livraisons, statut, traites, rejets>>
    BY <1>11 DEF Redemarrer, Interrompre, brokerVars, baseVars
  <2> QED BY <2>1, TraceLacher
<1>12. CASE Lier
  <2>1. UNCHANGED <<flux, livraisons, statut, tampon, courant, phase, traites, effets, rejets, perdus>>
    BY <1>12 DEF Lier, brokerVars, baseVars
  <2>2. AcquitteTrace'
    BY <2>1 DEF InvTrace, AcquitteTrace, Id
  <2> QED BY <2>1, <2>2, TraceLocale DEF InvTrace
<1> QED
  BY <1>1, <1>2, <1>3, <1>4, <1>5, <1>6, <1>7, <1>8, <1>9, <1>10, <1>11, <1>12
  DEF Next, ConsoNext, Diffuser, Boucle

\* "Aucun message recu ne disparait en silence" (jetstream-consumer.ts): it
\* holds under every fault but for the two losses that perdus records.
THEOREM RienPerdu == Spec => []RienNeDisparait
<1>1. InvTrace => RienNeDisparait
  <2> SUFFICES ASSUME InvTrace, NEW p \in Positions, Abandonne(p) PROVE Explique(p)
    BY DEF RienNeDisparait, Explique
  <2>1. CASE statut[p] = "regle"
    BY <2>1 DEF InvTrace, RegleTrace
  <2>2. CASE livraisons[p] = MAX_LIVRAISONS
    <3>1. ~DerniereEnMain(p)
      BY AucunHorsCopies, ConstantesConsommateur
      DEF Abandonne, EnMain, DerniereEnMain, DerniereCopie, Copies
    <3> QED BY <2>2, <3>1 DEF InvTrace, EpuiseTrace
  <2> QED BY <2>1, <2>2 DEF Abandonne
<1> QED BY TraceInit, TraceNext, <1>1, PTL DEF Spec
=============================================================================
