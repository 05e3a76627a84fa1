-------------------------- MODULE PropagationFiable --------------------------
(***************************************************************************)
(* What the event backbone promises to a service that projects the events  *)
(* of another one: an event exists once the command that wrote it has      *)
(* committed, it takes effect at most once at the consumer, and never if   *)
(* its command was rolled back.  An event may instead, or as well, be      *)
(* reported in dead_letter for a human.  Nothing is said about the order.  *)
(***************************************************************************)
EXTENDS Naturals

CONSTANT Evenements

VARIABLES
  emis,      \* events of committed commands
  effets,    \* how many times each event took effect at the consumer
  signales   \* events reported in dead_letter

vars == <<emis, effets, signales>>

Init ==
  /\ emis = {}
  /\ effets = [e \in Evenements |-> 0]
  /\ signales = {}

\* A command commits, with all its events or with none.
Emettre ==
  /\ \E S \in SUBSET (Evenements \ emis) : emis' = emis \cup S
  /\ UNCHANGED <<effets, signales>>

Appliquer(e) ==
  /\ e \in emis
  /\ effets[e] = 0
  /\ effets' = [effets EXCEPT ![e] = 1]
  /\ UNCHANGED <<emis, signales>>

Signaler(e) ==
  /\ e \in emis
  /\ signales' = signales \cup {e}
  /\ UNCHANGED <<emis, effets>>

Next == Emettre \/ \E e \in Evenements : Appliquer(e) \/ Signaler(e)

Spec == Init /\ [][Next]_vars
=============================================================================
