-------------------------- MODULE MCEventBackbone --------------------------
(* An instance of EventBackbone for TLC.                                    *)
EXTENDS EventBackbone, TLC

CONSTANTS e1, e2, t1, F1

\* One command writes two events of one household.
MCTxDe    == e1 :> t1 @@ e2 :> t1
MCFoyerDe == e1 :> F1 @@ e2 :> F1
=============================================================================
