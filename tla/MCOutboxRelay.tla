---------------------------- MODULE MCOutboxRelay ----------------------------
(* Instances of OutboxRelay for TLC.                                          *)
EXTENDS OutboxRelay, TLC

CONSTANTS e1, e2, e3, e4, t1, t2, t3, F1, F2

\* Three commands: one for F1, two for F2, the first of which writes two rows
\* that tie on occurred_at (a household and its first parent).
MCTxDe    == e1 :> t1 @@ e2 :> t2 @@ e4 :> t2 @@ e3 :> t3
MCFoyerDe == e1 :> F1 @@ e2 :> F2 @@ e4 :> F2 @@ e3 :> F2

\* The same commands, with one row each.
MCTxDeTrois    == e1 :> t1 @@ e2 :> t2 @@ e3 :> t3
MCFoyerDeTrois == e1 :> F1 @@ e2 :> F2 @@ e3 :> F2
=============================================================================
