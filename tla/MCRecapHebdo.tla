---------------------------- MODULE MCRecapHebdo ----------------------------
(* Instances of RecapHebdo for TLC.                                          *)
EXTENDS RecapHebdo, TLC

CONSTANTS i1, i2, F1, p1, p2

\* A household with two parents.
MCUnFoyer == F1 :> {p1, p2}

\* A household with one parent.
MCUnParent == F1 :> {p1}
=============================================================================
