------------------------ MODULE MCJetStreamConsumer ------------------------
(* Instances of JetStreamConsumer for TLC.                                  *)
EXTENDS JetStreamConsumer

CONSTANTS bon, poison, inconnu
=============================================================================
