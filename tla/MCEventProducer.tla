--------------------------- MODULE MCEventProducer ---------------------------
(* Instance of EventProducer for TLC *)
EXTENDS EventProducer
=============================================================================
