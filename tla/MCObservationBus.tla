-------------------------- MODULE MCObservationBus --------------------------
(* Instance of ObservationBus for TLC. *)
EXTENDS ObservationBus

CONSTANTS s1, s2

TwoWired == <<s1, s2>>
=============================================================================
