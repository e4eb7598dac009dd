---------------------------- MODULE MCDigitalTwinMap ----------------------------
(* TLC instances of DigitalTwinMap. *)
EXTENDS DigitalTwinMap
=================================================================================
