---------------------------- MODULE MCJsonWire -----------------------------
(* Instances of JsonWire for TLC. *)
EXTENDS JsonWire

CONSTANTS j1, j2, j3
=============================================================================
