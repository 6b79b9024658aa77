---------------------------- MODULE MCReconnect ----------------------------
(* Instances of Reconnect for TLC. *)
EXTENDS Reconnect

CONSTANTS f, g, h
=============================================================================
