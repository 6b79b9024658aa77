--------------------------- MODULE MCOrdinalLock ---------------------------
(* Instances of OrdinalLock for TLC. *)
EXTENDS OrdinalLock

CONSTANTS a, b, c, s, t
=============================================================================
