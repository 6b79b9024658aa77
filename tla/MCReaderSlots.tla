--------------------------- MODULE MCReaderSlots ---------------------------
(* Instances of ReaderSlots for TLC. *)
EXTENDS ReaderSlots

CONSTANTS r1, r2, r3
=============================================================================
