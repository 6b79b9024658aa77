---------------------------- MODULE MCHttpBatch ----------------------------
(* Instances of HttpBatch for TLC. *)
EXTENDS HttpBatch

CONSTANTS q1, q2, q3
=============================================================================
