---------------------------- MODULE MCHttpStream ----------------------------
(* Instances of HttpStream for TLC. *)
EXTENDS HttpStream

CONSTANTS q1, q2, q3
=============================================================================
