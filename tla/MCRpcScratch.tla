--------------------------- MODULE MCRpcScratch ----------------------------
(* Instances of RpcScratch for TLC. *)
EXTENDS RpcScratch

CONSTANTS c1, c2, c3, q1
=============================================================================
