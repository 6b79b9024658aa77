---------------------------- MODULE MCRpcCalls ----------------------------
(* Instances of RpcCalls for TLC. *)
EXTENDS RpcCalls

CONSTANTS q1, q2, q3
=============================================================================
