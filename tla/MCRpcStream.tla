---------------------------- MODULE MCRpcStream ----------------------------
(* Instances of RpcStream for TLC; its constants are plain values. *)
EXTENDS RpcStream
=============================================================================
