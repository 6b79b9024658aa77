----------------------------- MODULE MCRpcCaps -----------------------------
(* Instances of RpcCaps for TLC. *)
EXTENDS RpcCaps

CONSTANTS b1, b2, q1, q2, q3, p1

\* Calls are interchangeable.
Symmetry == Permutations(Calls)
=============================================================================
