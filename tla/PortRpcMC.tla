----------------------------- MODULE PortRpcMC ------------------------------
(* An instance of PortRpc for TLC.                                           *)
EXTENDS PortRpc

\* The callers that wait differ by their names only.
Symmetry == Permutations(Waiter)
=============================================================================
