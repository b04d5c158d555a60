----------------------------- MODULE MCRpcTurns -----------------------------
(* Values for the constants of RpcTurns.                                   *)
EXTENDS RpcTurns, TLC

Interchangeable == Permutations(Prompts) \cup Permutations(Callers)
=============================================================================
