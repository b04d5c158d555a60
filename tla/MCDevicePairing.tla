--------------------------- MODULE MCDevicePairing ---------------------------
(* Two requests at a time, three tokens, three codes.                       *)
EXTENDS DevicePairing, TLC

Interchangeable == Permutations(Requests) \cup Permutations(Tokens)
=============================================================================
