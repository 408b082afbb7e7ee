--------------------------- MODULE MCAuthKeyCache ---------------------------
(* Values and calls are interchangeable. *)
EXTENDS AuthKeyCache, TLC

Symm == Permutations(Values) \cup Permutations(Caller)
=============================================================================
