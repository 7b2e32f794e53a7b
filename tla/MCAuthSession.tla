--------------------------- MODULE MCAuthSession ---------------------------
(* Symmetry of token ids and of requests, for the safety runs.             *)
EXTENDS AuthSession, TLC

Symmetry == Permutations(Tokens) \cup Permutations(Requests)
=============================================================================
