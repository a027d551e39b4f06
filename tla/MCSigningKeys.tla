--------------------------- MODULE MCSigningKeys ---------------------------
(* TLC instance of SigningKeys: requests are interchangeable. *)
EXTENDS SigningKeys, TLC

RequestSymmetry == Permutations(Requests)
=============================================================================
