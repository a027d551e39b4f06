------------------------- MODULE MCProofOfPossession -------------------------
(* TLC instance of ProofOfPossession: handlers and threads are              *)
(* interchangeable.                                                         *)
EXTENDS ProofOfPossession, TLC

HandlerSymmetry == Permutations(Requests) \cup Permutations(Calls)
=============================================================================
