---------------------------- MODULE MCX509Bundle ----------------------------
(* TLC instance of X509Bundle: requests are interchangeable. *)
EXTENDS X509Bundle, TLC

RequestSymmetry == Permutations(Requests)
=============================================================================
