-------------------------- MODULE MCAgentLifecycle --------------------------
(* TLC instance of AgentLifecycle: requests are interchangeable. *)
EXTENDS AgentLifecycle, TLC

CONSTANTS capable, jwtOnly

RequestSymmetry == Permutations(Requests)
=============================================================================
