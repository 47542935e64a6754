---------------------------- MODULE MCAgentGrants ----------------------------
(* Instance of AgentGrants for TLC. *)
EXTENDS AgentGrants, TLC

Symmetry == Permutations(Agents) \cup Permutations(Tenants) \cup Permutations(Writers)
=============================================================================
