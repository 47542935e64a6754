---------------------------- MODULE MCRateLimiter ----------------------------
(* Instance of RateLimiter for TLC. *)
EXTENDS RateLimiter, TLC

Symmetry == Permutations(Agents) \cup Permutations(Threads)
=============================================================================
