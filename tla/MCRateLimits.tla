---------------------------- MODULE MCRateLimits ----------------------------
(* RateLimits for TLC: requests and processes are interchangeable.         *)
EXTENDS RateLimits, TLC

Symmetry == Permutations(Requests) \cup Permutations(Processes)
                \cup Permutations(Addresses)
=============================================================================
