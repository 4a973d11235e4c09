---------------------------- MODULE MCRateLimiter ----------------------------
(* Small instances of RateLimiter. *)
EXTENDS RateLimiter, TLC

AddressSymmetry == Permutations(Address)
==============================================================================
