---------------------------- MODULE RateLimiterMC ----------------------------
(***************************************************************************)
(* Small instances of RateLimiter.                                         *)
(***************************************************************************)
EXTENDS RateLimiter, TLC

Alike == Permutations(Addresses)
=============================================================================
