---------------------------- MODULE MCRateLimit ----------------------------
(* Small instances of the login limiter for TLC. *)
EXTENDS RateLimit, TLC

\* Addresses differ in nothing but their names.
Symmetric == Permutations(Addresses)
=============================================================================
