--------------------------- MODULE MCRateLimiter ---------------------------
(* The rate limiter on a small instance.                                      *)
EXTENDS RateLimiter, TLC

\* Requests are interchangeable.
Symmetric == Permutations(Requests)
=============================================================================
