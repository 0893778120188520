--------------------------- MODULE MCRateLimiter ---------------------------
(* Instances of RateLimiter for TLC.                                       *)
EXTENDS RateLimiter, TLC

\* Requests and users are interchangeable (RateLimiter_safety only).
Symmetry == Permutations(Requests) \cup Permutations(Users)

=============================================================================
