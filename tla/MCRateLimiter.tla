--------------------------- MODULE MCRateLimiter ---------------------------
(***************************************************************************)
(* Bounds for TLC: interchangeable threads and clients.                    *)
(***************************************************************************)
EXTENDS RateLimiter, TLC

Symmetry == Permutations(Threads) \cup Permutations(Clients)

============================================================================
