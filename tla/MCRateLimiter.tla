--------------------------- MODULE MCRateLimiter ---------------------------
(* Two clients, two requests per window of three ticks, and two windows after    *)
(* the first: bursts meet at every offset from a window's edge.                  *)
EXTENDS RateLimiter, TLC

CONSTANTS alice, bob

MCClients == {alice, bob}
Symmetry == Permutations(MCClients)
=============================================================================
