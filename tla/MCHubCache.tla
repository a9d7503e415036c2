----------------------------- MODULE MCHubCache -----------------------------
(* A small instance of HubCache for TLC: two requests for one key, a budget *)
(* of 3 with a reserve of 1 that shrinks to 2.                              *)
EXTENDS HubCache

CONSTANTS r1, r2, k1, l1, l2, l3
=============================================================================
