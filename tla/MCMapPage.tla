----------------------------- MODULE MCMapPage -----------------------------
(* A small instance of MapPage for TLC: two players.                        *)
EXTENDS MapPage

CONSTANTS a, b
=============================================================================
