-------------------------- MODULE MCUpdatePipeline --------------------------
(* A small instance of UpdatePipeline for TLC.                              *)
EXTENDS UpdatePipeline

CONSTANTS m1, m2, pos, items
=============================================================================
