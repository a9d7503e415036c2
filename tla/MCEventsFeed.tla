---------------------------- MODULE MCEventsFeed ----------------------------
(* A small instance of EventsFeed for TLC.                                  *)
EXTENDS EventsShown
=============================================================================
