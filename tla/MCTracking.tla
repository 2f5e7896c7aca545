----------------------------- MODULE MCTracking -----------------------------
(***************************************************************************)
(* Instances of Tracking for TLC.                                          *)
(***************************************************************************)
EXTENDS Tracking

AllProviders == {"timed", "allied", "startrack"}
=============================================================================
