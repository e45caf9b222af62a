--------------------------- MODULE MCTrackerStore ---------------------------
(* TrackerStore for TLC; the constants are given by the configurations.     *)
EXTENDS TrackerStore
=============================================================================
