------------------------- MODULE MCOfflineCommands -------------------------
(* OfflineCommands for TLC: a training graph, and marker configurations.    *)
EXTENDS OfflineCommands, MCIncrementalTraining, MCMarkers

=============================================================================
