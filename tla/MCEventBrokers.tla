--------------------------- MODULE MCEventBrokers ---------------------------
(* EventBrokers for TLC; the constants are given by the configurations.     *)
EXTENDS EventBrokers
=============================================================================
