------------------------------ MODULE MCAgent ------------------------------
(* Agent for TLC: replicas are model values of the configuration.            *)
EXTENDS Agent
=============================================================================
