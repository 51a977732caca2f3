------------------------------- MODULE MCRpc -------------------------------
(* Rpc for TLC: operations and pings are model values of the configuration.  *)
EXTENDS Rpc
=============================================================================
