------------------------------ MODULE MCLunMap ------------------------------
(* LunMap for TLC: all constants are numbers, flags and model values.        *)
EXTENDS LunMap
=============================================================================
