--------------------------- MODULE MCCentralSystem ---------------------------
(* Instances of CentralSystem for TLC: charge points, commands and CALLs are  *)
(* model values.                                                             *)
EXTENDS CentralSystem

CONSTANTS b1, b2, k1, k2, a1

=============================================================================
