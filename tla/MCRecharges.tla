----------------------------- MODULE MCRecharges -----------------------------
(* Instances of Recharges for TLC. *)
EXTENDS Recharges

CONSTANTS t1, t2, t3, q1, q2
=============================================================================
