------------------------------ MODULE MCTampon ------------------------------
(* Instances of Tampon for TLC: messages are model values.                    *)
EXTENDS Tampon

CONSTANTS m1, m2, r1, n1

=============================================================================
