------------------------------ MODULE MCStation ------------------------------
EXTENDS Station

SansLimite == -1

=============================================================================
