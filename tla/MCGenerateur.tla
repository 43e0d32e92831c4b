---------------------------- MODULE MCGenerateur ----------------------------
EXTENDS Generateur
=============================================================================
