----------------------------- MODULE MCPaiements -----------------------------
(***************************************************************************)
(* Instances of Paiements for TLC: the invoices of one or two customers,   *)
(* given in the order they are issued.                                     *)
(***************************************************************************)
EXTENDS Paiements

CONSTANTS alice, bob

\* One customer: a cheap invoice after a dear one.
UnTitulaire == [f \in Factures |-> alice]
UnTtc == [f \in Factures |-> IF f = 1 THEN 2 ELSE 1]

\* Two customers: one with a dear invoice after a cheap one, the other with the
\* free charge of an idle session.
DeuxTitulaires == [f \in Factures |-> IF f = 3 THEN bob ELSE alice]
DeuxTtc == [f \in Factures |-> CASE f = 1 -> 1 [] f = 2 -> 3 [] f = 3 -> 0]
=============================================================================
