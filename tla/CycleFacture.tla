----------------------------- MODULE CycleFacture ----------------------------
(***************************************************************************)
(* What the module promises of an invoice (PaiementService.php:26-32 and   *)
(* 68-74): it is issued, settled once, perhaps refunded once, and what the *)
(* wallet of the customer gave for it is its amount from the settlement to *)
(* the refund, and nothing before or after.                                *)
(***************************************************************************)
EXTENDS Integers

CONSTANTS Factures, Ttc

VARIABLES
  etat,      \* the status of each invoice
  encaisse   \* what the wallet of its customer gave for it, net of refunds

Init ==
  /\ etat = [f \in Factures |-> "absente"]
  /\ encaisse = [f \in Factures |-> 0]

Emettre(f) ==
  /\ etat[f] = "absente"
  /\ etat' = [etat EXCEPT ![f] = "impayee"]
  /\ UNCHANGED encaisse

\* By the wallet (the amount is taken) or by another means (nothing is).
Solder(f) ==
  /\ etat[f] = "impayee"
  /\ etat' = [etat EXCEPT ![f] = "payee"]
  /\ \/ encaisse' = [encaisse EXCEPT ![f] = Ttc[f]]
     \/ UNCHANGED encaisse

Rendre(f) ==
  /\ etat[f] = "payee"
  /\ etat' = [etat EXCEPT ![f] = "remboursee"]
  /\ encaisse' = [encaisse EXCEPT ![f] = 0]

Next == \E f \in Factures : Emettre(f) \/ Solder(f) \/ Rendre(f)

Spec == Init /\ [][Next]_<<etat, encaisse>>

=============================================================================
