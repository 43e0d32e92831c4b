------------------------------- MODULE Compte --------------------------------
(***************************************************************************)
(* What a wallet promises (migration create_wallets_table, WalletController*)
(* .php:35-40): an account is never overdrawn, and its balance only moves  *)
(* together with a line of its statement that says by how much, one        *)
(* account and one line at a time.                                         *)
(***************************************************************************)
EXTENDS Integers, Sequences

CONSTANT Clients

VARIABLES
  avoir,    \* the balance of each account
  releve    \* the statement of each account: signed amounts, oldest first

Init ==
  /\ avoir = [c \in Clients |-> 0]
  /\ releve = [c \in Clients |-> <<>>]

Mouvement(c) ==
  /\ avoir'[c] \in Nat
  /\ avoir' = [avoir EXCEPT ![c] = avoir'[c]]
  /\ releve' = [releve EXCEPT ![c] = Append(@, avoir'[c] - avoir[c])]

Next == \E c \in Clients : Mouvement(c)

Spec == Init /\ [][Next]_<<avoir, releve>>

=============================================================================
