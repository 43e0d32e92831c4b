------------------------------ MODULE Paiements ------------------------------
(***************************************************************************)
(* Invoices, payments and the prepaid wallet of the back office (Module 9: *)
(* PaiementService.php, PasserelleCarteSimulee.php and the controllers     *)
(* that call them).  Each HTTP request is a PHP process; a request is cut  *)
(* into the points where another one can come in between: what it reads    *)
(* before its database transaction, and the transaction itself, which is   *)
(* one step.  Money is counted in millimes.                                *)
(***************************************************************************)
EXTENDS Integers, Sequences, FiniteSets

CONSTANTS
  Clients,      \* customers, each with one wallet
  Factures,     \* invoice ids, in the order they are issued
  Titulaire,    \* the customer an invoice is addressed to
  Ttc,          \* the amount of an invoice, in millimes
  Montants,     \* the amounts a top-up or a withdrawal may ask for
  Plafond,      \* the largest top-up by card
  Requetes,     \* the PHP processes that serve requests
  MaxRequetes   \* bound: how many requests are served in all

ASSUME HypPaiements ==
  /\ Factures \subseteq Nat \ {0}
  /\ Titulaire \in [Factures -> Clients]
  /\ Ttc \in [Factures -> Nat]
  /\ Montants \subseteq Nat \ {0}
  /\ Plafond \in Nat
  /\ MaxRequetes \in Nat

VARIABLES
  solde,      \* wallets.solde
  journal,    \* the wallet_transactions of each wallet, oldest first
  statut,     \* factures.statut ("absente": not issued yet)
  echeance,   \* factures.echeance is set
  paiements,  \* the paiements table
  cartes,     \* the paiements_carte table, with the HTTP status answered
  req,        \* what each process is in the middle of
  servies     \* how many requests were accepted so far (model bound)

vars == <<solde, journal, statut, echeance, paiements, cartes, req, servies>>

-----------------------------------------------------------------------------
(* Types *)

SansFacture == 0
NonAnnule == 0

Moyens == {"carte", "wallet", "differe"}   \* "abonnement" takes the path of "carte"

Ecriture == [type: {"credit", "debit"}, montant: Nat, soldeApres: Nat,
             motif: {"depot", "retrait", "facture", "remboursement", "annulation"},
             facture: Nat, annulePar: Nat]

Paiement == [facture: Factures, moyen: Moyens,
             statut: {"en_attente", "paye", "rembourse"}]

PaiementCarte == [client: Clients, statut: {"accepte", "refuse"},
                  reponse: {"aucune", "201", "402", "422"}]

\* restantes: the unpaid invoices still to settle; carte: the row of cartes the
\* request is answering for, 0 when it closes a charging session
Libre == [op |-> "libre"]
Requete == {Libre}
  \cup [op: {"echeance"}, facture: Factures, reglable: BOOLEAN]
  \cup [op: {"regler"}, facture: Factures, moyen: Moyens]
  \cup [op: {"rembourser"}, paiement: Nat \ {0}]
  \cup [op: {"annuler"}, client: Clients, ligne: Nat \ {0}]
  \cup [op: {"lister"}, carte: Nat]
  \cup [op: {"examiner"}, restantes: SUBSET Factures, carte: Nat]
  \cup [op: {"payer"}, facture: Factures, restantes: SUBSET Factures, carte: Nat]

TypeOK ==
  /\ solde \in [Clients -> Nat]
  /\ journal \in [Clients -> Seq(Ecriture)]
  /\ statut \in [Factures -> {"absente", "impayee", "payee", "remboursee"}]
  /\ echeance \in [Factures -> BOOLEAN]
  /\ paiements \in Seq(Paiement)
  /\ cartes \in Seq(PaiementCarte)
  /\ req \in [Requetes -> Requete]
  /\ servies \in 0..MaxRequetes

Init ==
  /\ solde = [c \in Clients |-> 0]
  /\ journal = [c \in Clients |-> <<>>]
  /\ statut = [f \in Factures |-> "absente"]
  /\ echeance = [f \in Factures |-> FALSE]
  /\ paiements = <<>>
  /\ cartes = <<>>
  /\ req = [r \in Requetes |-> Libre]
  /\ servies = 0

-----------------------------------------------------------------------------
(* The ledger: every movement writes the balance and a row together, under  *)
(* a row lock.                                                               *)

\* Faulty variant: the balance read is lost and the amount overwrites it.
Credit_Perdu(c, m, motif, f) ==
  [type |-> "credit", montant |-> m, soldeApres |-> m,
   motif |-> motif, facture |-> f, annulePar |-> NonAnnule]
Credit(c, m, motif, f) ==
  [type |-> "credit", montant |-> m, soldeApres |-> solde[c] + m,
   motif |-> motif, facture |-> f, annulePar |-> NonAnnule]

Debit(c, m, motif, f) ==
  [type |-> "debit", montant |-> m, soldeApres |-> solde[c] - m,
   motif |-> motif, facture |-> f, annulePar |-> NonAnnule]

Suffisant_Omis(c, m) == TRUE   \* faulty variant: no check under the lock
Suffisant(c, m) == m <= solde[c]

\* The row e is added to the wallet of c, whose earlier rows are `avant`.
Ecrire(c, avant, e) ==
  /\ solde' = [solde EXCEPT ![c] = e.soldeApres]
  /\ journal' = [journal EXCEPT ![c] = Append(avant, e)]

SansMouvement == UNCHANGED <<solde, journal>>

\* A process accepts a request: it must be idle.
Commencer(r) ==
  /\ req[r] = Libre
  /\ servies < MaxRequetes
  /\ servies' = servies + 1

Suivre(r, etat) == req' = [req EXCEPT ![r] = etat]

-----------------------------------------------------------------------------
(* Wallet operations that are one transaction *)

\* POST wallets/crediter
Crediter(r, c, m) ==
  /\ Commencer(r)
  /\ Ecrire(c, journal[c], Credit(c, m, "depot", SansFacture))
  /\ UNCHANGED <<statut, echeance, paiements, cartes, req>>

\* POST wallets/debiter
Debiter(r, c, m) ==
  /\ Commencer(r)
  /\ Suffisant(c, m)
  /\ Ecrire(c, journal[c], Debit(c, m, "retrait", SansFacture))
  /\ UNCHANGED <<statut, echeance, paiements, cartes, req>>

-----------------------------------------------------------------------------
(* Cancelling a top-up: the row is read and checked, then reversed *)

Annulable(c, i) == journal[c][i].type = "credit" /\ journal[c][i].annulePar = NonAnnule

LireEcriture(r, c, i) ==
  /\ Commencer(r)
  /\ Annulable(c, i)
  /\ Suivre(r, [op |-> "annuler", client |-> c, ligne |-> i])
  /\ UNCHANGED <<solde, journal, statut, echeance, paiements, cartes>>

\* Faulty variants: the row is deleted; its amount is erased; the pointer is off by one.
Marquer_Efface(c, i) ==
  [k \in 1..(Len(journal[c]) - 1) |-> journal[c][IF k < i THEN k ELSE k + 1]]
Marquer_Vide(c, i) ==
  [journal[c] EXCEPT ![i].annulePar = Len(journal[c]) + 1, ![i].motif = "annulation"]
\* The journal of c with its row i marked as reversed by the row to come.
Marquer(c, i) == [journal[c] EXCEPT ![i].annulePar = Len(journal[c]) + 1]

AnnulerRechargement(r) ==
  /\ req[r].op = "annuler"
  /\ LET c == req[r].client
         i == req[r].ligne
         m == journal[c][i].montant
     IN \/ /\ Suffisant(c, m)
           /\ Ecrire(c, Marquer(c, i), Debit(c, m, "annulation", SansFacture))
        \/ /\ ~Suffisant(c, m)
           /\ SansMouvement
  /\ Suivre(r, Libre)
  /\ UNCHANGED <<statut, echeance, paiements, cartes, servies>>

-----------------------------------------------------------------------------
(* Settling an invoice *)

\* Faulty variants: a deferred payment counts as received; the means is defaulted.
Encaisser_Anticipe(f, moyen) == Append(paiements,
  [facture |-> f, moyen |-> moyen, statut |-> "paye"])
Encaisser_ParDefaut(f, moyen) == Append(paiements,
  [facture |-> f, moyen |-> IF moyen = "wallet" THEN "carte" ELSE moyen,
   statut |-> IF moyen = "differe" THEN "en_attente" ELSE "paye"])
Encaisser(f, moyen) == Append(paiements,
  [facture |-> f, moyen |-> moyen,
   statut |-> IF moyen = "differe" THEN "en_attente" ELSE "paye"])

\* The transaction of PaiementService::regler throws on a wallet that is short.
Possible(f, moyen) == moyen = "wallet" => Suffisant(Titulaire[f], Ttc[f])

Regler(f, moyen) ==
  /\ Possible(f, moyen)
  /\ IF moyen = "wallet"
     THEN LET c == Titulaire[f] IN Ecrire(c, journal[c], Debit(c, Ttc[f], "facture", f))
     ELSE SansMouvement
  /\ paiements' = Encaisser(f, moyen)
  /\ statut' = IF moyen = "differe" THEN statut ELSE [statut EXCEPT ![f] = "payee"]

ReglementRefuse(f, moyen) ==
  /\ ~Possible(f, moyen)
  /\ SansMouvement
  /\ UNCHANGED <<paiements, statut>>

Reglable_Toujours(f) == TRUE   \* faulty variant: any invoice is settled
Reglable(f) == statut[f] = "impayee"

\* POST factures/{facture}/regler: the route loads the invoice; a settlement at
\* once is refused unless the status read is "impayee".
LireFacture(r, f, moyen) ==
  /\ Commencer(r)
  /\ statut[f] # "absente"
  /\ \/ /\ moyen = "differe"
        /\ Suivre(r, [op |-> "echeance", facture |-> f,
                      reglable |-> Reglable(f)])
     \/ /\ moyen # "differe"
        /\ Reglable(f)
        /\ Suivre(r, [op |-> "regler", facture |-> f, moyen |-> moyen])
  /\ UNCHANGED <<solde, journal, statut, echeance, paiements, cartes>>

DateLimite(f) == [echeance EXCEPT ![f] = TRUE]

\* A deferred payment first writes the due date, whatever the status read was.
PoserEcheance(r) ==
  /\ req[r].op = "echeance"
  /\ echeance' = DateLimite(req[r].facture)
  /\ Suivre(r, IF req[r].reglable
               THEN [op |-> "regler", facture |-> req[r].facture, moyen |-> "differe"]
               ELSE Libre)
  /\ UNCHANGED <<solde, journal, statut, paiements, cartes, servies>>

ReglerFacture(r) ==
  /\ req[r].op = "regler"
  /\ \/ Regler(req[r].facture, req[r].moyen)
     \/ ReglementRefuse(req[r].facture, req[r].moyen)
  /\ Suivre(r, Libre)
  /\ UNCHANGED <<echeance, cartes, servies>>

-----------------------------------------------------------------------------
(* Refunding a payment *)

Remboursable_Rejoue(p) == paiements[p].statut # "en_attente"   \* faulty variant
Remboursable(p) == paiements[p].statut = "paye"

LirePaiement(r, p) ==
  /\ Commencer(r)
  /\ Remboursable(p)
  /\ Suivre(r, [op |-> "rembourser", paiement |-> p])
  /\ UNCHANGED <<solde, journal, statut, echeance, paiements, cartes>>

\* Faulty variant: the credit does not say which invoice it gives back.
Recrediter_SansLien(f) ==
  LET c == Titulaire[f]
  IN  Ecrire(c, journal[c], Credit(c, Ttc[f], "remboursement", SansFacture))
Recrediter(f) ==
  LET c == Titulaire[f] IN Ecrire(c, journal[c], Credit(c, Ttc[f], "remboursement", f))

\* crediter throws on an amount of zero, and the refund is then rolled back.
Rembourser(r) ==
  /\ req[r].op = "rembourser"
  /\ LET p == req[r].paiement
         f == paiements[p].facture
         parWallet == paiements[p].moyen = "wallet"
     IN \/ /\ parWallet /\ Ttc[f] = 0
           /\ SansMouvement
           /\ UNCHANGED <<paiements, statut>>
        \/ /\ ~(parWallet /\ Ttc[f] = 0)
           /\ IF parWallet THEN Recrediter(f) ELSE SansMouvement
           /\ paiements' = [paiements EXCEPT ![p].statut = "rembourse"]
           /\ statut' = [statut EXCEPT ![f] = "remboursee"]
  /\ Suivre(r, Libre)
  /\ UNCHANGED <<echeance, cartes, servies>>

-----------------------------------------------------------------------------
(* Issuing an invoice, and settling what the wallet can pay: at the end of  *)
(* a charging session, and after a top-up by card.                           *)

\* Invoice ids grow: the next one issued is the least that is not.
Prochaine(f) == \A g \in Factures : g < f => statut[g] # "absente"

Emise(f) == IF statut[f] = "absente" THEN "impayee" ELSE statut[f]

\* POST factures/generer, for one session without an invoice
Generer(r, f) ==
  /\ Commencer(r)
  /\ statut[f] = "absente" /\ Prochaine(f)
  /\ statut' = [statut EXCEPT ![f] = Emise(f)]
  /\ UNCHANGED <<solde, journal, echeance, paiements, cartes, req>>

\* The end of stopTransaction: issue the invoice, or find the one that exists,
\* and try to settle it if it is unpaid.
Cloturer(r, f) ==
  /\ Commencer(r)
  /\ Prochaine(f)
  /\ statut' = [statut EXCEPT ![f] = Emise(f)]
  /\ Suivre(r, IF Emise(f) = "impayee"
               THEN [op |-> "examiner", restantes |-> {f}, carte |-> 0]
               ELSE Libre)
  /\ UNCHANGED <<solde, journal, echeance, paiements, cartes>>

\* POST portail/recharger: a refusal is traced, an accepted card is credited.
RechargerRefuse(r, c) ==
  /\ Commencer(r)
  /\ cartes' = Append(cartes, [client |-> c, statut |-> "refuse", reponse |-> "402"])
  /\ UNCHANGED <<solde, journal, statut, echeance, paiements, req>>

RechargerAccepte(r, c, m) ==
  /\ Commencer(r)
  /\ m <= Plafond
  /\ Ecrire(c, journal[c], Credit(c, m, "depot", SansFacture))
  /\ cartes' = Append(cartes, [client |-> c, statut |-> "accepte", reponse |-> "aucune"])
  /\ Suivre(r, [op |-> "lister", carte |-> Len(cartes) + 1])
  /\ UNCHANGED <<statut, echeance, paiements>>

Impayees(c) == {f \in Factures : Titulaire[f] = c /\ statut[f] = "impayee"}

ListerImpayees(r) ==
  /\ req[r].op = "lister"
  /\ Suivre(r, [op |-> "examiner", restantes |-> Impayees(cartes[req[r].carte].client),
                carte |-> req[r].carte])
  /\ UNCHANGED <<solde, journal, statut, echeance, paiements, cartes, servies>>

\* The request ends; a top-up by card answers the given HTTP status.
Repondre(r, code) ==
  /\ Suivre(r, Libre)
  /\ cartes' = IF req[r].carte = 0 THEN cartes
               ELSE [cartes EXCEPT ![req[r].carte].reponse = code]

PlusAncienne(f, S) == f \in S /\ \A g \in S : f <= g

SoldeCouvre(f) == Ttc[f] <= solde[Titulaire[f]]

\* Faulty variant: on a short balance the loop looks at the same invoice again.
ExaminerSuivante_SansFin(r) ==
  /\ req[r].op = "examiner"
  /\ \E f \in req[r].restantes :
       /\ PlusAncienne(f, req[r].restantes)
       /\ SoldeCouvre(f)
       /\ Suivre(r, [op |-> "payer", facture |-> f,
                     restantes |-> req[r].restantes \ {f}, carte |-> req[r].carte])
  /\ UNCHANGED <<solde, journal, statut, echeance, paiements, cartes, servies>>

\* reglerDepuisWalletSiPossible up to its check of the balance
ExaminerSuivante(r) ==
  /\ req[r].op = "examiner"
  /\ \E f \in req[r].restantes :
       /\ PlusAncienne(f, req[r].restantes)
       /\ \/ /\ SoldeCouvre(f)
             /\ Suivre(r, [op |-> "payer", facture |-> f,
                           restantes |-> req[r].restantes \ {f}, carte |-> req[r].carte])
             /\ UNCHANGED cartes
          \/ /\ ~SoldeCouvre(f)
             /\ Repondre(r, "201")
  /\ UNCHANGED <<solde, journal, statut, echeance, paiements, servies>>

FinirReglements(r) ==
  /\ req[r].op = "examiner"
  /\ req[r].restantes = {}
  /\ Repondre(r, "201")
  /\ UNCHANGED <<solde, journal, statut, echeance, paiements, servies>>

\* The settlement transaction; its exception ends the request (422 for a card).
PayerSuivante(r) ==
  /\ req[r].op = "payer"
  /\ \/ /\ Regler(req[r].facture, "wallet")
        /\ Suivre(r, [op |-> "examiner", restantes |-> req[r].restantes,
                      carte |-> req[r].carte])
        /\ UNCHANGED cartes
     \/ /\ ReglementRefuse(req[r].facture, "wallet")
        /\ Repondre(r, "422")
  /\ UNCHANGED <<echeance, servies>>

-----------------------------------------------------------------------------

Arrivee(r) ==
  \/ \E c \in Clients, m \in Montants :
       Crediter(r, c, m) \/ Debiter(r, c, m) \/ RechargerAccepte(r, c, m)
  \/ \E c \in Clients : RechargerRefuse(r, c)
  \/ \E c \in Clients : \E i \in DOMAIN journal[c] : LireEcriture(r, c, i)
  \/ \E f \in Factures : Generer(r, f) \/ Cloturer(r, f)
  \/ \E f \in Factures, moyen \in Moyens : LireFacture(r, f, moyen)
  \/ \E p \in DOMAIN paiements : LirePaiement(r, p)

Avancer(r) ==
  \/ AnnulerRechargement(r) \/ Rembourser(r)
  \/ PoserEcheance(r) \/ ReglerFacture(r)
  \/ ListerImpayees(r) \/ ExaminerSuivante(r)
  \/ PayerSuivante(r) \/ FinirReglements(r)

\* Every request of the bound was served: the model stops here.
Epuise ==
  /\ servies = MaxRequetes
  /\ \A r \in Requetes : req[r] = Libre
  /\ UNCHANGED vars

Next == (\E r \in Requetes : Arrivee(r) \/ Avancer(r)) \/ Epuise

\* A PHP process that accepted a request runs to its end; nobody is bound to
\* send requests.
Spec == Init /\ [][Next]_vars /\ \A r \in Requetes : WF_vars(Avancer(r))

-----------------------------------------------------------------------------
(* Properties *)

Lignes(c) == DOMAIN journal[c]
LignesDe(c, motif, f) ==
  {i \in Lignes(c) : journal[c][i].motif = motif /\ journal[c][i].facture = f}
PaiementsDe(f, statuts) ==
  {p \in DOMAIN paiements : paiements[p].facture = f /\ paiements[p].statut \in statuts}
Recu == {"paye", "rembourse"}

\* The balance before row i of a journal j.
Avant(j, i) == IF i = 1 THEN 0 ELSE j[i - 1].soldeApres

\* Each row of j carries the balance before it moved by its own amount, and the
\* balance s is what the last row says.
Chaine(j, s) ==
  /\ \A i \in 1..Len(j) :
       j[i].soldeApres = IF j[i].type = "credit" THEN Avant(j, i) + j[i].montant
                                                 ELSE Avant(j, i) - j[i].montant
  /\ s = Avant(j, Len(j) + 1)

\* "A deleted row would make the balance diverge from its history"
\* (PaiementService.php:199-202): the ledger of a wallet can be read back from its
\* first row to its last, and ends on the balance the wallet holds.
SoldeSuitJournal == \A c \in Clients : Chaine(journal[c], solde[c])

\* The status of an invoice never contradicts its payments, however the requests
\* that settle and refund it overlap: nothing was received for an unpaid one, a
\* paid one has a payment still held, a refunded one has a payment given back.
StatutJustifie ==
  \A f \in Factures :
    /\ statut[f] \in {"absente", "impayee"} => PaiementsDe(f, Recu) = {}
    /\ statut[f] = "payee" => PaiementsDe(f, {"paye"}) # {}
    /\ statut[f] = "remboursee" => PaiementsDe(f, {"rembourse"}) # {}

\* Wallet and payments agree: an invoice was debited as many times as a wallet
\* payment was recorded for it (the two are written in one transaction).
DebitsDesReglements ==
  \A f \in Factures :
    Cardinality(LignesDe(Titulaire[f], "facture", f)) =
      Cardinality({p \in PaiementsDe(f, Recu) : paiements[p].moyen = "wallet"})

\* A reversed top-up points at a later debit of the same amount, and no debit
\* serves to reverse two top-ups.
AnnulationAppariee ==
  \A c \in Clients : \A i \in Lignes(c) :
    LET k == journal[c][i].annulePar IN
    k # NonAnnule =>
      /\ k \in (i + 1)..Len(journal[c])
      /\ journal[c][k].motif = "annulation"
      /\ journal[c][k].montant = journal[c][i].montant
      /\ \A j \in Lignes(c) : journal[c][j].annulePar = k => j = i

\* The rows of the ledger are matched by what they are the counterpart of, although
\* payments and rows are written by different statements of overlapping requests: a
\* debit by its payment, a reversal by the top-up it reverses.
EcrituresAppariees == DebitsDesReglements /\ AnnulationAppariee

\* The ledger is append-only (WalletTransaction.php:9): a row keeps its place, its
\* amount, its balance and its reason for ever; only the reversal mark may change.
JournalIntact ==
  [][\A c \in Clients : \A i \in Lignes(c) :
       /\ i \in DOMAIN journal'[c]
       /\ [journal'[c][i] EXCEPT !.annulePar = 0] = [journal[c][i] EXCEPT !.annulePar = 0]]_vars

\* Only an unpaid invoice is settled (PaiementService.php:36): at most one payment
\* is ever received for an invoice.
UnSeulReglement == \A f \in Factures : Cardinality(PaiementsDe(f, Recu)) <= 1

\* Only a payment still held is refunded (PaiementService.php:126): the wallet is
\* credited once for each wallet payment given back.
RemboursementUnique ==
  \A f \in Factures :
    Cardinality(LignesDe(Titulaire[f], "remboursement", f)) =
      Cardinality({p \in PaiementsDe(f, {"rembourse"}) : paiements[p].moyen = "wallet"})

\* "A top-up already cancelled cannot be cancelled a second time"
\* (WalletTransaction.php:47): each reversing debit is the mark of one top-up.
AnnulationUnique ==
  \A c \in Clients :
    Cardinality(LignesDe(c, "annulation", SansFacture)) =
      Cardinality({i \in Lignes(c) : journal[c][i].annulePar # NonAnnule})

\* What a request already did is not done a second time by a later one, on the page of
\* the staff, of the customer or by the loop after a top-up.
UneSeuleFois == UnSeulReglement /\ RemboursementUnique /\ AnnulationUnique

\* A request that was accepted is answered: the settlement loop ends and no
\* exception leaves a process stuck.
RequeteAboutit == \A r \in Requetes : (req[r].op # "libre") ~> (req[r].op = "libre")

-----------------------------------------------------------------------------
(* What the module implements *)

Signe(e) == IF e.type = "credit" THEN e.montant ELSE 0 - e.montant

C == INSTANCE Compte
  WITH avoir <- solde,
       releve <- [c \in Clients |-> [i \in Lignes(c) |-> Signe(journal[c][i])]]

\* The wallet is an account that is never overdrawn and whose statement says all.
ImplementeCompte == C!Spec

\* What the wallet of its customer gave for f, net of refunds.
Net(f) == Ttc[f] * (Cardinality(LignesDe(Titulaire[f], "facture", f))
                    - Cardinality(LignesDe(Titulaire[f], "remboursement", f)))

F == INSTANCE CycleFacture WITH etat <- statut, encaisse <- [f \in Factures |-> Net(f)]

\* Served one request at a time, an invoice is settled once and refunded once.
ImplementeCycleFacture == F!Spec

=============================================================================
