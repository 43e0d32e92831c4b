-------------------------- MODULE PaiementsPreuves ---------------------------
(***************************************************************************)
(* Proofs about Paiements, for any number of customers, invoices, amounts  *)
(* and concurrent requests.                                                *)
(***************************************************************************)
EXTENDS Paiements, SequenceTheorems, TLAPS

\* What a request e holds between its read and its transaction still exists: rows
\* are never deleted, an issued invoice stays issued, a payment received stays so.
Valide(e) ==
  /\ e.op = "annuler" => e.ligne \in Lignes(e.client)
  /\ e.op = "rembourser" => /\ e.paiement \in DOMAIN paiements
                            /\ paiements[e.paiement].statut \in Recu
  /\ e.op = "lister" => e.carte \in DOMAIN cartes
  /\ e.op \in {"examiner", "payer"} =>
       /\ e.carte = 0 \/ e.carte \in DOMAIN cartes
       /\ \A f \in e.restantes : statut[f] # "absente"
  /\ e.op \in {"echeance", "regler", "payer"} => statut[e.facture] # "absente"

RequetesValides == \A r \in Requetes : Valide(req[r])

IInv == TypeOK /\ RequetesValides /\ SoldeSuitJournal /\ StatutJustifie

\* The part of the invariant that does not mention the requests
TypeTables ==
  /\ solde \in [Clients -> Nat]
  /\ journal \in [Clients -> Seq(Ecriture)]
  /\ statut \in [Factures -> {"absente", "impayee", "payee", "remboursee"}]
  /\ paiements \in Seq(Paiement)

Tables == TypeTables /\ SoldeSuitJournal /\ StatutJustifie

\* What a step keeps of the tables
Croissance ==
  /\ \A c \in Clients : Len(journal[c]) <= Len(journal'[c])
  /\ \A p \in DOMAIN paiements :
       /\ p \in DOMAIN paiements'
       /\ paiements[p].statut \in Recu => paiements'[p].statut \in Recu
  /\ \A f \in Factures : statut[f] # "absente" => statut'[f] # "absente"

-----------------------------------------------------------------------------
(* The ledger *)

LEMMA EcritureBienFormee ==
  ASSUME TypeOK, NEW c \in Clients, NEW m \in Nat, NEW f \in Nat,
         NEW motif \in {"depot", "retrait", "facture", "remboursement", "annulation"}
  PROVE  /\ Credit(c, m, motif, f) \in Ecriture
         /\ Suffisant(c, m) => Debit(c, m, motif, f) \in Ecriture
BY DEF TypeOK, Credit, Debit, Ecriture, Suffisant, NonAnnule

\* Adding a row to a well-typed wallet keeps it well typed.
LEMMA EcrireType ==
  ASSUME TypeOK, NEW c \in Clients, NEW avant \in Seq(Ecriture), NEW e \in Ecriture,
         Ecrire(c, avant, e)
  PROVE  /\ solde' \in [Clients -> Nat]
         /\ journal' \in [Clients -> Seq(Ecriture)]
<1>1. e.soldeApres \in Nat
  BY DEF Ecriture
<1>2. Append(avant, e) \in Seq(Ecriture)
  OBVIOUS
<1>. QED  BY <1>1, <1>2 DEF Ecrire, TypeOK

\* A journal that only differs from another by its reversal marks.
MemesLignes(s, t) ==
  /\ Len(s) = Len(t)
  /\ \A i \in 1..Len(s) :
       /\ s[i].type = t[i].type
       /\ s[i].montant = t[i].montant
       /\ s[i].soldeApres = t[i].soldeApres

\* A row that carries the balance it was computed from continues the chain.
LEMMA ChaineProlongee ==
  ASSUME NEW j \in Seq(Ecriture), NEW avant \in Seq(Ecriture), NEW e \in Ecriture,
         NEW s \in Nat, Chaine(j, s), MemesLignes(avant, j),
         e.soldeApres = IF e.type = "credit" THEN s + e.montant ELSE s - e.montant
  PROVE  Chaine(Append(avant, e), e.soldeApres)
<1> DEFINE n == Len(avant)
           k == Append(avant, e)
<1>1. /\ n \in Nat /\ Len(j) = n
      /\ Len(k) = n + 1
      /\ k[n + 1] = e
      /\ \A i \in 1..n : k[i] = avant[i]
  BY DEF MemesLignes
<1>2. \A i \in 1..(n + 1) : Avant(k, i) = Avant(j, i)
  <2> TAKE i \in 1..(n + 1)
  <2>1. CASE i = 1
    BY <2>1 DEF Avant
  <2>2. CASE i # 1
    <3>1. i - 1 \in 1..n
      BY <1>1, <2>2
    <3>2. k[i - 1].soldeApres = j[i - 1].soldeApres
      BY <1>1, <3>1 DEF MemesLignes
    <3>. QED  BY <2>2, <3>2 DEF Avant
  <2>. QED  BY <2>1, <2>2
<1>3. ASSUME NEW i \in 1..n
      PROVE  k[i].soldeApres = IF k[i].type = "credit" THEN Avant(k, i) + k[i].montant
                                                       ELSE Avant(k, i) - k[i].montant
  <2>1. /\ k[i].type = j[i].type
        /\ k[i].montant = j[i].montant
        /\ k[i].soldeApres = j[i].soldeApres
    BY <1>1 DEF MemesLignes
  <2>2. Avant(k, i) = Avant(j, i)
    BY <1>1, <1>2
  <2>. QED  BY <1>1, <2>1, <2>2 DEF Chaine
<1>4. Avant(k, n + 1) = s
  BY <1>1, <1>2 DEF Chaine
<1>5. Avant(k, n + 2) = e.soldeApres
  BY <1>1 DEF Avant
<1>. QED
  <2>1. ASSUME NEW i \in 1..Len(k)
        PROVE  k[i].soldeApres = IF k[i].type = "credit" THEN Avant(k, i) + k[i].montant
                                                         ELSE Avant(k, i) - k[i].montant
    <3>1. CASE i \in 1..n
      BY <3>1, <1>3
    <3>2. CASE i = n + 1
      BY <3>2, <1>1, <1>4
    <3>. QED  BY <1>1, <3>1, <3>2
  <2>. QED  BY <1>1, <1>5, <2>1 DEF Chaine

LEMMA EcrireChaine ==
  ASSUME TypeOK, SoldeSuitJournal, NEW c \in Clients,
         NEW avant \in Seq(Ecriture), NEW e \in Ecriture,
         MemesLignes(avant, journal[c]),
         e.soldeApres = IF e.type = "credit" THEN solde[c] + e.montant ELSE solde[c] - e.montant,
         Ecrire(c, avant, e)
  PROVE  SoldeSuitJournal'
<1>1. Chaine(Append(avant, e), e.soldeApres)
  BY ChaineProlongee DEF TypeOK, SoldeSuitJournal
<1>2. ASSUME NEW d \in Clients
      PROVE  Chaine(journal'[d], solde'[d])
  BY <1>1 DEF Ecrire, TypeOK, SoldeSuitJournal
<1>. QED  BY <1>2 DEF SoldeSuitJournal

\* Marking a row as reversed leaves the rest of the journal alone.
LEMMA MarquerLignes ==
  ASSUME TypeOK, NEW c \in Clients, NEW i \in Lignes(c)
  PROVE  /\ Marquer(c, i) \in Seq(Ecriture)
         /\ MemesLignes(Marquer(c, i), journal[c])
         /\ Len(Marquer(c, i)) = Len(journal[c])
<1>1. journal[c] \in Seq(Ecriture) /\ Len(journal[c]) \in Nat
  BY DEF TypeOK
<1> DEFINE x == journal[c][i]
           y == [x EXCEPT !.annulePar = Len(journal[c]) + 1]
<1>2. x \in Ecriture
  BY <1>1 DEF Lignes
<1> HIDE DEF x
<1>3. /\ y \in Ecriture
      /\ y.type = x.type /\ y.montant = x.montant /\ y.soldeApres = x.soldeApres
  BY <1>1, <1>2 DEF Ecriture
<1>4. Marquer(c, i) = [journal[c] EXCEPT ![i] = y]
  BY DEF Marquer, x
<1> HIDE DEF y
<1>5. Marquer(c, i) \in Seq(Ecriture) /\ Len(Marquer(c, i)) = Len(journal[c])
  BY <1>1, <1>3, <1>4 DEF Lignes
<1>6. ASSUME NEW k \in 1..Len(journal[c])
      PROVE  /\ Marquer(c, i)[k].type = journal[c][k].type
             /\ Marquer(c, i)[k].montant = journal[c][k].montant
             /\ Marquer(c, i)[k].soldeApres = journal[c][k].soldeApres
  <2>1. Marquer(c, i)[k] = IF k = i THEN y ELSE journal[c][k]
    BY <1>1, <1>4 DEF Lignes
  <2>. QED  BY <1>3, <2>1 DEF x
<1>. QED  BY <1>5, <1>6 DEF MemesLignes

LEMMA AucunMouvement ==
  ASSUME IInv, UNCHANGED <<solde, journal, statut, paiements>>
  PROVE  Tables' /\ Croissance
<1>1. TypeTables' /\ SoldeSuitJournal'
  BY DEF IInv, TypeOK, TypeTables, SoldeSuitJournal
<1>2. StatutJustifie'
  BY DEF IInv, StatutJustifie, PaiementsDe
<1>3. Croissance
  BY DEF Croissance, IInv, TypeOK
<1>. QED  BY <1>1, <1>2, <1>3 DEF Tables

\* A movement alone: the invoices and the payments do not change.
LEMMA Mouvement ==
  ASSUME IInv, NEW c \in Clients, NEW avant \in Seq(Ecriture), NEW e \in Ecriture,
         MemesLignes(avant, journal[c]),
         e.soldeApres = IF e.type = "credit" THEN solde[c] + e.montant ELSE solde[c] - e.montant,
         Ecrire(c, avant, e)
  PROVE  /\ solde' \in [Clients -> Nat]
         /\ journal' \in [Clients -> Seq(Ecriture)]
         /\ SoldeSuitJournal'
         /\ \A d \in Clients : Len(journal[d]) <= Len(journal'[d])
<1>1. Len(Append(avant, e)) = Len(journal[c]) + 1
  BY DEF MemesLignes, IInv, TypeOK
<1>2. \A d \in Clients : Len(journal[d]) <= Len(journal'[d])
  BY <1>1 DEF Ecrire, IInv, TypeOK
<1>. QED  BY <1>2, EcrireType, EcrireChaine DEF IInv

\* A credit or a debit of the amount m, on the journal as it is.
LEMMA CreditDebit ==
  ASSUME IInv, NEW c \in Clients, NEW m \in Nat, NEW f \in Nat,
         NEW motif \in {"depot", "retrait", "facture", "remboursement", "annulation"},
         \/ Ecrire(c, journal[c], Credit(c, m, motif, f))
         \/ Suffisant(c, m) /\ Ecrire(c, journal[c], Debit(c, m, motif, f))
  PROVE  /\ solde' \in [Clients -> Nat]
         /\ journal' \in [Clients -> Seq(Ecriture)]
         /\ SoldeSuitJournal'
         /\ \A d \in Clients : Len(journal[d]) <= Len(journal'[d])
<1>1. journal[c] \in Seq(Ecriture) /\ MemesLignes(journal[c], journal[c])
  BY DEF IInv, TypeOK, MemesLignes
<1>2. TypeOK
  BY DEF IInv
<1>3. CASE Ecrire(c, journal[c], Credit(c, m, motif, f))
  <2> DEFINE e == Credit(c, m, motif, f)
  <2>1. e \in Ecriture
    BY <1>2, EcritureBienFormee
  <2>2. e.soldeApres = IF e.type = "credit" THEN solde[c] + e.montant ELSE solde[c] - e.montant
    BY DEF Credit
  <2> HIDE DEF e
  <2>. QED  BY <1>1, <1>3, <2>1, <2>2, Mouvement DEF e
<1>4. CASE Suffisant(c, m) /\ Ecrire(c, journal[c], Debit(c, m, motif, f))
  <2> DEFINE e == Debit(c, m, motif, f)
  <2>1. e \in Ecriture
    BY <1>2, <1>4, EcritureBienFormee
  <2>2. e.soldeApres = IF e.type = "credit" THEN solde[c] + e.montant ELSE solde[c] - e.montant
    BY DEF Debit
  <2> HIDE DEF e
  <2>. QED  BY <1>1, <1>4, <2>1, <2>2, Mouvement DEF e
<1>. QED  BY <1>3, <1>4

LEMMA MouvementSeul ==
  ASSUME IInv, NEW c \in Clients, NEW m \in Nat, NEW f \in Nat,
         NEW motif \in {"depot", "retrait", "facture", "remboursement", "annulation"},
         \/ Ecrire(c, journal[c], Credit(c, m, motif, f))
         \/ Suffisant(c, m) /\ Ecrire(c, journal[c], Debit(c, m, motif, f)),
         UNCHANGED <<statut, paiements>>
  PROVE  Tables' /\ Croissance
<1>1. StatutJustifie'
  BY DEF IInv, StatutJustifie, PaiementsDe
<1>2. TypeTables' /\ Croissance
  BY CreditDebit DEF TypeTables, IInv, TypeOK, Croissance
<1>. QED  BY <1>1, <1>2, CreditDebit DEF Tables

-----------------------------------------------------------------------------
(* The requests *)

\* The fields of a request, by the operation it is in the middle of
LEMMA Champs ==
  ASSUME NEW e \in Requete
  PROVE  /\ e.op = "echeance" => e.facture \in Factures /\ e.reglable \in BOOLEAN
         /\ e.op = "regler" => e.facture \in Factures /\ e.moyen \in Moyens
         /\ e.op = "rembourser" => e.paiement \in Nat \ {0}
         /\ e.op = "annuler" => e.client \in Clients /\ e.ligne \in Nat \ {0}
         /\ e.op = "lister" => e.carte \in Nat
         /\ e.op = "examiner" => e.restantes \in SUBSET Factures /\ e.carte \in Nat
         /\ e.op = "payer" => /\ e.facture \in Factures
                              /\ e.restantes \in SUBSET Factures
                              /\ e.carte \in Nat
BY DEF Requete, Libre

LEMMA RequeteDe ==
  ASSUME IInv, NEW r \in Requetes
  PROVE  req[r] \in Requete /\ Valide(req[r])
BY DEF IInv, TypeOK, RequetesValides

-----------------------------------------------------------------------------
(* The transactions *)

LEMMA TransactionAnnuler ==
  ASSUME IInv, NEW r \in Requetes, AnnulerRechargement(r)
  PROVE  Tables' /\ Croissance
<1> DEFINE c == req[r].client
           i == req[r].ligne
           m == journal[c][i].montant
           e == Debit(c, m, "annulation", SansFacture)
<1>1. c \in Clients /\ i \in Lignes(c)
  BY RequeteDe, Champs DEF AnnulerRechargement, Valide
<1> HIDE DEF c, i
<1>2. m \in Nat
  <2>1. journal[c] \in Seq(Ecriture)
    BY <1>1 DEF IInv, TypeOK
  <2>2. journal[c][i] \in Ecriture
    BY <1>1, <2>1 DEF Lignes
  <2>. QED  BY <2>2 DEF Ecriture
<1> HIDE DEF m
<1>3. CASE Suffisant(c, m) /\ Ecrire(c, Marquer(c, i), e)
  <2>1. e \in Ecriture
    BY <1>1, <1>2, <1>3, EcritureBienFormee DEF SansFacture, IInv
  <2>2. e.soldeApres = IF e.type = "credit" THEN solde[c] + e.montant ELSE solde[c] - e.montant
    BY DEF Debit
  <2> HIDE DEF e
  <2>3. Marquer(c, i) \in Seq(Ecriture) /\ MemesLignes(Marquer(c, i), journal[c])
    BY <1>1, MarquerLignes DEF IInv
  <2>4. /\ solde' \in [Clients -> Nat]
        /\ journal' \in [Clients -> Seq(Ecriture)]
        /\ SoldeSuitJournal'
        /\ \A d \in Clients : Len(journal[d]) <= Len(journal'[d])
    BY <1>1, <1>3, <2>1, <2>2, <2>3, Mouvement
  <2>5. StatutJustifie'
    BY DEF AnnulerRechargement, IInv, StatutJustifie, PaiementsDe
  <2>. QED  BY <2>4, <2>5 DEF AnnulerRechargement, Tables, TypeTables, Croissance, IInv, TypeOK
<1>4. CASE SansMouvement
  BY <1>4, AucunMouvement DEF SansMouvement, AnnulerRechargement
<1>. QED  BY <1>3, <1>4 DEF AnnulerRechargement, c, i, m

\* Settling f adds one payment, received at once unless it is deferred.
LEMMA TransactionRegler ==
  ASSUME IInv, NEW f \in Factures, NEW moyen \in Moyens, statut[f] # "absente",
         Regler(f, moyen) \/ ReglementRefuse(f, moyen)
  PROVE  Tables' /\ Croissance
<1>1. CASE ReglementRefuse(f, moyen)
  BY <1>1, AucunMouvement DEF ReglementRefuse, SansMouvement
<1>2. CASE Regler(f, moyen)
  <2> DEFINE st == IF moyen = "differe" THEN "en_attente" ELSE "paye"
             x == [facture |-> f, moyen |-> moyen, statut |-> st]
             n == Len(paiements) + 1
  <2>1. /\ Titulaire[f] \in Clients /\ Ttc[f] \in Nat /\ f \in Nat
    BY HypPaiements
  <2>2. /\ solde' \in [Clients -> Nat]
        /\ journal' \in [Clients -> Seq(Ecriture)]
        /\ SoldeSuitJournal'
        /\ \A d \in Clients : Len(journal[d]) <= Len(journal'[d])
    <3>1. CASE moyen = "wallet"
      BY <1>2, <2>1, <3>1, CreditDebit DEF Regler, Possible
    <3>2. CASE moyen # "wallet"
      BY <1>2, <3>2 DEF Regler, SansMouvement, IInv, TypeOK, SoldeSuitJournal
    <3>. QED  BY <3>1, <3>2
  <2>3. x \in Paiement
    BY DEF Paiement
  <2>4. /\ paiements' = Append(paiements, x)
        /\ paiements \in Seq(Paiement)
    BY <1>2 DEF Regler, Encaisser, IInv, TypeOK
  <2> HIDE DEF x
  <2>5. /\ paiements' \in Seq(Paiement)
        /\ DOMAIN paiements = 1..Len(paiements)
        /\ DOMAIN paiements' = 1..n
        /\ n \in Nat
        /\ paiements'[n] = x
        /\ \A p \in DOMAIN paiements : p # n /\ p \in DOMAIN paiements' /\ paiements'[p] = paiements[p]
    BY <2>3, <2>4
  <2>6. /\ statut' \in [Factures -> {"absente", "impayee", "payee", "remboursee"}]
        /\ \A g \in Factures : statut[g] # "absente" => statut'[g] # "absente"
    BY <1>2 DEF Regler, IInv, TypeOK
  <2>7. StatutJustifie'
    <3> SUFFICES ASSUME NEW g \in Factures
                 PROVE  /\ statut'[g] \in {"absente", "impayee"} => PaiementsDe(g, Recu)' = {}
                        /\ statut'[g] = "payee" => PaiementsDe(g, {"paye"})' # {}
                        /\ statut'[g] = "remboursee" => PaiementsDe(g, {"rembourse"})' # {}
      BY DEF StatutJustifie, Recu
    <3>0. /\ statut[g] \in {"absente", "impayee"} => PaiementsDe(g, Recu) = {}
          /\ statut[g] = "payee" => PaiementsDe(g, {"paye"}) # {}
          /\ statut[g] = "remboursee" => PaiementsDe(g, {"rembourse"}) # {}
      BY DEF IInv, StatutJustifie
    <3>1. CASE g # f
      <4>1. statut'[g] = statut[g]
        BY <1>2, <3>1 DEF Regler, IInv, TypeOK
      <4>2. x.facture = f
        BY DEF x
      <4>3. \A s \in {Recu, {"paye"}, {"rembourse"}} : PaiementsDe(g, s)' = PaiementsDe(g, s)
        BY <2>5, <3>1, <4>2 DEF PaiementsDe
      <4>. QED  BY <3>0, <4>1, <4>3 DEF Recu
    <3>2. CASE g = f /\ moyen # "differe"
      <4>1. x.facture = f /\ x.statut = "paye"
        BY <3>2 DEF x
      <4>2. n \in PaiementsDe(f, {"paye"})'
        BY <2>5, <4>1 DEF PaiementsDe
      <4>3. statut'[f] = "payee"
        BY <1>2, <3>2 DEF Regler, IInv, TypeOK
      <4>. QED  BY <3>2, <4>2, <4>3
    <3>3. CASE g = f /\ moyen = "differe"
      <4>1. x.statut = "en_attente"
        BY <3>3 DEF x
      <4>2. statut' = statut
        BY <1>2, <3>3 DEF Regler
      <4>3. \A s \in {Recu, {"paye"}, {"rembourse"}} : PaiementsDe(g, s)' = PaiementsDe(g, s)
        BY <2>5, <4>1 DEF PaiementsDe, Recu
      <4>. QED  BY <3>0, <4>2, <4>3
    <3>. QED  BY <3>1, <3>2, <3>3
  <2>. QED  BY <2>2, <2>5, <2>6, <2>7 DEF Tables, TypeTables, Croissance
<1>. QED  BY <1>1, <1>2

\* Refunding the payment n gives its invoice a payment given back.
LEMMA TransactionRembourser ==
  ASSUME IInv, NEW r \in Requetes, Rembourser(r)
  PROVE  Tables' /\ Croissance
<1>0. PICK n : n = req[r].paiement
  OBVIOUS
<1>1. n \in DOMAIN paiements /\ paiements[n].statut \in Recu
  BY <1>0, RequeteDe DEF Rembourser, Valide
<1>2. paiements[n] \in Paiement
  <2>1. paiements \in Seq(Paiement)
    BY DEF IInv, TypeOK
  <2>. QED  BY <1>1, <2>1
<1>5. PICK f \in Factures : f = paiements[n].facture
  BY <1>2 DEF Paiement
<1> DEFINE w == paiements[n].moyen = "wallet"
<1>3. CASE SansMouvement /\ UNCHANGED <<paiements, statut>>
  BY <1>3, AucunMouvement DEF SansMouvement
<1>4. CASE /\ ~(w /\ Ttc[f] = 0)
           /\ IF w THEN Recrediter(f) ELSE SansMouvement
           /\ paiements' = [paiements EXCEPT ![n].statut = "rembourse"]
           /\ statut' = [statut EXCEPT ![f] = "remboursee"]
  <2>1. /\ Titulaire[f] \in Clients /\ Ttc[f] \in Nat /\ f \in Nat
    BY HypPaiements
  <2>2. /\ solde' \in [Clients -> Nat]
        /\ journal' \in [Clients -> Seq(Ecriture)]
        /\ SoldeSuitJournal'
        /\ \A d \in Clients : Len(journal[d]) <= Len(journal'[d])
    <3>1. CASE w
      <4>1. Ecrire(Titulaire[f], journal[Titulaire[f]], Credit(Titulaire[f], Ttc[f], "remboursement", f))
        BY <1>4, <3>1 DEF Recrediter
      <4>. QED  BY <2>1, <4>1, CreditDebit
    <3>2. CASE ~w
      BY <1>4, <3>2 DEF SansMouvement, IInv, TypeOK, SoldeSuitJournal
    <3>. QED  BY <3>1, <3>2
  <2> DEFINE x == [paiements[n] EXCEPT !.statut = "rembourse"]
  <2>3. x \in Paiement /\ x.facture = f /\ x.statut = "rembourse"
    <3> DEFINE y == paiements[n]
    <3>1. y \in Paiement
      BY <1>2
    <3> HIDE DEF y
    <3>2. /\ [y EXCEPT !.statut = "rembourse"] \in Paiement
          /\ [y EXCEPT !.statut = "rembourse"].facture = y.facture
          /\ [y EXCEPT !.statut = "rembourse"].statut = "rembourse"
      BY <3>1 DEF Paiement
    <3>. QED  BY <1>5, <3>2 DEF y
  <2>4. paiements' = [paiements EXCEPT ![n] = x]
    BY <1>4
  <2> HIDE DEF x
  <2>5. /\ paiements \in Seq(Paiement)
        /\ paiements' \in Seq(Paiement)
        /\ DOMAIN paiements' = DOMAIN paiements
        /\ \A p \in DOMAIN paiements : paiements'[p] = IF p = n THEN x ELSE paiements[p]
    BY <1>1, <2>3, <2>4 DEF IInv, TypeOK
  <2>6. /\ statut' \in [Factures -> {"absente", "impayee", "payee", "remboursee"}]
        /\ \A g \in Factures : statut'[g] = IF g = f THEN "remboursee" ELSE statut[g]
    BY <1>2, <1>4 DEF IInv, TypeOK
  <2>7. StatutJustifie'
    <3> SUFFICES ASSUME NEW g \in Factures
                 PROVE  /\ statut'[g] \in {"absente", "impayee"} => PaiementsDe(g, Recu)' = {}
                        /\ statut'[g] = "payee" => PaiementsDe(g, {"paye"})' # {}
                        /\ statut'[g] = "remboursee" => PaiementsDe(g, {"rembourse"})' # {}
      BY DEF StatutJustifie, Recu
    <3>1. CASE g # f
      <4>1. \A s \in {Recu, {"paye"}, {"rembourse"}} : PaiementsDe(g, s)' = PaiementsDe(g, s)
        BY <1>1, <1>5, <2>3, <2>5, <3>1 DEF PaiementsDe
      <4>2. statut'[g] = statut[g]
        BY <2>6, <3>1
      <4>. QED  BY <4>1, <4>2 DEF IInv, StatutJustifie, Recu
    <3>2. CASE g = f
      <4>1. /\ n \in DOMAIN paiements'
            /\ paiements'[n].facture = f /\ paiements'[n].statut = "rembourse"
        BY <1>1, <2>3, <2>5
      <4>3. n \in PaiementsDe(f, {"rembourse"})'
        BY <4>1 DEF PaiementsDe
      <4>2. statut'[f] = "remboursee"
        BY <1>2, <2>6
      <4>. QED  BY <3>2, <4>2, <4>3
    <3>. QED  BY <3>1, <3>2
  <2>8. Croissance
    BY <1>1, <2>2, <2>3, <2>5, <2>6 DEF Croissance, Recu
  <2>. QED  BY <2>2, <2>5, <2>6, <2>7, <2>8 DEF Tables, TypeTables
<1>. QED  BY <1>0, <1>3, <1>4, <1>5 DEF Rembourser

\* Issuing f, or finding it issued, adds no payment.
LEMMA TransactionEmettre ==
  ASSUME IInv, NEW f \in Factures, UNCHANGED <<solde, journal, paiements>>,
         statut' = [statut EXCEPT ![f] = Emise(f)]
  PROVE  Tables' /\ Croissance /\ statut'[f] # "absente" /\ statut'[f] = Emise(f)
<1>1. /\ statut' \in [Factures -> {"absente", "impayee", "payee", "remboursee"}]
      /\ \A g \in Factures : \/ statut'[g] = statut[g]
                             \/ statut[g] = "absente" /\ statut'[g] = "impayee"
      /\ statut'[f] # "absente" /\ statut'[f] = Emise(f)
      /\ \A g \in Factures : statut[g] # "absente" => statut'[g] # "absente"
  BY DEF Emise, IInv, TypeOK
<1>2. StatutJustifie'
  BY <1>1 DEF IInv, StatutJustifie, PaiementsDe
<1>3. /\ TypeTables' /\ SoldeSuitJournal'
      /\ Croissance
  BY <1>1 DEF TypeTables, SoldeSuitJournal, Croissance, IInv, TypeOK
<1>. QED  BY <1>1, <1>2, <1>3 DEF Tables

-----------------------------------------------------------------------------
(* The invariant *)

\* What was valid before a step stays valid after it.
LEMMA ValideStable ==
  ASSUME IInv, Tables', Croissance, DOMAIN cartes \subseteq DOMAIN cartes',
         NEW e \in Requete, Valide(e)
  PROVE  Valide(e)'
<1>1. ASSUME NEW c \in Clients, NEW i \in Lignes(c)
      PROVE  i \in Lignes(c)'
  <2>1. /\ journal[c] \in Seq(Ecriture) /\ journal'[c] \in Seq(Ecriture)
        /\ Len(journal[c]) <= Len(journal'[c])
    BY DEF IInv, TypeOK, Tables, TypeTables, Croissance
  <2>. QED  BY <2>1 DEF Lignes
<1>2. CASE e.op = "annuler"
  BY <1>1, <1>2, Champs DEF Valide
<1>3. CASE e.op = "rembourser"
  BY <1>3, Champs DEF Valide, Croissance
<1>4. CASE e.op = "lister"
  BY <1>4, Champs DEF Valide
<1>5. CASE e.op \in {"examiner", "payer"}
  BY <1>5, Champs DEF Valide, Croissance
<1>6. CASE e.op \in {"echeance", "regler"}
  BY <1>6, Champs DEF Valide, Croissance
<1>7. CASE e.op = "libre"
  BY <1>7 DEF Valide
<1>8. e.op \in {"libre", "annuler", "rembourser", "lister", "examiner", "payer", "echeance", "regler"}
  BY DEF Requete, Libre
<1>. QED  BY <1>2, <1>3, <1>4, <1>5, <1>6, <1>7, <1>8

\* A step that keeps the tables right, and moves at most one request, to a valid
\* state, keeps the invariant.
LEMMA Conservation ==
  ASSUME IInv, Tables', Croissance,
         \/ req' = req
         \/ \E r \in Requetes, e \in Requete : req' = [req EXCEPT ![r] = e] /\ Valide(e)',
         echeance' \in [Factures -> BOOLEAN],
         cartes' \in Seq(PaiementCarte), DOMAIN cartes \subseteq DOMAIN cartes',
         servies' \in 0..MaxRequetes
  PROVE  IInv'
<1>1. req' \in [Requetes -> Requete]
  BY DEF IInv, TypeOK
<1>2. ASSUME NEW s \in Requetes, NEW x, x = req'[s]
      PROVE  Valide(x)'
  <2>1. CASE x = req[s]
    <3>1. x \in Requete /\ Valide(x)
      BY <2>1, RequeteDe
    <3>. QED  BY <3>1, ValideStable
  <2>2. CASE x # req[s]
    <3>1. PICK r \in Requetes, e \in Requete : req' = [req EXCEPT ![r] = e] /\ Valide(e)'
      BY <1>2, <2>2
    <3>2. x = e
      BY <1>2, <2>2, <3>1 DEF IInv, TypeOK
    <3>. QED  BY <3>1, <3>2
  <2>. QED  BY <2>1, <2>2
<1>3. RequetesValides'
  <2>1. SUFFICES ASSUME NEW s \in Requetes
                 PROVE  Valide(req[s])'
    BY DEF RequetesValides
  <2>2. PICK x : x = req'[s]
    OBVIOUS
  <2>. QED  BY <1>2, <2>2 DEF Valide
<1>. QED  BY <1>1, <1>3 DEF IInv, Tables, TypeTables, TypeOK, RequetesValides

LEMMA Depart ==
  ASSUME IInv, NEW r \in Requetes, Commencer(r)
  PROVE  servies' \in 0..MaxRequetes
BY HypPaiements DEF Commencer, IInv, TypeOK

\* The simple cases of Conservation: one that leaves the cards and the due dates alone.
LEMMA ConservationSimple ==
  ASSUME IInv, Tables', Croissance, UNCHANGED <<echeance, cartes>>,
         servies' \in 0..MaxRequetes,
         \/ req' = req
         \/ \E r \in Requetes, e \in Requete : req' = [req EXCEPT ![r] = e] /\ Valide(e)'
  PROVE  IInv'
<1>1. /\ echeance' \in [Factures -> BOOLEAN]
      /\ cartes' \in Seq(PaiementCarte) /\ DOMAIN cartes \subseteq DOMAIN cartes'
  BY DEF IInv, TypeOK
<1>. QED  BY <1>1, Conservation

LEMMA LibreValide == Libre \in Requete /\ Valide(Libre)'
BY DEF Requete, Libre, Valide

\* Requests that arrive
LEMMA ArriveeConserve ==
  ASSUME IInv, NEW r \in Requetes, Arrivee(r)
  PROVE  IInv'
<1>0. /\ SansFacture \in Nat
      /\ \A m \in Montants : m \in Nat
  BY HypPaiements DEF SansFacture
<1>1. ASSUME NEW c \in Clients, NEW m \in Montants, Crediter(r, c, m) \/ Debiter(r, c, m)
      PROVE  IInv'
  <2>1. Tables' /\ Croissance
    BY <1>0, <1>1, MouvementSeul DEF Crediter, Debiter
  <2>. QED  BY <1>1, <2>1, Depart, ConservationSimple DEF Crediter, Debiter
<1>2. ASSUME NEW c \in Clients, NEW m \in Montants, RechargerAccepte(r, c, m)
      PROVE  IInv'
  <2>0. PICK n : n = Len(cartes) + 1
    OBVIOUS
  <2> DEFINE e == [op |-> "lister", carte |-> n]
             k == [client |-> c, statut |-> "accepte", reponse |-> "aucune"]
  <2>1. Tables' /\ Croissance
    BY <1>0, <1>2, MouvementSeul DEF RechargerAccepte
  <2>2. /\ cartes \in Seq(PaiementCarte) /\ k \in PaiementCarte
        /\ cartes' = Append(cartes, k)
    BY <1>2 DEF IInv, TypeOK, PaiementCarte, RechargerAccepte
  <2> HIDE DEF k
  <2>3. /\ cartes' \in Seq(PaiementCarte)
        /\ DOMAIN cartes \subseteq DOMAIN cartes'
        /\ n \in DOMAIN cartes' /\ n \in Nat
    BY <2>0, <2>2
  <2>4. e \in Requete /\ Valide(e)'
    BY <2>3 DEF Requete, Valide
  <2>5. /\ echeance' \in [Factures -> BOOLEAN]
        /\ servies' \in 0..MaxRequetes
        /\ req' = [req EXCEPT ![r] = e]
    BY <1>2, <2>0, Depart DEF RechargerAccepte, Suivre, IInv, TypeOK
  <2>. QED  BY <2>1, <2>3, <2>4, <2>5, Conservation
<1>3. ASSUME NEW c \in Clients, RechargerRefuse(r, c)
      PROVE  IInv'
  <2> DEFINE k == [client |-> c, statut |-> "refuse", reponse |-> "402"]
  <2>1. Tables' /\ Croissance
    BY <1>3, AucunMouvement DEF RechargerRefuse
  <2>2. /\ cartes \in Seq(PaiementCarte) /\ k \in PaiementCarte
        /\ cartes' = Append(cartes, k)
    BY <1>3 DEF IInv, TypeOK, PaiementCarte, RechargerRefuse
  <2> HIDE DEF k
  <2>3. /\ cartes' \in Seq(PaiementCarte)
        /\ DOMAIN cartes \subseteq DOMAIN cartes'
    BY <2>2
  <2>4. /\ echeance' \in [Factures -> BOOLEAN]
        /\ servies' \in 0..MaxRequetes
        /\ req' = req
    BY <1>3, Depart DEF RechargerRefuse, IInv, TypeOK
  <2>. QED  BY <2>1, <2>3, <2>4, Conservation
<1>4. ASSUME NEW c \in Clients, NEW i \in DOMAIN journal[c], LireEcriture(r, c, i)
      PROVE  IInv'
  <2> DEFINE e == [op |-> "annuler", client |-> c, ligne |-> i]
  <2>1. Tables' /\ Croissance
    BY <1>4, AucunMouvement DEF LireEcriture
  <2>2. i \in Nat \ {0}
    BY DEF IInv, TypeOK
  <2>3. e \in Requete /\ Valide(e)'
    BY <1>4, <2>2 DEF Requete, Valide, Lignes, LireEcriture
  <2>. QED  BY <1>4, <2>1, <2>3, Depart, ConservationSimple DEF LireEcriture, Suivre
<1>5. ASSUME NEW f \in Factures, Generer(r, f)
      PROVE  IInv'
  <2>1. Tables' /\ Croissance
    BY <1>5, TransactionEmettre DEF Generer
  <2>. QED  BY <1>5, <2>1, Depart, ConservationSimple DEF Generer
<1>6. ASSUME NEW f \in Factures, Cloturer(r, f)
      PROVE  IInv'
  <2> DEFINE e == [op |-> "examiner", restantes |-> {f}, carte |-> 0]
  <2>1. Tables' /\ Croissance /\ statut'[f] # "absente"
    BY <1>6, TransactionEmettre DEF Cloturer
  <2>2. e \in Requete /\ Valide(e)'
    BY <2>1 DEF Requete, Valide
  <2>3. req' = [req EXCEPT ![r] = e] \/ req' = [req EXCEPT ![r] = Libre]
    BY <1>6 DEF Cloturer, Suivre
  <2>. QED  BY <1>6, <2>1, <2>2, <2>3, LibreValide, Depart, ConservationSimple DEF Cloturer
<1>7. ASSUME NEW f \in Factures, NEW moyen \in Moyens, LireFacture(r, f, moyen)
      PROVE  IInv'
  <2> DEFINE e1 == [op |-> "echeance", facture |-> f, reglable |-> Reglable(f)]
             e2 == [op |-> "regler", facture |-> f, moyen |-> moyen]
  <2>1. Tables' /\ Croissance
    BY <1>7, AucunMouvement DEF LireFacture
  <2>2. e1 \in Requete /\ e2 \in Requete
    BY DEF Requete, Reglable
  <2>3. PICK e \in {e1, e2} : req' = [req EXCEPT ![r] = e]
    BY <1>7 DEF LireFacture, Suivre
  <2>4. e \in Requete /\ e.op \in {"echeance", "regler"} /\ e.facture = f
    BY <2>2, <2>3
  <2>5. Valide(e)'
    BY <1>7, <2>4 DEF Valide, LireFacture
  <2>. QED  BY <1>7, <2>1, <2>3, <2>4, <2>5, Depart, ConservationSimple DEF LireFacture
<1>8. ASSUME NEW p \in DOMAIN paiements, LirePaiement(r, p)
      PROVE  IInv'
  <2> DEFINE e == [op |-> "rembourser", paiement |-> p]
  <2>1. Tables' /\ Croissance
    BY <1>8, AucunMouvement DEF LirePaiement
  <2>2. p \in Nat \ {0}
    BY DEF IInv, TypeOK
  <2>3. e \in Requete /\ Valide(e)'
    BY <1>8, <2>2 DEF Requete, Valide, Recu, Remboursable, LirePaiement
  <2>. QED  BY <1>8, <2>1, <2>3, Depart, ConservationSimple DEF LirePaiement, Suivre
<1>. QED  BY <1>1, <1>2, <1>3, <1>4, <1>5, <1>6, <1>7, <1>8 DEF Arrivee

\* Answering a top-up fills in its row of the cards.
LEMMA ReponseType ==
  ASSUME IInv, NEW r \in Requetes, NEW code \in {"201", "402", "422"},
         req[r].op \in {"examiner", "payer"}, Repondre(r, code)
  PROVE  /\ cartes' \in Seq(PaiementCarte)
         /\ DOMAIN cartes' = DOMAIN cartes
         /\ req' = [req EXCEPT ![r] = Libre]
<1>1. PICK k : k = req[r].carte
  OBVIOUS
<1>2. k = 0 \/ k \in DOMAIN cartes
  BY <1>1, RequeteDe DEF Valide
<1>3. CASE k = 0
  BY <1>1, <1>3 DEF Repondre, Suivre, IInv, TypeOK
<1>4. CASE k # 0
  <2> DEFINE x == cartes[k]
             y == [x EXCEPT !.reponse = code]
  <2>1. cartes \in Seq(PaiementCarte)
    BY DEF IInv, TypeOK
  <2>2. x \in PaiementCarte
    BY <1>2, <1>4, <2>1
  <2>3. cartes' = [cartes EXCEPT ![k] = y]
    BY <1>1, <1>4 DEF Repondre
  <2> HIDE DEF x
  <2>4. y \in PaiementCarte
    BY <2>2 DEF PaiementCarte
  <2> HIDE DEF y
  <2>5. cartes' \in Seq(PaiementCarte) /\ DOMAIN cartes' = DOMAIN cartes
    BY <1>2, <1>4, <2>1, <2>3, <2>4
  <2>. QED  BY <2>5 DEF Repondre, Suivre
<1>. QED  BY <1>3, <1>4

\* Requests that go on
LEMMA AvancerConserve ==
  ASSUME IInv, NEW r \in Requetes, Avancer(r)
  PROVE  IInv'
<1>0. req[r] \in Requete /\ Valide(req[r])
  BY RequeteDe
<1>1. CASE AnnulerRechargement(r)
  <2>1. Tables' /\ Croissance
    BY <1>1, TransactionAnnuler
  <2>2. servies' \in 0..MaxRequetes
    BY <1>1 DEF AnnulerRechargement, IInv, TypeOK
  <2>. QED  BY <1>1, <2>1, <2>2, LibreValide, ConservationSimple DEF AnnulerRechargement, Suivre
<1>2. CASE Rembourser(r)
  <2>1. Tables' /\ Croissance
    BY <1>2, TransactionRembourser
  <2>2. servies' \in 0..MaxRequetes
    BY <1>2 DEF Rembourser, IInv, TypeOK
  <2>. QED  BY <1>2, <2>1, <2>2, LibreValide, ConservationSimple DEF Rembourser, Suivre
<1>3. CASE PoserEcheance(r)
  <2>1. Tables' /\ Croissance
    BY <1>3, AucunMouvement DEF PoserEcheance
  <2>2. PICK f \in Factures : f = req[r].facture /\ statut[f] # "absente"
    BY <1>0, <1>3, Champs DEF PoserEcheance, Valide
  <2> DEFINE e == [op |-> "regler", facture |-> f, moyen |-> "differe"]
  <2>3. e \in Requete /\ Valide(e)'
    BY <1>3, <2>2 DEF Requete, Moyens, Valide, PoserEcheance
  <2>4. req' = [req EXCEPT ![r] = e] \/ req' = [req EXCEPT ![r] = Libre]
    BY <1>3, <2>2 DEF PoserEcheance, Suivre
  <2>5. /\ echeance' \in [Factures -> BOOLEAN]
        /\ cartes' \in Seq(PaiementCarte) /\ DOMAIN cartes \subseteq DOMAIN cartes'
        /\ servies' \in 0..MaxRequetes
    BY <1>3 DEF PoserEcheance, DateLimite, IInv, TypeOK
  <2>. QED  BY <2>1, <2>3, <2>4, <2>5, LibreValide, Conservation
<1>4. CASE ReglerFacture(r)
  <2>1. req[r].facture \in Factures /\ req[r].moyen \in Moyens /\ statut[req[r].facture] # "absente"
    BY <1>0, <1>4, Champs DEF ReglerFacture, Valide
  <2>2. Tables' /\ Croissance
    BY <1>4, <2>1, TransactionRegler DEF ReglerFacture
  <2>3. servies' \in 0..MaxRequetes
    BY <1>4 DEF ReglerFacture, IInv, TypeOK
  <2>. QED  BY <1>4, <2>2, <2>3, LibreValide, ConservationSimple DEF ReglerFacture, Suivre
<1>5. CASE ListerImpayees(r)
  <2>1. Tables' /\ Croissance
    BY <1>5, AucunMouvement DEF ListerImpayees
  <2>2. PICK k \in Nat : k = req[r].carte /\ k \in DOMAIN cartes
    BY <1>0, <1>5, Champs DEF ListerImpayees, Valide
  <2>7. PICK S : S = Impayees(cartes[k].client)
    OBVIOUS
  <2>3. S \in SUBSET Factures /\ \A f \in S : statut[f] # "absente"
    BY <2>7 DEF Impayees
  <2> DEFINE e == [op |-> "examiner", restantes |-> S, carte |-> k]
  <2>4. e \in Requete /\ Valide(e)'
    BY <1>5, <2>2, <2>3 DEF Requete, Valide, ListerImpayees
  <2>5. req' = [req EXCEPT ![r] = e]
    BY <1>5, <2>2, <2>7 DEF ListerImpayees, Suivre
  <2>6. servies' \in 0..MaxRequetes
    BY <1>5 DEF ListerImpayees, IInv, TypeOK
  <2>. QED  BY <1>5, <2>1, <2>4, <2>5, <2>6, ConservationSimple DEF ListerImpayees
<1>6. CASE ExaminerSuivante(r) \/ FinirReglements(r)
  <2>1. Tables' /\ Croissance
    BY <1>6, AucunMouvement DEF ExaminerSuivante, FinirReglements
  <2>2. /\ req[r].op = "examiner" /\ req[r].restantes \in SUBSET Factures
        /\ req[r].carte \in Nat /\ (req[r].carte = 0 \/ req[r].carte \in DOMAIN cartes)
        /\ \A f \in req[r].restantes : statut[f] # "absente"
    BY <1>0, <1>6, Champs DEF ExaminerSuivante, FinirReglements, Valide
  <2>3. servies' \in 0..MaxRequetes /\ echeance' \in [Factures -> BOOLEAN]
    BY <1>6 DEF ExaminerSuivante, FinirReglements, IInv, TypeOK
  <2>4. CASE Repondre(r, "201")
    BY <2>1, <2>2, <2>3, <2>4, ReponseType, LibreValide, Conservation
  <2>5. CASE \E f \in req[r].restantes :
               /\ Suivre(r, [op |-> "payer", facture |-> f,
                             restantes |-> req[r].restantes \ {f}, carte |-> req[r].carte])
               /\ UNCHANGED cartes
    <3>1. PICK f \in Factures, S \in SUBSET Factures, k \in Nat :
            /\ f \in req[r].restantes /\ S = req[r].restantes \ {f} /\ k = req[r].carte
            /\ req' = [req EXCEPT ![r] =
                 [op |-> "payer", facture |-> f, restantes |-> S, carte |-> k]]
      BY <2>2, <2>5 DEF Suivre
    <3> DEFINE e == [op |-> "payer", facture |-> f, restantes |-> S, carte |-> k]
    <3>2. e \in Requete /\ Valide(e)'
      BY <1>6, <2>2, <2>5, <3>1 DEF Requete, Valide, ExaminerSuivante, FinirReglements
    <3>3. cartes' \in Seq(PaiementCarte) /\ DOMAIN cartes \subseteq DOMAIN cartes'
      BY <2>5 DEF IInv, TypeOK
    <3>. QED  BY <2>1, <2>3, <3>1, <3>2, <3>3, Conservation
  <2>. QED  BY <1>6, <2>4, <2>5 DEF ExaminerSuivante, FinirReglements
<1>7. CASE PayerSuivante(r)
  <2>1. PICK f \in Factures, S \in SUBSET Factures, k \in Nat :
          /\ f = req[r].facture /\ S = req[r].restantes /\ k = req[r].carte
          /\ statut[f] # "absente"
          /\ k = 0 \/ k \in DOMAIN cartes
          /\ \A g \in S : statut[g] # "absente"
    BY <1>0, <1>7, Champs DEF PayerSuivante, Valide
  <2>2. Tables' /\ Croissance
    BY <1>7, <2>1, TransactionRegler DEF PayerSuivante, Moyens
  <2>3. servies' \in 0..MaxRequetes /\ echeance' \in [Factures -> BOOLEAN]
    BY <1>7 DEF PayerSuivante, IInv, TypeOK
  <2>4. CASE Repondre(r, "422")
    BY <1>7, <2>2, <2>3, <2>4, ReponseType, LibreValide, Conservation DEF PayerSuivante
  <2>5. CASE /\ Suivre(r, [op |-> "examiner", restantes |-> req[r].restantes,
                           carte |-> req[r].carte])
             /\ UNCHANGED cartes
    <3> DEFINE e == [op |-> "examiner", restantes |-> S, carte |-> k]
    <3>1. e \in Requete /\ Valide(e)'
      BY <2>1, <2>2, <2>5 DEF Requete, Valide, Croissance
    <3>2. cartes' \in Seq(PaiementCarte) /\ DOMAIN cartes \subseteq DOMAIN cartes'
      BY <2>5 DEF IInv, TypeOK
    <3>3. req' = [req EXCEPT ![r] = e]
      BY <2>1, <2>5 DEF Suivre
    <3>. QED  BY <2>2, <2>3, <3>1, <3>2, <3>3, Conservation
  <2>. QED  BY <1>7, <2>4, <2>5 DEF PayerSuivante
<1>. QED  BY <1>1, <1>2, <1>3, <1>4, <1>5, <1>6, <1>7 DEF Avancer

LEMMA InitInv == Init => IInv
<1> SUFFICES ASSUME Init
             PROVE  IInv
  OBVIOUS
<1>1. TypeOK
  BY HypPaiements DEF Init, TypeOK, Requete
<1>2. RequetesValides
  BY DEF Init, RequetesValides, Valide, Libre
<1>3. SoldeSuitJournal
  BY DEF Init, SoldeSuitJournal, Chaine, Avant
<1>4. StatutJustifie
  BY DEF Init, StatutJustifie, PaiementsDe
<1>. QED  BY <1>1, <1>2, <1>3, <1>4 DEF IInv

LEMMA PasInv == IInv /\ [Next]_vars => IInv'
<1>1. ASSUME IInv, UNCHANGED vars
      PROVE  IInv'
  <2>1. Tables' /\ Croissance
    BY <1>1, AucunMouvement DEF vars
  <2>2. servies' \in 0..MaxRequetes
    BY <1>1 DEF vars, IInv, TypeOK
  <2>. QED  BY <1>1, <2>1, <2>2, ConservationSimple DEF vars
<1>. QED  BY <1>1, ArriveeConserve, AvancerConserve DEF Next, Epuise

THEOREM Invariant == Spec => []IInv
BY InitInv, PasInv, PTL DEF Spec

-----------------------------------------------------------------------------
(* Results *)

\* Every table stays well formed: in particular no wallet is ever overdrawn, now or
\* on any line of its ledger, whatever the requests that run at the same time.
THEOREM TypeCorrect == Spec => []TypeOK
BY Invariant, PTL DEF IInv

\* The balance of a wallet can always be read back from its ledger: no interleaving
\* of top-ups, withdrawals, settlements, refunds and cancellations makes them differ.
THEOREM SoldeToujoursJournalise == Spec => []SoldeSuitJournal
BY Invariant, PTL DEF IInv

\* The status of an invoice never contradicts the payments recorded for it.
THEOREM StatutToujoursJustifie == Spec => []StatutJustifie
BY Invariant, PTL DEF IInv

-----------------------------------------------------------------------------
(* Every step makes at most one movement on one wallet *)

\* e is added to the journal of c, where at most one row was marked as reversed.
UnMouvement(c, avant, e) ==
  /\ avant = journal[c] \/ \E i \in Lignes(c) : avant = Marquer(c, i)
  /\ e.soldeApres = solde[c] + Signe(e)
  /\ Ecrire(c, avant, e)

UnPas == \E c \in Clients : \E e \in Ecriture : \E avant : UnMouvement(c, avant, e)

LEMMA CreditMouvement ==
  ASSUME IInv, NEW c \in Clients, NEW m \in Nat, NEW f \in Nat,
         NEW motif \in {"depot", "retrait", "facture", "remboursement", "annulation"},
         Ecrire(c, journal[c], Credit(c, m, motif, f))
  PROVE  \E e \in Ecriture : UnMouvement(c, journal[c], e)
<1>1. PICK e \in Ecriture : e = Credit(c, m, motif, f)
  BY EcritureBienFormee DEF IInv
<1>2. e.soldeApres = solde[c] + Signe(e)
  BY <1>1 DEF Credit, Signe, IInv, TypeOK
<1>. QED  BY <1>1, <1>2 DEF UnMouvement

LEMMA DebitMouvement ==
  ASSUME IInv, NEW c \in Clients, NEW m \in Nat, NEW f \in Nat,
         NEW motif \in {"depot", "retrait", "facture", "remboursement", "annulation"},
         Suffisant(c, m), NEW avant,
         avant = journal[c] \/ \E i \in Lignes(c) : avant = Marquer(c, i),
         Ecrire(c, avant, Debit(c, m, motif, f))
  PROVE  \E e \in Ecriture : UnMouvement(c, avant, e)
<1>1. PICK e \in Ecriture : e = Debit(c, m, motif, f)
  BY EcritureBienFormee DEF IInv
<1>2. e.soldeApres = solde[c] + Signe(e)
  BY <1>1 DEF Debit, Signe, IInv, TypeOK
<1>. QED  BY <1>1, <1>2 DEF UnMouvement

LEMMA ReglerMouvement ==
  ASSUME IInv, NEW f \in Factures, NEW moyen \in Moyens,
         Regler(f, moyen) \/ ReglementRefuse(f, moyen)
  PROVE  SansMouvement \/ UnPas
<1>1. PICK c \in Clients, m \in Nat : c = Titulaire[f] /\ m = Ttc[f]
  BY HypPaiements
<1>2. f \in Nat
  BY HypPaiements
<1>3. CASE /\ Suffisant(c, m)
           /\ Ecrire(c, journal[c], Debit(c, m, "facture", f))
  <2>1. \E e \in Ecriture : UnMouvement(c, journal[c], e)
    BY <1>2, <1>3, DebitMouvement
  <2>. QED  BY <2>1 DEF UnPas
<1>4. \/ SansMouvement
      \/ /\ Suffisant(c, m)
         /\ Ecrire(c, journal[c], Debit(c, m, "facture", f))
  BY <1>1 DEF Regler, ReglementRefuse, Possible
<1>. QED  BY <1>3, <1>4

LEMMA MouvementAuPlus ==
  ASSUME IInv, [Next]_vars
  PROVE  SansMouvement \/ UnPas
<1>0. /\ SansFacture \in Nat
      /\ \A m \in Montants : m \in Nat
  BY HypPaiements DEF SansFacture
<1>1. CASE UNCHANGED vars
  BY <1>1 DEF vars, SansMouvement
<1>2. ASSUME NEW r \in Requetes, Arrivee(r)
      PROVE  SansMouvement \/ UnPas
  <2>1. ASSUME NEW c \in Clients, NEW m \in Montants,
               Crediter(r, c, m) \/ RechargerAccepte(r, c, m)
        PROVE  \E e \in Ecriture : UnMouvement(c, journal[c], e)
    BY <1>0, <2>1, CreditMouvement DEF Crediter, RechargerAccepte
  <2>2. ASSUME NEW c \in Clients, NEW m \in Montants, Debiter(r, c, m)
        PROVE  \E e \in Ecriture : UnMouvement(c, journal[c], e)
    BY <1>0, <2>2, DebitMouvement DEF Debiter
  <2>3. SansMouvement \/ \E c \in Clients, m \in Montants :
          Crediter(r, c, m) \/ RechargerAccepte(r, c, m) \/ Debiter(r, c, m)
    BY <1>2 DEF Arrivee, SansMouvement, RechargerRefuse, LireEcriture, Generer, Cloturer,
                LireFacture, LirePaiement
  <2>4. ASSUME NEW c \in Clients, NEW m \in Montants,
               Crediter(r, c, m) \/ RechargerAccepte(r, c, m) \/ Debiter(r, c, m)
        PROVE  UnPas
    BY <2>1, <2>2, <2>4 DEF UnPas
  <2>. QED  BY <2>3, <2>4
<1>3. ASSUME NEW r \in Requetes, Avancer(r)
      PROVE  SansMouvement \/ UnPas
  <2>0. req[r] \in Requete /\ Valide(req[r])
    BY RequeteDe
  <2>1. CASE AnnulerRechargement(r)
    <3>4. PICK c \in Clients : c = req[r].client
      BY <2>0, <2>1, Champs DEF AnnulerRechargement
    <3>1. PICK i \in Lignes(c) : c = req[r].client /\ i = req[r].ligne
      BY <2>0, <2>1, <3>4 DEF AnnulerRechargement, Valide
    <3>2. journal[c] \in Seq(Ecriture)
      BY DEF IInv, TypeOK
    <3>3. journal[c][i] \in Ecriture
      BY <3>2 DEF Lignes
    <3>5. PICK m \in Nat : m = journal[c][i].montant
      BY <3>3 DEF Ecriture
    <3>6. PICK avant : avant = Marquer(c, i)
      OBVIOUS
    <3>7. CASE Suffisant(c, m) /\ Ecrire(c, avant, Debit(c, m, "annulation", SansFacture))
      <4>1. \E e \in Ecriture : UnMouvement(c, avant, e)
        BY <1>0, <3>6, <3>7, DebitMouvement
      <4>. QED  BY <4>1 DEF UnPas
    <3>8. \/ SansMouvement
          \/ Suffisant(c, m) /\ Ecrire(c, avant, Debit(c, m, "annulation", SansFacture))
      BY <2>1, <3>1, <3>5, <3>6 DEF AnnulerRechargement
    <3>. QED  BY <3>7, <3>8
  <2>2. CASE Rembourser(r)
    <3>1. PICK f : f = paiements[req[r].paiement].facture
      OBVIOUS
    <3>2. f \in Factures
      <4>1. req[r].paiement \in DOMAIN paiements
        BY <2>0, <2>2 DEF Rembourser, Valide
      <4>2. paiements \in Seq(Paiement)
        BY DEF IInv, TypeOK
      <4>3. paiements[req[r].paiement] \in Paiement
        BY <4>1, <4>2
      <4>. QED  BY <3>1, <4>3 DEF Paiement
    <3>3. PICK c \in Clients, m \in Nat : c = Titulaire[f] /\ m = Ttc[f]
      BY <3>2, HypPaiements
    <3>4. f \in Nat
      BY <3>2, HypPaiements
    <3>5. CASE Ecrire(c, journal[c], Credit(c, m, "remboursement", f))
      <4>1. \E e \in Ecriture : UnMouvement(c, journal[c], e)
        BY <3>4, <3>5, CreditMouvement
      <4>. QED  BY <4>1 DEF UnPas
    <3>6. SansMouvement \/ Recrediter(f)
      BY <2>2, <3>1 DEF Rembourser
    <3>. QED  BY <3>3, <3>5, <3>6 DEF Recrediter
  <2>3. CASE ReglerFacture(r)
    BY <2>0, <2>3, Champs, ReglerMouvement DEF ReglerFacture
  <2>4. CASE PayerSuivante(r)
    BY <2>0, <2>4, Champs, ReglerMouvement DEF PayerSuivante, Moyens
  <2>5. CASE PoserEcheance(r) \/ ListerImpayees(r) \/ ExaminerSuivante(r) \/ FinirReglements(r)
    BY <2>5 DEF PoserEcheance, ListerImpayees, ExaminerSuivante, FinirReglements, SansMouvement
  <2>. QED  BY <1>3, <2>1, <2>2, <2>3, <2>4, <2>5 DEF Avancer
<1>. QED  BY <1>1, <1>2, <1>3 DEF Next, Epuise

LEMMA LigneMarquee ==
  ASSUME NEW x \in Ecriture, NEW n \in Nat
  PROVE  /\ [[x EXCEPT !.annulePar = n] EXCEPT !.annulePar = 0] = [x EXCEPT !.annulePar = 0]
         /\ Signe([x EXCEPT !.annulePar = n]) = Signe(x)
         /\ [x EXCEPT !.annulePar = n] \in Ecriture
BY DEF Ecriture, Signe

\* The rows of a journal after a movement on c
LEMMA LignesApres ==
  ASSUME IInv, NEW c \in Clients, NEW avant, NEW e \in Ecriture, UnMouvement(c, avant, e),
         NEW d \in Clients
  PROVE  /\ d # c => journal'[d] = journal[d]
         /\ d = c => /\ Len(journal'[c]) = Len(journal[c]) + 1
                     /\ journal'[c] \in Seq(Ecriture)
                     /\ journal'[c][Len(journal[c]) + 1] = e
                     /\ \A i \in Lignes(c) :
                          \/ journal'[c][i] = journal[c][i]
                          \/ journal'[c][i] = [journal[c][i] EXCEPT !.annulePar = Len(journal[c]) + 1]
<1>1. journal[c] \in Seq(Ecriture) /\ Lignes(c) = 1..Len(journal[c]) /\ Len(journal[c]) \in Nat
  BY DEF IInv, TypeOK, Lignes
<1> DEFINE Attendu ==
      /\ avant \in Seq(Ecriture) /\ Len(avant) = Len(journal[c])
      /\ \A i \in Lignes(c) :
           \/ avant[i] = journal[c][i]
           \/ avant[i] = [journal[c][i] EXCEPT !.annulePar = Len(journal[c]) + 1]
<1>2. Attendu
  <2>1. CASE avant = journal[c]
    BY <1>1, <2>1
  <2>2. ASSUME NEW i \in Lignes(c), avant = Marquer(c, i)
        PROVE  Attendu
    <3>1. avant \in Seq(Ecriture) /\ Len(avant) = Len(journal[c])
      BY <2>2, MarquerLignes DEF IInv
    <3> DEFINE y == [journal[c][i] EXCEPT !.annulePar = Len(journal[c]) + 1]
    <3>2. avant = [journal[c] EXCEPT ![i] = y]
      BY <2>2 DEF Marquer
    <3>3. \A k \in Lignes(c) : avant[k] = IF k = i THEN y ELSE journal[c][k]
      BY <1>1, <3>2
    <3>. QED  BY <3>1, <3>3
  <2>. QED  BY <2>1, <2>2 DEF UnMouvement
<1>3. journal' = [journal EXCEPT ![c] = Append(avant, e)]
  BY DEF UnMouvement, Ecrire
<1>4. /\ Append(avant, e) \in Seq(Ecriture)
      /\ Len(Append(avant, e)) = Len(journal[c]) + 1
      /\ Append(avant, e)[Len(journal[c]) + 1] = e
      /\ \A i \in 1..Len(journal[c]) : Append(avant, e)[i] = avant[i]
  BY <1>1, <1>2
<1>5. journal'[c] = Append(avant, e) /\ (d # c => journal'[d] = journal[d])
  BY <1>3 DEF IInv, TypeOK
<1>. QED  BY <1>1, <1>2, <1>4, <1>5

\* The ledger is append-only: a row written is there for ever, with its amount, its
\* balance and its reason; only the mark that it was reversed may be set.
THEOREM JournalToujoursIntact == Spec => JournalIntact
<1> DEFINE Gardee(c, i) ==
      /\ i \in DOMAIN journal'[c]
      /\ [journal'[c][i] EXCEPT !.annulePar = 0] = [journal[c][i] EXCEPT !.annulePar = 0]
<1>1. ASSUME IInv, [Next]_vars, NEW c \in Clients, NEW i \in Lignes(c)
      PROVE  Gardee(c, i)
  <2>1. journal[c] \in Seq(Ecriture) /\ Lignes(c) = 1..Len(journal[c]) /\ Len(journal[c]) \in Nat
    BY <1>1 DEF IInv, TypeOK, Lignes
  <2>2. journal[c][i] \in Ecriture
    BY <1>1, <2>1
  <2>3. CASE SansMouvement
    BY <1>1, <2>3 DEF SansMouvement, Lignes
  <2>4. ASSUME NEW d \in Clients, NEW avant, NEW e \in Ecriture, UnMouvement(d, avant, e)
        PROVE  Gardee(c, i)
    <3>1. CASE d # c
      BY <1>1, <2>4, <3>1, LignesApres DEF Lignes
    <3>2. CASE d = c
      <4>1. PICK n \in Nat : n = Len(journal[c]) + 1
        BY <2>1
      <4>2. /\ Len(journal'[c]) = n /\ journal'[c] \in Seq(Ecriture)
            /\ \/ journal'[c][i] = journal[c][i]
               \/ journal'[c][i] = [journal[c][i] EXCEPT !.annulePar = n]
        BY <1>1, <2>4, <3>2, <4>1, LignesApres
      <4>3. i \in DOMAIN journal'[c]
        BY <1>1, <2>1, <4>1, <4>2
      <4>4. [journal'[c][i] EXCEPT !.annulePar = 0] = [journal[c][i] EXCEPT !.annulePar = 0]
        BY <2>2, <4>1, <4>2, LigneMarquee
      <4>. QED  BY <4>3, <4>4
    <3>. QED  BY <3>1, <3>2
  <2>. QED  BY <1>1, <2>3, <2>4, MouvementAuPlus DEF UnPas
<1>2. IInv /\ [Next]_vars =>
        [\A c \in Clients : \A i \in Lignes(c) :
           /\ i \in DOMAIN journal'[c]
           /\ [journal'[c][i] EXCEPT !.annulePar = 0] = [journal[c][i] EXCEPT !.annulePar = 0]]_vars
  BY <1>1
<1>. QED  BY <1>2, Invariant, PTL DEF JournalIntact, Spec

-----------------------------------------------------------------------------
(* The wallet implements the abstract account *)

Releves == [c \in Clients |-> [i \in Lignes(c) |-> Signe(journal[c][i])]]

LEMMA SigneEntier ==
  ASSUME NEW e \in Ecriture
  PROVE  Signe(e) \in Int
BY DEF Ecriture, Signe

LEMMA AppendUnique ==
  ASSUME NEW s \in Seq(Int), NEW t \in Seq(Int), NEW x \in Int,
         Len(t) = Len(s) + 1, t[Len(s) + 1] = x,
         \A i \in 1..Len(s) : t[i] = s[i]
  PROVE  t = Append(s, x)
<1>1. Append(s, x) \in Seq(Int) /\ Len(Append(s, x)) = Len(t)
  OBVIOUS
<1>2. \A i \in 1..Len(t) : t[i] = Append(s, x)[i]
  OBVIOUS
<1>. QED  BY <1>1, <1>2, SeqEqual

\* The statement of the account is a sequence as long as the journal it reads.
LEMMA ReleveDe ==
  ASSUME NEW n \in Nat, NEW j \in Seq(Ecriture), Len(j) = n
  PROVE  LET s == [i \in DOMAIN j |-> Signe(j[i])]
         IN  s \in Seq(Int) /\ Len(s) = n /\ \A i \in 1..n : s[i] = Signe(j[i])
<1> DEFINE s == [i \in DOMAIN j |-> Signe(j[i])]
<1>1. DOMAIN j = 1..n
  OBVIOUS
<1>2. \A i \in 1..n : Signe(j[i]) \in Int
  BY <1>1, SigneEntier
<1>3. s \in [1..n -> Int]
  BY <1>1, <1>2
<1>4. s \in Seq(Int)
  BY <1>3, SeqDef
<1>. QED  BY <1>1, <1>3, <1>4

\* Each step that moves money is one movement of one account.
LEMMA PasCompte ==
  ASSUME IInv, NEW c \in Clients, NEW avant, NEW e \in Ecriture, UnMouvement(c, avant, e)
  PROVE  /\ solde'[c] \in Nat
         /\ solde' = [solde EXCEPT ![c] = solde'[c]]
         /\ Releves' = [Releves EXCEPT ![c] = Append(Releves[c], solde'[c] - solde[c])]
<1>1. /\ solde' = [solde EXCEPT ![c] = e.soldeApres] /\ e.soldeApres \in Nat
      /\ e.soldeApres = solde[c] + Signe(e)
  BY DEF UnMouvement, Ecrire, Ecriture
<1>2. solde'[c] = e.soldeApres /\ solde[c] \in Nat /\ Signe(e) \in Int
  BY <1>1, SigneEntier DEF IInv, TypeOK
<1>3. solde'[c] - solde[c] = Signe(e)
  BY <1>1, <1>2
<1>4. PICK j, k : j = journal[c] /\ k = journal'[c] /\ j \in Seq(Ecriture)
  BY DEF IInv, TypeOK
<1>5. PICK n \in Nat : j = journal[c] /\ k = journal'[c] /\ n = Len(j) /\ j \in Seq(Ecriture)
  BY <1>4
<1>6. /\ k \in Seq(Ecriture) /\ Len(k) = n + 1 /\ k[n + 1] = e
      /\ \A i \in 1..n : k[i] = j[i] \/ k[i] = [j[i] EXCEPT !.annulePar = n + 1]
  <2>1. /\ Len(journal'[c]) = Len(journal[c]) + 1
        /\ journal'[c] \in Seq(Ecriture)
        /\ journal'[c][Len(journal[c]) + 1] = e
        /\ \A i \in Lignes(c) :
             \/ journal'[c][i] = journal[c][i]
             \/ journal'[c][i] = [journal[c][i] EXCEPT !.annulePar = Len(journal[c]) + 1]
    BY LignesApres
  <2>2. Lignes(c) = 1..n
    BY <1>5 DEF Lignes
  <2>. QED  BY <1>5, <2>1, <2>2
<1> DEFINE s == [i \in DOMAIN j |-> Signe(j[i])]
           t == [i \in DOMAIN k |-> Signe(k[i])]
<1>7. s \in Seq(Int) /\ Len(s) = n /\ \A i \in 1..n : s[i] = Signe(j[i])
  BY <1>5, ReleveDe
<1>8. t \in Seq(Int) /\ Len(t) = n + 1 /\ \A i \in 1..(n + 1) : t[i] = Signe(k[i])
  BY <1>5, <1>6, ReleveDe
<1>9. \A i \in 1..n : Signe(k[i]) = Signe(j[i])
  <2>1. \A i \in 1..n : j[i] \in Ecriture
    BY <1>5
  <2>2. ASSUME NEW i \in 1..n
        PROVE  Signe(k[i]) = Signe(j[i])
    <3>1. j[i] \in Ecriture /\ n + 1 \in Nat
      BY <2>1, <2>2
    <3>2. Signe([j[i] EXCEPT !.annulePar = n + 1]) = Signe(j[i])
      BY <3>1, LigneMarquee
    <3>. QED  BY <1>6, <2>2, <3>2
  <2>. QED  BY <2>2
<1>10. t = Append(s, Signe(e))
  <2>1. \A i \in 1..n : t[i] = s[i]
    BY <1>7, <1>8, <1>9
  <2>2. t[n + 1] = Signe(e)
    BY <1>6, <1>8
  <2>3. s \in Seq(Int) /\ t \in Seq(Int) /\ Len(t) = Len(s) + 1 /\ t[Len(s) + 1] = Signe(e)
    BY <1>7, <1>8, <2>2
  <2>4. \A i \in 1..Len(s) : t[i] = s[i]
    BY <1>7, <2>1
  <2> HIDE DEF s, t
  <2>. QED  BY <1>2, <2>3, <2>4, AppendUnique
<1>11. Releves[c] = s /\ Releves'[c] = t
  BY <1>5 DEF Releves, Lignes
<1>12. \A d \in Clients : d # c => Releves'[d] = Releves[d]
  BY LignesApres DEF Releves, Lignes
<1>13. /\ Releves = [d \in Clients |-> Releves[d]]
       /\ Releves' = [d \in Clients |-> Releves'[d]]
  BY DEF Releves
<1>14. Releves' = [Releves EXCEPT ![c] = Append(Releves[c], solde'[c] - solde[c])]
  <2> HIDE DEF s, t
  <2>. QED  BY <1>3, <1>10, <1>11, <1>12, <1>13
<1>. QED  BY <1>1, <1>2, <1>14

\* The wallet implements the account of module Compte: never overdrawn, and moved
\* only together with one line of its statement that says by how much.
THEOREM CompteImplemente == Spec => ImplementeCompte
<1>1. Init => C!Init
  BY DEF Init, C!Init, Lignes
<1>2. IInv /\ [Next]_vars =>
        [C!Next]_<<solde, [c \in Clients |-> [i \in Lignes(c) |-> Signe(journal[c][i])]]>>
  <2> SUFFICES ASSUME IInv, [Next]_vars
               PROVE  [C!Next]_<<solde, Releves>>
    BY DEF Releves
  <2>1. CASE SansMouvement
    BY <2>1 DEF SansMouvement, Releves, Lignes
  <2>2. ASSUME NEW c \in Clients, NEW avant, NEW e \in Ecriture, UnMouvement(c, avant, e)
        PROVE  C!Next
    BY <2>2, PasCompte DEF C!Next, C!Mouvement, Releves
  <2>. QED  BY <2>1, <2>2, MouvementAuPlus DEF UnPas
<1>. QED  BY <1>1, <1>2, Invariant, PTL DEF ImplementeCompte, C!Spec, Spec

=============================================================================
