--------------------- MODULE PaiementsAppariementPreuves ---------------------
(***************************************************************************)
(* Further proofs about Paiements: how the rows of the wallets, the        *)
(* payments and the invoices match each other.  First for any number of    *)
(* concurrent requests, then for requests served one at a time, where      *)
(* nothing is done twice and an invoice follows the abstract CycleFacture. *)
(***************************************************************************)
EXTENDS PaiementsPreuves, FiniteSetTheorems

-----------------------------------------------------------------------------
(* What a step does to the three tables                                     *)

\* e is added to the wallet of c, where it marks the row `marque` if there is one.
Ligne(c, e, marque) ==
  /\ e.annulePar = NonAnnule
  /\ Len(journal'[c]) = Len(journal[c]) + 1
  /\ journal'[c][Len(journal[c]) + 1] = e
  /\ \A i \in Lignes(c) :
       journal'[c][i] = IF i = marque
                        THEN [journal[c][i] EXCEPT !.annulePar = Len(journal[c]) + 1]
                        ELSE journal[c][i]
  /\ \A d \in Clients \ {c} : journal'[d] = journal[d]

\* No row and no payment: at most an invoice is issued.
PasNeutre ==
  /\ UNCHANGED <<journal, paiements>>
  /\ \/ UNCHANGED statut
     \/ \E f \in Factures : statut[f] = "absente" /\ statut' = [statut EXCEPT ![f] = "impayee"]

PasMouvement ==
  /\ UNCHANGED <<paiements, statut>>
  /\ \E c \in Clients, e \in Ecriture : e.motif \in {"depot", "retrait"} /\ Ligne(c, e, 0)

PasAnnulation(r, c, i) ==
  /\ req[r].op = "annuler" /\ c = req[r].client /\ i = req[r].ligne
  /\ UNCHANGED <<paiements, statut>>
  /\ \E e \in Ecriture :
       /\ e.motif = "annulation" /\ e.facture = SansFacture /\ e.montant = journal[c][i].montant
       /\ Ligne(c, e, i)

\* The row written for f with the given reason, when the wallet is the means.
LigneDuWallet(f, moyen, motif) ==
  IF moyen = "wallet"
  THEN \E e \in Ecriture : e.motif = motif /\ e.facture = f /\ Ligne(Titulaire[f], e, 0)
  ELSE UNCHANGED journal

PasReglement(r, f, moyen) ==
  /\ \/ req[r].op = "regler" /\ f = req[r].facture /\ moyen = req[r].moyen
     \/ req[r].op = "payer" /\ f = req[r].facture /\ moyen = "wallet"
  /\ LigneDuWallet(f, moyen, "facture")
  /\ paiements' = Encaisser(f, moyen)
  /\ statut' = IF moyen = "differe" THEN statut ELSE [statut EXCEPT ![f] = "payee"]

PasRemboursement(r, p, f) ==
  /\ req[r].op = "rembourser" /\ p = req[r].paiement /\ f = paiements[p].facture
  /\ LigneDuWallet(f, paiements[p].moyen, "remboursement")
  /\ paiements' = [paiements EXCEPT ![p].statut = "rembourse"]
  /\ statut' = [statut EXCEPT ![f] = "remboursee"]

\* A row appended to the journal as it is.
LEMMA LigneAjoutee ==
  ASSUME IInv, NEW c \in Clients, NEW e \in Ecriture, e.annulePar = NonAnnule,
         Ecrire(c, journal[c], e)
  PROVE  Ligne(c, e, 0)
<1>1. journal[c] \in Seq(Ecriture) /\ Lignes(c) = 1..Len(journal[c]) /\ Len(journal[c]) \in Nat
  BY DEF IInv, TypeOK, Lignes
<1>2. journal'[c] = Append(journal[c], e) /\ \A d \in Clients \ {c} : journal'[d] = journal[d]
  BY DEF Ecrire, IInv, TypeOK
<1>3. /\ Len(Append(journal[c], e)) = Len(journal[c]) + 1
      /\ Append(journal[c], e)[Len(journal[c]) + 1] = e
      /\ \A i \in 1..Len(journal[c]) : Append(journal[c], e)[i] = journal[c][i]
  BY <1>1, AppendProperties
<1>. QED BY <1>1, <1>2, <1>3 DEF Ligne

\* A row appended to the journal whose row i it marks.
LEMMA LigneMarquante ==
  ASSUME IInv, NEW c \in Clients, NEW i \in Lignes(c), NEW e \in Ecriture,
         e.annulePar = NonAnnule, Ecrire(c, Marquer(c, i), e)
  PROVE  Ligne(c, e, i)
<1> DEFINE n == Len(journal[c])
           y == [journal[c][i] EXCEPT !.annulePar = n + 1]
<1>1. journal[c] \in Seq(Ecriture) /\ Lignes(c) = 1..n /\ n \in Nat
  BY DEF IInv, TypeOK, Lignes
<1>2. Marquer(c, i) \in Seq(Ecriture) /\ Len(Marquer(c, i)) = n
  BY MarquerLignes DEF IInv
<1>3. \A k \in 1..n : Marquer(c, i)[k] = IF k = i THEN y ELSE journal[c][k]
  BY <1>1 DEF Marquer
<1>4. journal'[c] = Append(Marquer(c, i), e) /\ \A d \in Clients \ {c} : journal'[d] = journal[d]
  BY DEF Ecrire, IInv, TypeOK
<1>5. /\ Len(Append(Marquer(c, i), e)) = n + 1
      /\ Append(Marquer(c, i), e)[n + 1] = e
      /\ \A k \in 1..n : Append(Marquer(c, i), e)[k] = Marquer(c, i)[k]
  BY <1>2, AppendProperties
<1>. QED BY <1>1, <1>3, <1>4, <1>5 DEF Ligne

LEMMA ReglerEffet ==
  ASSUME IInv, NEW f \in Factures, NEW moyen \in Moyens, Regler(f, moyen)
  PROVE  /\ LigneDuWallet(f, moyen, "facture")
         /\ paiements' = Encaisser(f, moyen)
         /\ statut' = IF moyen = "differe" THEN statut ELSE [statut EXCEPT ![f] = "payee"]
<1>1. PICK c \in Clients, m \in Nat : c = Titulaire[f] /\ m = Ttc[f]
  BY HypPaiements
<1>2. f \in Nat
  BY HypPaiements
<1>3. CASE moyen = "wallet"
  <2>1. Suffisant(c, m) /\ Ecrire(c, journal[c], Debit(c, m, "facture", f))
    BY <1>1, <1>3 DEF Regler, Possible
  <2>2. PICK e \in Ecriture : e = Debit(c, m, "facture", f)
    BY <1>2, <2>1, EcritureBienFormee DEF IInv
  <2>3. e.annulePar = NonAnnule /\ e.motif = "facture" /\ e.facture = f
    BY <2>2 DEF Debit
  <2>4. Ligne(c, e, 0)
    BY <2>1, <2>2, <2>3, LigneAjoutee
  <2>. QED BY <1>1, <1>3, <2>3, <2>4 DEF LigneDuWallet, Regler
<1>4. CASE moyen # "wallet"
  BY <1>4 DEF Regler, SansMouvement, LigneDuWallet
<1>. QED BY <1>3, <1>4

\* A step that settles, or is refused.
LEMMA EffetRegler ==
  ASSUME IInv, NEW r \in Requetes, ReglerFacture(r) \/ PayerSuivante(r)
  PROVE  PasNeutre \/ \E f \in Factures, moyen \in Moyens : PasReglement(r, f, moyen)
<1>0. req[r] \in Requete
  BY RequeteDe
<1>1. CASE ReglerFacture(r)
  <2>1. PICK f \in Factures, moyen \in Moyens : f = req[r].facture /\ moyen = req[r].moyen
    BY <1>0, <1>1, Champs DEF ReglerFacture
  <2>2. CASE Regler(f, moyen)
    BY <1>1, <2>1, <2>2, ReglerEffet DEF ReglerFacture, PasReglement
  <2>3. CASE ReglementRefuse(f, moyen)
    BY <2>3 DEF ReglementRefuse, SansMouvement, PasNeutre
  <2>. QED BY <1>1, <2>1, <2>2, <2>3 DEF ReglerFacture
<1>2. CASE PayerSuivante(r)
  <2>1. PICK f \in Factures : f = req[r].facture
    BY <1>0, <1>2, Champs DEF PayerSuivante
  <2>0. "wallet" \in Moyens
    BY DEF Moyens
  <2>2. CASE Regler(f, "wallet")
    BY <1>2, <2>0, <2>1, <2>2, ReglerEffet DEF PayerSuivante, PasReglement
  <2>3. CASE ReglementRefuse(f, "wallet")
    BY <2>3 DEF ReglementRefuse, SansMouvement, PasNeutre
  <2>. QED BY <1>2, <2>1, <2>2, <2>3 DEF PayerSuivante
<1>. QED BY <1>1, <1>2

LEMMA EffetRembourser ==
  ASSUME IInv, NEW r \in Requetes, Rembourser(r)
  PROVE  PasNeutre \/ \E p \in DOMAIN paiements, f \in Factures : PasRemboursement(r, p, f)
<1>1. PICK p \in DOMAIN paiements : p = req[r].paiement
  BY RequeteDe DEF Rembourser, Valide
<1>2. paiements[p] \in Paiement
  BY DEF IInv, TypeOK
<1>3. PICK f \in Factures : f = paiements[p].facture
  BY <1>2 DEF Paiement
<1>4. PICK c \in Clients, m \in Nat : c = Titulaire[f] /\ m = Ttc[f]
  BY HypPaiements
<1>5. f \in Nat
  BY HypPaiements
<1>6. CASE SansMouvement /\ UNCHANGED <<paiements, statut>>
  BY <1>6 DEF SansMouvement, PasNeutre
<1>7. CASE /\ IF paiements[p].moyen = "wallet" THEN Recrediter(f) ELSE SansMouvement
           /\ paiements' = [paiements EXCEPT ![p].statut = "rembourse"]
           /\ statut' = [statut EXCEPT ![f] = "remboursee"]
  <2>1. LigneDuWallet(f, paiements[p].moyen, "remboursement")
    <3>1. CASE paiements[p].moyen = "wallet"
      <4>1. Ecrire(c, journal[c], Credit(c, m, "remboursement", f))
        BY <1>4, <1>7, <3>1 DEF Recrediter
      <4>2. PICK e \in Ecriture : e = Credit(c, m, "remboursement", f)
        BY <1>5, EcritureBienFormee DEF IInv
      <4>3. e.annulePar = NonAnnule /\ e.motif = "remboursement" /\ e.facture = f
        BY <4>2 DEF Credit
      <4>4. Ligne(c, e, 0)
        BY <4>1, <4>2, <4>3, LigneAjoutee
      <4>. QED BY <1>4, <3>1, <4>3, <4>4 DEF LigneDuWallet
    <3>2. CASE paiements[p].moyen # "wallet"
      BY <1>7, <3>2 DEF SansMouvement, LigneDuWallet
    <3>. QED BY <3>1, <3>2
  <2>2. PasRemboursement(r, p, f)
    BY <1>1, <1>3, <1>7, <2>1 DEF Rembourser, PasRemboursement
  <2>. QED BY <2>2
<1>. QED BY <1>1, <1>3, <1>6, <1>7 DEF Rembourser

LEMMA EffetAnnuler ==
  ASSUME IInv, NEW r \in Requetes, AnnulerRechargement(r)
  PROVE  PasNeutre \/ \E c \in Clients : \E i \in Lignes(c) : PasAnnulation(r, c, i)
<1>1. req[r] \in Requete /\ Valide(req[r]) /\ req[r].op = "annuler"
  BY RequeteDe DEF AnnulerRechargement
<1>2. PICK c \in Clients : c = req[r].client
  BY <1>1, Champs
<1>3. PICK i \in Lignes(c) : i = req[r].ligne
  BY <1>1, <1>2 DEF Valide
<1>4. journal[c] \in Seq(Ecriture)
  BY DEF IInv, TypeOK
<1>5. journal[c][i] \in Ecriture
  BY <1>4 DEF Lignes
<1>6. PICK m \in Nat : m = journal[c][i].montant
  BY <1>5 DEF Ecriture
<1>7. CASE SansMouvement
  BY <1>7 DEF SansMouvement, PasNeutre, AnnulerRechargement
<1>8. CASE Suffisant(c, m) /\ Ecrire(c, Marquer(c, i), Debit(c, m, "annulation", SansFacture))
  <2>1. PICK e \in Ecriture : e = Debit(c, m, "annulation", SansFacture)
    BY <1>8, EcritureBienFormee DEF IInv, SansFacture
  <2>2. /\ e.annulePar = NonAnnule /\ e.motif = "annulation" /\ e.facture = SansFacture
        /\ e.montant = m
    BY <2>1 DEF Debit
  <2>3. Ligne(c, e, i)
    BY <1>8, <2>1, <2>2, LigneMarquante
  <2>4. PasAnnulation(r, c, i)
    BY <1>1, <1>2, <1>3, <1>6, <2>2, <2>3 DEF PasAnnulation, AnnulerRechargement
  <2>. QED BY <2>4
<1>. QED BY <1>2, <1>3, <1>6, <1>7, <1>8 DEF AnnulerRechargement

\* A request that arrives moves money by itself, issues an invoice or only reads.
LEMMA EffetArrivee ==
  ASSUME IInv, NEW r \in Requetes, Arrivee(r)
  PROVE  PasNeutre \/ PasMouvement
<1>0. SansFacture \in Nat /\ \A m \in Montants : m \in Nat
  BY HypPaiements DEF SansFacture
<1>1. ASSUME NEW c \in Clients, NEW m \in Montants, Crediter(r, c, m) \/ RechargerAccepte(r, c, m)
      PROVE  PasMouvement
  <2>1. PICK e \in Ecriture : e = Credit(c, m, "depot", SansFacture)
    BY <1>0, EcritureBienFormee DEF IInv
  <2>2. e.annulePar = NonAnnule /\ e.motif = "depot"
    BY <2>1 DEF Credit
  <2>3. Ligne(c, e, 0)
    BY <1>1, <2>1, <2>2, LigneAjoutee DEF Crediter, RechargerAccepte
  <2>. QED BY <1>1, <2>2, <2>3 DEF PasMouvement, Crediter, RechargerAccepte
<1>2. ASSUME NEW c \in Clients, NEW m \in Montants, Debiter(r, c, m)
      PROVE  PasMouvement
  <2>1. PICK e \in Ecriture : e = Debit(c, m, "retrait", SansFacture)
    BY <1>0, <1>2, EcritureBienFormee DEF IInv, Debiter
  <2>2. e.annulePar = NonAnnule /\ e.motif = "retrait"
    BY <2>1 DEF Debit
  <2>3. Ligne(c, e, 0)
    BY <1>2, <2>1, <2>2, LigneAjoutee DEF Debiter
  <2>. QED BY <1>2, <2>2, <2>3 DEF PasMouvement, Debiter
<1>3. ASSUME NEW f \in Factures, Generer(r, f) \/ Cloturer(r, f)
      PROVE  PasNeutre
  <2>1. UNCHANGED <<journal, paiements>> /\ statut' = [statut EXCEPT ![f] = Emise(f)]
    BY <1>3 DEF Generer, Cloturer
  <2>2. CASE statut[f] = "absente"
    BY <2>1, <2>2 DEF PasNeutre, Emise
  <2>3. CASE statut[f] # "absente"
    <3>1. statut' = statut
      BY <2>1, <2>3 DEF Emise, IInv, TypeOK
    <3>. QED BY <2>1, <3>1 DEF PasNeutre
  <2>. QED BY <2>2, <2>3
<1>. QED BY <1>1, <1>2, <1>3 DEF Arrivee, RechargerRefuse, LireEcriture, LireFacture,
       LirePaiement, PasNeutre

\* Every step is one of these.
LEMMA Effets ==
  ASSUME IInv, [Next]_vars
  PROVE  \/ PasNeutre \/ PasMouvement
         \/ \E r \in Requetes :
              \/ \E c \in Clients : \E i \in Lignes(c) : PasAnnulation(r, c, i)
              \/ \E f \in Factures, moyen \in Moyens : PasReglement(r, f, moyen)
              \/ \E p \in DOMAIN paiements, f \in Factures : PasRemboursement(r, p, f)
<1>1. UNCHANGED vars => PasNeutre
  BY DEF vars, PasNeutre
<1>2. ASSUME NEW r \in Requetes,
             PoserEcheance(r) \/ ListerImpayees(r) \/ ExaminerSuivante(r) \/ FinirReglements(r)
      PROVE  PasNeutre
  BY <1>2 DEF PoserEcheance, ListerImpayees, ExaminerSuivante, FinirReglements, PasNeutre
<1>. QED BY <1>1, <1>2, EffetArrivee, EffetAnnuler, EffetRegler, EffetRembourser
     DEF Next, Epuise, Avancer

-----------------------------------------------------------------------------
(* Reversals                                                                *)

\* The row of e is new: what pairs the marks of the other rows stays, and the row it
\* marks is of its amount.
LEMMA AppariementLigne ==
  ASSUME IInv, IInv', AnnulationAppariee, NEW c \in Clients, NEW e \in Ecriture,
         NEW i \in Nat, Ligne(c, e, i),
         \/ i = 0
         \/ i \in Lignes(c) /\ e.motif = "annulation" /\ e.montant = journal[c][i].montant
  PROVE  AnnulationAppariee'
<1>. SUFFICES ASSUME NEW d \in Clients, NEW a \in Lignes(d)', journal'[d][a].annulePar # NonAnnule
     PROVE  /\ journal'[d][a].annulePar \in (a + 1)..Len(journal'[d])
            /\ journal'[d][journal'[d][a].annulePar].motif = "annulation"
            /\ journal'[d][journal'[d][a].annulePar].montant = journal'[d][a].montant
            /\ \A b \in Lignes(d)' :
                 journal'[d][b].annulePar = journal'[d][a].annulePar => b = a
  BY DEF AnnulationAppariee
<1>1. CASE d # c
  BY <1>1 DEF Ligne, AnnulationAppariee, Lignes
<1>2. CASE d = c
  <2>1. PICK n \in Nat : n = Len(journal[c])
    BY DEF IInv, TypeOK
  <2>2. /\ journal[c] \in Seq(Ecriture) /\ Lignes(c) = 1..n
        /\ journal'[c] \in Seq(Ecriture) /\ Len(journal'[c]) = n + 1 /\ Lignes(c)' = 1..(n + 1)
    BY <2>1 DEF IInv, TypeOK, Lignes, Ligne
  <2>3. journal'[c][n + 1] = e /\ e.annulePar = NonAnnule
    BY <2>1 DEF Ligne
  <2>4. ASSUME NEW k \in 1..n
        PROVE  /\ journal'[c][k].motif = journal[c][k].motif
               /\ journal'[c][k].montant = journal[c][k].montant
               /\ journal'[c][k].annulePar = IF k = i THEN n + 1 ELSE journal[c][k].annulePar
               /\ journal[c][k].annulePar # NonAnnule => journal[c][k].annulePar \in (k + 1)..n
    <3>1. journal[c][k] \in Ecriture
      BY <2>1, <2>2, ElementOfSeq
    <3>2. journal'[c][k] = IF k = i THEN [journal[c][k] EXCEPT !.annulePar = n + 1]
                                    ELSE journal[c][k]
      BY <2>1, <2>2 DEF Ligne
    <3>3. journal[c][k].annulePar # NonAnnule => journal[c][k].annulePar \in (k + 1)..n
      BY <2>1, <2>2 DEF AnnulationAppariee
    <3>. QED BY <3>1, <3>2, <3>3 DEF Ecriture
  <2>5. a \in 1..n
    BY <1>2, <2>2, <2>3 DEF Lignes
  <2>6. CASE a = i
    <3>1. journal'[c][a].annulePar = n + 1 /\ i \in Lignes(c)
      BY <2>4, <2>5, <2>6
    <3>2. \A b \in 1..(n + 1) : journal'[c][b].annulePar = n + 1 => b = a
      <4>. TAKE b \in 1..(n + 1)
      <4>1. CASE b = n + 1
        BY <2>1, <2>3, <4>1 DEF NonAnnule
      <4>2. CASE b \in 1..n
        BY <2>1, <2>4, <2>6, <4>2 DEF NonAnnule
      <4>. QED BY <2>1, <4>1, <4>2
    <3>3. n + 1 \in (a + 1)..(n + 1)
      BY <2>1, <2>5
    <3>. QED BY <1>2, <2>2, <2>3, <2>4, <2>5, <2>6, <3>1, <3>2, <3>3
  <2>7. CASE a # i
    <3>1. PICK k : k = journal[c][a].annulePar
      OBVIOUS
    <3>2. journal'[c][a].annulePar = k /\ k # NonAnnule /\ k \in (a + 1)..n /\ k \in 1..n
      BY <1>2, <2>1, <2>4, <2>5, <2>7, <3>1
    <3>3. /\ journal[c][k].motif = "annulation"
          /\ journal[c][k].montant = journal[c][a].montant
          /\ \A b \in Lignes(c) : journal[c][b].annulePar = k => b = a
      BY <2>2, <2>5, <3>1, <3>2 DEF AnnulationAppariee
    <3>4. \A b \in 1..(n + 1) : journal'[c][b].annulePar = k => b = a
      <4>. TAKE b \in 1..(n + 1)
      <4>1. CASE b = n + 1
        BY <2>3, <3>2, <4>1
      <4>2. CASE b \in 1..n
        <5>1. journal'[c][b].annulePar = IF b = i THEN n + 1 ELSE journal[c][b].annulePar
          BY <2>4, <4>2
        <5>2. n + 1 # k
          BY <2>1, <3>2
        <5>. QED BY <2>2, <3>3, <4>2, <5>1, <5>2
      <4>. QED BY <2>1, <4>1, <4>2
    <3>5. k \in (a + 1)..(n + 1)
      BY <2>1, <2>5, <3>2
    <3>. QED BY <1>2, <2>2, <2>4, <2>5, <3>2, <3>3, <3>4, <3>5
  <2>. QED BY <2>6, <2>7
<1>. QED BY <1>1, <1>2

LEMMA AppariementSimple ==
  ASSUME IInv, IInv', AnnulationAppariee, NEW c \in Clients, NEW e \in Ecriture, Ligne(c, e, 0)
  PROVE  AnnulationAppariee'
<1>1. PICK i \in Nat : i = 0
  OBVIOUS
<1>2. Ligne(c, e, i)
  BY <1>1
<1>. QED BY <1>1, <1>2, AppariementLigne

LEMMA AppariementPas ==
  IInv /\ IInv' /\ AnnulationAppariee /\ [Next]_vars => AnnulationAppariee'
<1>. SUFFICES ASSUME IInv, IInv', AnnulationAppariee, [Next]_vars PROVE AnnulationAppariee'
  OBVIOUS
<1>1. CASE UNCHANGED journal
  BY <1>1 DEF AnnulationAppariee, Lignes
<1>2. CASE PasNeutre
  BY <1>1, <1>2 DEF PasNeutre
<1>3. CASE PasMouvement
  <2>1. PICK c \in Clients, e \in Ecriture : Ligne(c, e, 0)
    BY <1>3 DEF PasMouvement
  <2>. QED BY <2>1, AppariementSimple
<1>4. ASSUME NEW r \in Requetes, NEW c \in Clients, NEW i \in Lignes(c), PasAnnulation(r, c, i)
      PROVE  AnnulationAppariee'
  <2>1. i \in Nat
    BY DEF Lignes, IInv, TypeOK
  <2>. QED BY <1>4, <2>1, AppariementLigne DEF PasAnnulation
<1>5. ASSUME NEW f \in Factures, NEW moyen, NEW motif, LigneDuWallet(f, moyen, motif)
      PROVE  AnnulationAppariee'
  <2>1. Titulaire[f] \in Clients
    BY HypPaiements
  <2>2. ASSUME NEW e \in Ecriture, Ligne(Titulaire[f], e, 0) PROVE AnnulationAppariee'
    BY <2>1, <2>2, AppariementSimple
  <2>. QED BY <1>1, <1>5, <2>2 DEF LigneDuWallet
<1>6. ASSUME NEW r \in Requetes, NEW f \in Factures, NEW moyen \in Moyens, PasReglement(r, f, moyen)
      PROVE  AnnulationAppariee'
  BY <1>5, <1>6 DEF PasReglement
<1>7. ASSUME NEW r \in Requetes, NEW p \in DOMAIN paiements, NEW f \in Factures,
             PasRemboursement(r, p, f)
      PROVE  AnnulationAppariee'
  BY <1>5, <1>7 DEF PasRemboursement
<1>. QED BY <1>2, <1>3, <1>4, <1>6, <1>7, Effets

-----------------------------------------------------------------------------
(* Debits of settlements                                                    *)

\* The payments of f with one of these statuses that the wallet made.
ParWallet(f, statuts) == {p \in PaiementsDe(f, statuts) : paiements[p].moyen = "wallet"}

LEMMA EnsemblesFinis ==
  ASSUME TypeOK, NEW c \in Clients, NEW f, NEW motif, NEW statuts
  PROVE  /\ IsFiniteSet(LignesDe(c, motif, f)) /\ Cardinality(LignesDe(c, motif, f)) \in Nat
         /\ IsFiniteSet(PaiementsDe(f, statuts)) /\ Cardinality(PaiementsDe(f, statuts)) \in Nat
         /\ IsFiniteSet(ParWallet(f, statuts)) /\ Cardinality(ParWallet(f, statuts)) \in Nat
<1>1. journal[c] \in Seq(Ecriture) /\ paiements \in Seq(Paiement)
  BY DEF TypeOK
<1>2. IsFiniteSet(1..Len(journal[c])) /\ IsFiniteSet(1..Len(paiements))
  BY <1>1, LenProperties, FS_Interval
<1>3. LignesDe(c, motif, f) \in SUBSET (1..Len(journal[c]))
  BY <1>1 DEF LignesDe, Lignes
<1>4. PaiementsDe(f, statuts) \in SUBSET (1..Len(paiements))
  BY <1>1 DEF PaiementsDe
<1>5. ParWallet(f, statuts) \in SUBSET (1..Len(paiements))
  BY <1>4 DEF ParWallet
<1>6. /\ IsFiniteSet(LignesDe(c, motif, f)) /\ IsFiniteSet(PaiementsDe(f, statuts))
      /\ IsFiniteSet(ParWallet(f, statuts))
  BY <1>2, <1>3, <1>4, <1>5, FS_Subset
<1>. QED BY <1>6, FS_CardinalityType

\* A new row counts once, for its own reason and its own invoice.
LEMMA LignesDeApres ==
  ASSUME IInv, IInv', NEW c \in Clients, NEW e \in Ecriture, NEW i, Ligne(c, e, i),
         NEW d \in Clients, NEW motif, NEW f
  PROVE  Cardinality(LignesDe(d, motif, f)') =
           IF d = c /\ e.motif = motif /\ e.facture = f
           THEN Cardinality(LignesDe(d, motif, f)) + 1
           ELSE Cardinality(LignesDe(d, motif, f))
<1>1. PICK n \in Nat : n = Len(journal[c])
  BY DEF IInv, TypeOK
<1>2. /\ journal[c] \in Seq(Ecriture) /\ Lignes(c) = 1..n
      /\ journal'[c] \in Seq(Ecriture) /\ Lignes(c)' = 1..(n + 1) /\ journal'[c][n + 1] = e
  BY <1>1 DEF IInv, TypeOK, Lignes, Ligne
<1>3. CASE d # c
  <2>1. LignesDe(d, motif, f)' = LignesDe(d, motif, f)
    BY <1>3 DEF Ligne, LignesDe, Lignes
  <2>. QED BY <1>3, <2>1
<1>4. CASE d = c
  <2>1. ASSUME NEW k \in 1..n
        PROVE  /\ journal'[c][k].motif = journal[c][k].motif
               /\ journal'[c][k].facture = journal[c][k].facture
    <3>1. journal[c][k] \in Ecriture
      BY <1>1, <1>2, ElementOfSeq
    <3>2. journal'[c][k] = IF k = i THEN [journal[c][k] EXCEPT !.annulePar = n + 1]
                                    ELSE journal[c][k]
      BY <1>1, <1>2 DEF Ligne
    <3>. QED BY <3>1, <3>2 DEF Ecriture
  <2>2. LignesDe(d, motif, f)' =
          IF e.motif = motif /\ e.facture = f THEN LignesDe(d, motif, f) \cup {n + 1}
                                              ELSE LignesDe(d, motif, f)
    BY <1>1, <1>2, <1>4, <2>1 DEF LignesDe
  <2>3. n + 1 \notin LignesDe(d, motif, f)
    BY <1>1, <1>2, <1>4 DEF LignesDe
  <2>4. IsFiniteSet(LignesDe(d, motif, f))
    BY EnsemblesFinis DEF IInv
  <2>. QED BY <1>4, <2>2, <2>3, <2>4, FS_AddElement
<1>. QED BY <1>3, <1>4

\* A settlement adds its payment to those received, and to no other set.
LEMMA PaiementsRegles ==
  ASSUME IInv, NEW f \in Factures, NEW moyen \in Moyens, paiements' = Encaisser(f, moyen),
         NEW g \in Factures
  PROVE  /\ PaiementsDe(g, Recu)' = IF g = f /\ moyen # "differe"
                                    THEN PaiementsDe(g, Recu) \cup {Len(paiements) + 1}
                                    ELSE PaiementsDe(g, Recu)
         /\ PaiementsDe(g, {"rembourse"})' = PaiementsDe(g, {"rembourse"})
         /\ ParWallet(g, Recu)' = IF g = f /\ moyen = "wallet"
                                  THEN ParWallet(g, Recu) \cup {Len(paiements) + 1}
                                  ELSE ParWallet(g, Recu)
         /\ ParWallet(g, {"rembourse"})' = ParWallet(g, {"rembourse"})
         /\ Len(paiements) + 1 \notin PaiementsDe(g, Recu)
<1>1. PICK n \in Nat : n = Len(paiements)
  BY DEF IInv, TypeOK
<1>2. PICK x \in Paiement :
        /\ x.facture = f /\ x.moyen = moyen
        /\ x.statut = IF moyen = "differe" THEN "en_attente" ELSE "paye"
        /\ paiements' = Append(paiements, x)
  BY DEF Encaisser, Paiement
<1>3. /\ DOMAIN paiements = 1..n /\ DOMAIN paiements' = 1..(n + 1) /\ paiements'[n + 1] = x
      /\ \A p \in 1..n : paiements'[p] = paiements[p]
  <2>1. paiements \in Seq(Paiement)
    BY DEF IInv, TypeOK
  <2>. QED BY <1>1, <1>2, <2>1, AppendProperties
<1>4. PaiementsDe(g, Recu)' = IF g = f /\ moyen # "differe"
                              THEN PaiementsDe(g, Recu) \cup {n + 1}
                              ELSE PaiementsDe(g, Recu)
  BY <1>1, <1>2, <1>3 DEF PaiementsDe, Recu
<1>5. PaiementsDe(g, {"rembourse"})' = PaiementsDe(g, {"rembourse"})
  BY <1>1, <1>2, <1>3 DEF PaiementsDe
<1>6. \A p \in PaiementsDe(g, Recu) \cup PaiementsDe(g, {"rembourse"}) :
        p \in 1..n /\ paiements'[p] = paiements[p]
  BY <1>3 DEF PaiementsDe
<1>7. n + 1 \notin PaiementsDe(g, Recu)
  BY <1>1, <1>3 DEF PaiementsDe
<1>8. ParWallet(g, Recu)' = IF g = f /\ moyen = "wallet"
                            THEN ParWallet(g, Recu) \cup {n + 1}
                            ELSE ParWallet(g, Recu)
  BY <1>2, <1>3, <1>4, <1>6 DEF ParWallet
<1>9. ParWallet(g, {"rembourse"})' = ParWallet(g, {"rembourse"})
  BY <1>5, <1>6 DEF ParWallet
<1>. QED BY <1>1, <1>4, <1>5, <1>7, <1>8, <1>9

\* A refund moves its payment among those received.
LEMMA PaiementsRembourses ==
  ASSUME IInv, NEW p \in DOMAIN paiements, paiements[p].statut \in Recu,
         paiements' = [paiements EXCEPT ![p].statut = "rembourse"], NEW g \in Factures
  PROVE  /\ PaiementsDe(g, Recu)' = PaiementsDe(g, Recu)
         /\ PaiementsDe(g, {"rembourse"})' = IF g = paiements[p].facture
                                             THEN PaiementsDe(g, {"rembourse"}) \cup {p}
                                             ELSE PaiementsDe(g, {"rembourse"})
         /\ ParWallet(g, Recu)' = ParWallet(g, Recu)
         /\ ParWallet(g, {"rembourse"})' = IF g = paiements[p].facture /\ paiements[p].moyen = "wallet"
                                           THEN ParWallet(g, {"rembourse"}) \cup {p}
                                           ELSE ParWallet(g, {"rembourse"})
<1>1. paiements[p] \in Paiement
  BY DEF IInv, TypeOK
<1>2. PICK x : x = [paiements[p] EXCEPT !.statut = "rembourse"]
  OBVIOUS
<1>3. x.facture = paiements[p].facture /\ x.moyen = paiements[p].moyen /\ x.statut = "rembourse"
  BY <1>1, <1>2 DEF Paiement
<1>4. /\ DOMAIN paiements' = DOMAIN paiements
      /\ \A q \in DOMAIN paiements : paiements'[q] = IF q = p THEN x ELSE paiements[q]
  <2>1. paiements' = [paiements EXCEPT ![p] = x]
    BY <1>2
  <2>. QED BY <2>1
<1>5. PaiementsDe(g, Recu)' = PaiementsDe(g, Recu)
  BY <1>3, <1>4 DEF PaiementsDe, Recu
<1>6. PaiementsDe(g, {"rembourse"})' = IF g = paiements[p].facture
                                       THEN PaiementsDe(g, {"rembourse"}) \cup {p}
                                       ELSE PaiementsDe(g, {"rembourse"})
  BY <1>3, <1>4 DEF PaiementsDe
<1>7. \A q \in DOMAIN paiements : paiements'[q].moyen = paiements[q].moyen
  BY <1>3, <1>4
<1>8. \A s : PaiementsDe(g, s) \subseteq DOMAIN paiements
  BY DEF PaiementsDe
<1>9. ParWallet(g, Recu)' = ParWallet(g, Recu)
  BY <1>5, <1>7, <1>8 DEF ParWallet
<1>10. ParWallet(g, {"rembourse"})' = IF g = paiements[p].facture /\ paiements[p].moyen = "wallet"
                                      THEN ParWallet(g, {"rembourse"}) \cup {p}
                                      ELSE ParWallet(g, {"rembourse"})
  BY <1>6, <1>7, <1>8 DEF ParWallet
<1>. QED BY <1>5, <1>6, <1>9, <1>10

\* The rows of a reason after the row of a settlement or of a refund.
LEMMA LignesDuWallet ==
  ASSUME IInv, IInv', NEW f \in Factures, NEW moyen, NEW motif, LigneDuWallet(f, moyen, motif),
         NEW g \in Factures, NEW autre
  PROVE  Cardinality(LignesDe(Titulaire[g], autre, g)') =
           IF g = f /\ autre = motif /\ moyen = "wallet"
           THEN Cardinality(LignesDe(Titulaire[g], autre, g)) + 1
           ELSE Cardinality(LignesDe(Titulaire[g], autre, g))
<1>1. Titulaire[f] \in Clients /\ Titulaire[g] \in Clients
  BY HypPaiements
<1>2. CASE moyen = "wallet"
  <2>1. PICK e \in Ecriture : e.motif = motif /\ e.facture = f /\ Ligne(Titulaire[f], e, 0)
    BY <1>2 DEF LigneDuWallet
  <2>2. Cardinality(LignesDe(Titulaire[g], autre, g)') =
          IF Titulaire[g] = Titulaire[f] /\ e.motif = autre /\ e.facture = g
          THEN Cardinality(LignesDe(Titulaire[g], autre, g)) + 1
          ELSE Cardinality(LignesDe(Titulaire[g], autre, g))
    BY <1>1, <2>1, LignesDeApres
  <2>. QED BY <1>2, <2>1, <2>2
<1>3. CASE moyen # "wallet"
  <2>1. LignesDe(Titulaire[g], autre, g)' = LignesDe(Titulaire[g], autre, g)
    BY <1>3 DEF LigneDuWallet, LignesDe, Lignes
  <2>. QED BY <1>3, <2>1
<1>. QED BY <1>2, <1>3

\* A movement for no invoice leaves the rows of the other reasons as they were.
LEMMA LignesHorsMotif ==
  ASSUME IInv, IInv', PasNeutre \/ PasMouvement
                      \/ \E r \in Requetes : \E c \in Clients : \E i \in Lignes(c) : PasAnnulation(r, c, i),
         NEW d \in Clients, NEW motif \in {"facture", "remboursement"}, NEW g
  PROVE  Cardinality(LignesDe(d, motif, g)') = Cardinality(LignesDe(d, motif, g))
<1>1. CASE PasNeutre
  <2>1. LignesDe(d, motif, g)' = LignesDe(d, motif, g)
    BY <1>1 DEF PasNeutre, LignesDe, Lignes
  <2>. QED BY <2>1
<1>2. ASSUME NEW c \in Clients, NEW e \in Ecriture, NEW i, Ligne(c, e, i), e.motif # motif
      PROVE  Cardinality(LignesDe(d, motif, g)') = Cardinality(LignesDe(d, motif, g))
  BY <1>2, LignesDeApres
<1>. QED BY <1>1, <1>2 DEF PasMouvement, PasAnnulation

LEMMA DebitsPas ==
  IInv /\ IInv' /\ DebitsDesReglements /\ [Next]_vars => DebitsDesReglements'
<1>. SUFFICES ASSUME IInv, IInv', DebitsDesReglements, [Next]_vars, NEW g \in Factures
     PROVE  Cardinality(LignesDe(Titulaire[g], "facture", g)') = Cardinality(ParWallet(g, Recu)')
  BY DEF DebitsDesReglements, ParWallet
<1>1. Cardinality(LignesDe(Titulaire[g], "facture", g)) = Cardinality(ParWallet(g, Recu))
  BY DEF DebitsDesReglements, ParWallet
<1>2. Titulaire[g] \in Clients
  BY HypPaiements
<1>3. CASE PasNeutre \/ PasMouvement
           \/ \E r \in Requetes : \E c \in Clients : \E i \in Lignes(c) : PasAnnulation(r, c, i)
  <2>1. UNCHANGED paiements
    BY <1>3 DEF PasNeutre, PasMouvement, PasAnnulation
  <2>2. ParWallet(g, Recu)' = ParWallet(g, Recu)
    BY <2>1 DEF ParWallet, PaiementsDe
  <2>. QED BY <1>1, <1>2, <1>3, <2>2, LignesHorsMotif
<1>4. ASSUME NEW r \in Requetes, NEW f \in Factures, NEW moyen \in Moyens, PasReglement(r, f, moyen)
      PROVE  Cardinality(LignesDe(Titulaire[g], "facture", g)') = Cardinality(ParWallet(g, Recu)')
  <2>1. LigneDuWallet(f, moyen, "facture") /\ paiements' = Encaisser(f, moyen)
    BY <1>4 DEF PasReglement
  <2>2. Cardinality(LignesDe(Titulaire[g], "facture", g)') =
          IF g = f /\ moyen = "wallet" THEN Cardinality(LignesDe(Titulaire[g], "facture", g)) + 1
                                       ELSE Cardinality(LignesDe(Titulaire[g], "facture", g))
    BY <2>1, LignesDuWallet
  <2>3. /\ ParWallet(g, Recu)' = IF g = f /\ moyen = "wallet"
                                 THEN ParWallet(g, Recu) \cup {Len(paiements) + 1}
                                 ELSE ParWallet(g, Recu)
        /\ Len(paiements) + 1 \notin ParWallet(g, Recu)
    BY <2>1, PaiementsRegles DEF ParWallet
  <2>4. IsFiniteSet(ParWallet(g, Recu))
    BY <1>2, EnsemblesFinis DEF IInv
  <2>. QED BY <1>1, <2>2, <2>3, <2>4, FS_AddElement
<1>5. ASSUME NEW r \in Requetes, NEW p \in DOMAIN paiements, NEW f \in Factures,
             PasRemboursement(r, p, f)
      PROVE  Cardinality(LignesDe(Titulaire[g], "facture", g)') = Cardinality(ParWallet(g, Recu)')
  <2>1. Cardinality(LignesDe(Titulaire[g], "facture", g)') =
          Cardinality(LignesDe(Titulaire[g], "facture", g))
    <3>1. LigneDuWallet(f, paiements[p].moyen, "remboursement")
      BY <1>5 DEF PasRemboursement
    <3>2. Cardinality(LignesDe(Titulaire[g], "facture", g)') =
            IF g = f /\ "facture" = "remboursement" /\ paiements[p].moyen = "wallet"
            THEN Cardinality(LignesDe(Titulaire[g], "facture", g)) + 1
            ELSE Cardinality(LignesDe(Titulaire[g], "facture", g))
      BY <3>1, LignesDuWallet
    <3>. QED BY <3>2
  <2>2. paiements[p].statut \in Recu
    BY <1>5, RequeteDe DEF PasRemboursement, Valide
  <2>3. ParWallet(g, Recu)' = ParWallet(g, Recu)
    BY <1>5, <2>2, PaiementsRembourses DEF PasRemboursement
  <2>. QED BY <1>1, <2>1, <2>3
<1>. QED BY <1>3, <1>4, <1>5, Effets

\* The debits of settlements and the wallet payments match, and each reversal is that
\* of one top-up (EcrituresAppariees), however the requests overlap.
THEOREM EcrituresToujoursAppariees == Spec => []EcrituresAppariees
<1>1. Init => DebitsDesReglements /\ AnnulationAppariee
  <2>. SUFFICES ASSUME Init PROVE DebitsDesReglements /\ AnnulationAppariee
    OBVIOUS
  <2>1. ASSUME NEW f \in Factures
        PROVE  /\ LignesDe(Titulaire[f], "facture", f) = {}
               /\ {p \in PaiementsDe(f, Recu) : paiements[p].moyen = "wallet"} = {}
    <3>1. Titulaire[f] \in Clients
      BY HypPaiements
    <3>. QED BY <3>1 DEF Init, LignesDe, Lignes, PaiementsDe
  <2>2. DebitsDesReglements
    BY <2>1 DEF DebitsDesReglements
  <2>3. AnnulationAppariee
    BY DEF Init, AnnulationAppariee, Lignes
  <2>. QED BY <2>2, <2>3
<1>2. DebitsDesReglements /\ AnnulationAppariee => EcrituresAppariees
  BY DEF EcrituresAppariees
<1>. QED BY <1>1, <1>2, Invariant, DebitsPas, AppariementPas, PTL DEF Spec


-----------------------------------------------------------------------------
(* Requests served one at a time                                            *)

\* There is one process: no request comes between the read of another and its
\* transaction.
EnSerie == \A r, s \in Requetes : r = s

\* What the request e read is still true.
Fraiche(e) ==
  /\ e.op = "regler" /\ e.moyen # "differe" => statut[e.facture] = "impayee"
  /\ e.op = "rembourser" => paiements[e.paiement].statut = "paye"
  /\ e.op = "annuler" => journal[e.client][e.ligne].annulePar = NonAnnule
  /\ e.op \in {"examiner", "payer"} => \A f \in e.restantes : statut[f] = "impayee"
  /\ e.op = "payer" => statut[e.facture] = "impayee" /\ e.facture \notin e.restantes

RequetesFraiches == \A r \in Requetes : Fraiche(req[r])

\* No two payments are received for an invoice.
UnSeulRecu == \A f \in Factures : \A p, q \in PaiementsDe(f, Recu) : p = q

LEMMA FraicheLibre == Fraiche(Libre) /\ Fraiche(Libre)'
BY DEF Fraiche, Libre

LEMMA FraicheArrivee ==
  ASSUME EnSerie, IInv, NEW r \in Requetes, Arrivee(r), NEW e, e = req'[r]
  PROVE  Fraiche(e)'
<1>0. req \in [Requetes -> Requete]
  BY DEF IInv, TypeOK
<1>1. CASE req' = req /\ Commencer(r)
  BY <1>1, FraicheLibre DEF Commencer
<1>2. ASSUME NEW c \in Clients, NEW i \in DOMAIN journal[c], LireEcriture(r, c, i)
      PROVE  Fraiche(e)'
  <2>1. e = [op |-> "annuler", client |-> c, ligne |-> i]
    BY <1>0, <1>2 DEF LireEcriture, Suivre
  <2>2. journal'[c][i].annulePar = NonAnnule
    BY <1>2 DEF LireEcriture, Annulable
  <2>. QED BY <2>1, <2>2 DEF Fraiche
<1>3. ASSUME NEW f \in Factures, Cloturer(r, f)
      PROVE  Fraiche(e)'
  <2>1. e = IF Emise(f) = "impayee" THEN [op |-> "examiner", restantes |-> {f}, carte |-> 0]
                                    ELSE Libre
    BY <1>0, <1>3 DEF Cloturer, Suivre
  <2>2. statut'[f] = Emise(f)
    BY <1>3 DEF Cloturer, IInv, TypeOK
  <2>3. CASE Emise(f) = "impayee"
    BY <2>1, <2>2, <2>3 DEF Fraiche
  <2>4. CASE Emise(f) # "impayee"
    BY <2>1, <2>4, FraicheLibre
  <2>. QED BY <2>3, <2>4
<1>4. ASSUME NEW f \in Factures, NEW moyen \in Moyens, LireFacture(r, f, moyen)
      PROVE  Fraiche(e)'
  <2>1. CASE e = [op |-> "echeance", facture |-> f, reglable |-> Reglable(f)]
    BY <2>1 DEF Fraiche
  <2>2. CASE Reglable(f) /\ e = [op |-> "regler", facture |-> f, moyen |-> moyen]
    BY <1>4, <2>2 DEF Fraiche, Reglable, LireFacture
  <2>. QED BY <1>0, <1>4, <2>1, <2>2 DEF LireFacture, Suivre
<1>5. ASSUME NEW p \in DOMAIN paiements, LirePaiement(r, p)
      PROVE  Fraiche(e)'
  <2>1. e = [op |-> "rembourser", paiement |-> p]
    BY <1>0, <1>5 DEF LirePaiement, Suivre
  <2>2. paiements'[p].statut = "paye"
    BY <1>5 DEF LirePaiement, Remboursable
  <2>. QED BY <2>1, <2>2 DEF Fraiche
<1>6. ASSUME NEW c \in Clients, NEW m \in Montants, RechargerAccepte(r, c, m)
      PROVE  Fraiche(e)'
  <2>1. e = [op |-> "lister", carte |-> Len(cartes) + 1]
    BY <1>0, <1>6 DEF RechargerAccepte, Suivre
  <2>. QED BY <2>1 DEF Fraiche
<1>. QED BY <1>1, <1>2, <1>3, <1>4, <1>5, <1>6
     DEF Arrivee, Crediter, Debiter, RechargerRefuse, Generer

LEMMA FraicheAvancer ==
  ASSUME EnSerie, IInv, NEW r \in Requetes, Fraiche(req[r]), Avancer(r), NEW e, e = req'[r]
  PROVE  Fraiche(e)'
<1>0. req \in [Requetes -> Requete] /\ req[r] \in Requete
  BY DEF IInv, TypeOK
<1>1. CASE req' = [req EXCEPT ![r] = Libre]
  BY <1>0, <1>1, FraicheLibre
<1>2. CASE PoserEcheance(r)
  <2>1. CASE e = [op |-> "regler", facture |-> req[r].facture, moyen |-> "differe"]
    BY <2>1 DEF Fraiche
  <2>. QED BY <1>0, <1>1, <1>2, <2>1 DEF PoserEcheance, Suivre
<1>3. CASE ListerImpayees(r)
  <2>1. PICK S : S = Impayees(cartes[req[r].carte].client)
    OBVIOUS
  <2>2. e = [op |-> "examiner", restantes |-> S, carte |-> req[r].carte]
    BY <1>0, <1>3, <2>1 DEF ListerImpayees, Suivre
  <2>3. \A f \in S : statut'[f] = "impayee"
    BY <1>3, <2>1 DEF ListerImpayees, Impayees
  <2>. QED BY <2>2, <2>3 DEF Fraiche
<1>4. CASE ExaminerSuivante(r)
  <2>1. \A f \in req[r].restantes : statut[f] = "impayee"
    BY <1>4 DEF ExaminerSuivante, Fraiche
  <2>2. ASSUME NEW f \in req[r].restantes,
               Suivre(r, [op |-> "payer", facture |-> f,
                          restantes |-> req[r].restantes \ {f}, carte |-> req[r].carte])
        PROVE  Fraiche(e)'
    <3>1. PICK S : S = req[r].restantes \ {f}
      OBVIOUS
    <3>2. e = [op |-> "payer", facture |-> f, restantes |-> S, carte |-> req[r].carte]
      BY <1>0, <2>2, <3>1 DEF Suivre
    <3>3. f \notin S /\ statut'[f] = "impayee" /\ \A g \in S : statut'[g] = "impayee"
      BY <1>4, <2>1, <3>1 DEF ExaminerSuivante
    <3>. QED BY <3>2, <3>3 DEF Fraiche
  <2>. QED BY <1>1, <1>4, <2>2 DEF ExaminerSuivante, Repondre, Suivre
<1>5. CASE PayerSuivante(r)
  <2>1. PICK f \in Factures, S \in SUBSET Factures : f = req[r].facture /\ S = req[r].restantes
    BY <1>0, <1>5, Champs DEF PayerSuivante
  <2>2. f \notin S /\ \A g \in S : statut[g] = "impayee"
    BY <1>5, <2>1 DEF PayerSuivante, Fraiche
  <2>3. CASE Repondre(r, "422")
    BY <1>1, <2>3 DEF Repondre, Suivre
  <2>4. CASE /\ Regler(f, "wallet")
             /\ Suivre(r, [op |-> "examiner", restantes |-> S, carte |-> req[r].carte])
    <3>1. e = [op |-> "examiner", restantes |-> S, carte |-> req[r].carte]
      BY <1>0, <2>4 DEF Suivre
    <3>2. \A g \in S : statut'[g] = "impayee"
      BY <2>2, <2>4 DEF Regler, IInv, TypeOK
    <3>. QED BY <3>1, <3>2 DEF Fraiche
  <2>. QED BY <1>5, <2>1, <2>3, <2>4 DEF PayerSuivante
<1>6. CASE AnnulerRechargement(r) \/ Rembourser(r) \/ ReglerFacture(r) \/ FinirReglements(r)
  BY <1>1, <1>6 DEF AnnulerRechargement, Rembourser, ReglerFacture, FinirReglements, Repondre, Suivre
<1>. QED BY <1>2, <1>3, <1>4, <1>5, <1>6 DEF Avancer

\* With one process nothing changes between what it reads and what it does with it.
LEMMA FraichesPas ==
  ASSUME EnSerie, IInv, RequetesFraiches, [Next]_vars
  PROVE  RequetesFraiches'
<1>1. ASSUME NEW r \in Requetes, NEW e, e = req'[r]
      PROVE  Fraiche(e)'
  <2>1. CASE UNCHANGED vars
    <3>1. Fraiche(e)
      BY <1>1, <2>1 DEF RequetesFraiches, vars
    <3>. QED BY <2>1, <3>1 DEF Fraiche, vars
  <2>2. ASSUME NEW s \in Requetes, Arrivee(s) \/ Avancer(s)
        PROVE  Fraiche(e)'
    <3>1. s = r
      BY DEF EnSerie
    <3>. QED BY <1>1, <2>2, <3>1, FraicheArrivee, FraicheAvancer DEF RequetesFraiches
  <2>. QED BY <2>1, <2>2 DEF Next, Epuise
<1>2. SUFFICES ASSUME NEW r \in Requetes PROVE Fraiche(req[r])'
  BY DEF RequetesFraiches
<1>3. PICK e : e = req'[r]
  OBVIOUS
<1>. QED BY <1>1, <1>3 DEF Fraiche


\* An invoice that a request settles now is unpaid; a payment it refunds is held.
LEMMA ReglementFrais ==
  ASSUME IInv, RequetesFraiches, NEW r \in Requetes, NEW f \in Factures, NEW moyen \in Moyens,
         PasReglement(r, f, moyen), moyen # "differe"
  PROVE  statut[f] = "impayee" /\ PaiementsDe(f, Recu) = {}
<1>1. statut[f] = "impayee"
  BY DEF RequetesFraiches, Fraiche, PasReglement
<1>. QED BY <1>1 DEF IInv, StatutJustifie

LEMMA RemboursementFrais ==
  ASSUME IInv, RequetesFraiches, NEW r \in Requetes, NEW p \in DOMAIN paiements,
         NEW f \in Factures, PasRemboursement(r, p, f)
  PROVE  paiements[p].statut = "paye" /\ p \in PaiementsDe(f, Recu)
BY DEF RequetesFraiches, Fraiche, PasRemboursement, PaiementsDe, Recu

LEMMA UnSeulPas ==
  ASSUME IInv, RequetesFraiches, UnSeulRecu, [Next]_vars
  PROVE  UnSeulRecu'
<1>. SUFFICES ASSUME NEW g \in Factures PROVE \A p, q \in PaiementsDe(g, Recu)' : p = q
  BY DEF UnSeulRecu
<1>1. \A p, q \in PaiementsDe(g, Recu) : p = q
  BY DEF UnSeulRecu
<1>2. CASE UNCHANGED paiements
  BY <1>1, <1>2 DEF PaiementsDe
<1>3. ASSUME NEW r \in Requetes, NEW f \in Factures, NEW moyen \in Moyens, PasReglement(r, f, moyen)
      PROVE  \A p, q \in PaiementsDe(g, Recu)' : p = q
  <2>1. PaiementsDe(g, Recu)' = IF g = f /\ moyen # "differe"
                                THEN PaiementsDe(g, Recu) \cup {Len(paiements) + 1}
                                ELSE PaiementsDe(g, Recu)
    BY <1>3, PaiementsRegles DEF PasReglement
  <2>2. g = f /\ moyen # "differe" => PaiementsDe(g, Recu) = {}
    BY <1>3, ReglementFrais
  <2>. QED BY <1>1, <2>1, <2>2
<1>4. ASSUME NEW r \in Requetes, NEW p \in DOMAIN paiements, NEW f \in Factures,
             PasRemboursement(r, p, f)
      PROVE  PaiementsDe(g, Recu)' = PaiementsDe(g, Recu)
  <2>1. paiements[p].statut \in Recu
    BY <1>4, RemboursementFrais DEF Recu
  <2>. QED BY <1>4, <2>1, PaiementsRembourses DEF PasRemboursement
<1>. QED BY <1>1, <1>2, <1>3, <1>4, Effets DEF PasNeutre, PasMouvement, PasAnnulation

LEMMA RemboursementPas ==
  ASSUME IInv, IInv', RequetesFraiches, RemboursementUnique, [Next]_vars
  PROVE  RemboursementUnique'
<1>. SUFFICES ASSUME NEW g \in Factures
     PROVE  Cardinality(LignesDe(Titulaire[g], "remboursement", g)')
              = Cardinality(ParWallet(g, {"rembourse"})')
  BY DEF RemboursementUnique, ParWallet
<1>1. Cardinality(LignesDe(Titulaire[g], "remboursement", g))
        = Cardinality(ParWallet(g, {"rembourse"}))
  BY DEF RemboursementUnique, ParWallet
<1>2. Titulaire[g] \in Clients
  BY HypPaiements
<1>3. CASE PasNeutre \/ PasMouvement
           \/ \E r \in Requetes : \E c \in Clients : \E i \in Lignes(c) : PasAnnulation(r, c, i)
  <2>1. UNCHANGED paiements
    BY <1>3 DEF PasNeutre, PasMouvement, PasAnnulation
  <2>2. ParWallet(g, {"rembourse"})' = ParWallet(g, {"rembourse"})
    BY <2>1 DEF ParWallet, PaiementsDe
  <2>. QED BY <1>1, <1>2, <1>3, <2>2, LignesHorsMotif
<1>4. ASSUME NEW r \in Requetes, NEW f \in Factures, NEW moyen \in Moyens, PasReglement(r, f, moyen)
      PROVE  Cardinality(LignesDe(Titulaire[g], "remboursement", g)')
               = Cardinality(ParWallet(g, {"rembourse"})')
  <2>1. LigneDuWallet(f, moyen, "facture") /\ paiements' = Encaisser(f, moyen)
    BY <1>4 DEF PasReglement
  <2>2. Cardinality(LignesDe(Titulaire[g], "remboursement", g)') =
          IF g = f /\ "remboursement" = "facture" /\ moyen = "wallet"
          THEN Cardinality(LignesDe(Titulaire[g], "remboursement", g)) + 1
          ELSE Cardinality(LignesDe(Titulaire[g], "remboursement", g))
    BY <2>1, LignesDuWallet
  <2>3. ParWallet(g, {"rembourse"})' = ParWallet(g, {"rembourse"})
    BY <2>1, PaiementsRegles
  <2>. QED BY <1>1, <2>2, <2>3
<1>5. ASSUME NEW r \in Requetes, NEW p \in DOMAIN paiements, NEW f \in Factures,
             PasRemboursement(r, p, f)
      PROVE  Cardinality(LignesDe(Titulaire[g], "remboursement", g)')
               = Cardinality(ParWallet(g, {"rembourse"})')
  <2>0. paiements[p].moyen \in Moyens
    <3>1. paiements[p] \in Paiement
      BY DEF IInv, TypeOK
    <3>. QED BY <3>1 DEF Paiement
  <2>1. PICK moyen \in Moyens : /\ moyen = paiements[p].moyen /\ f = paiements[p].facture
                                /\ LigneDuWallet(f, moyen, "remboursement")
    BY <1>5, <2>0 DEF PasRemboursement
  <2>2. Cardinality(LignesDe(Titulaire[g], "remboursement", g)') =
          IF g = f /\ moyen = "wallet"
          THEN Cardinality(LignesDe(Titulaire[g], "remboursement", g)) + 1
          ELSE Cardinality(LignesDe(Titulaire[g], "remboursement", g))
    <3>1. LigneDuWallet(f, moyen, "remboursement")
      BY <2>1
    <3>. QED BY <3>1, LignesDuWallet
  <2>3. paiements[p].statut = "paye"
    BY <1>5, RemboursementFrais
  <2>4. ParWallet(g, {"rembourse"})' = IF g = paiements[p].facture /\ paiements[p].moyen = "wallet"
                                       THEN ParWallet(g, {"rembourse"}) \cup {p}
                                       ELSE ParWallet(g, {"rembourse"})
    BY <1>5, <2>3, PaiementsRembourses DEF PasRemboursement, Recu
  <2>5. p \notin ParWallet(g, {"rembourse"})
    BY <2>3 DEF ParWallet, PaiementsDe
  <2>6. IsFiniteSet(ParWallet(g, {"rembourse"}))
    BY <1>2, EnsemblesFinis DEF IInv
  <2>7. Cardinality(ParWallet(g, {"rembourse"}) \cup {p}) = Cardinality(ParWallet(g, {"rembourse"})) + 1
    BY <2>5, <2>6, FS_AddElement
  <2>. QED BY <1>1, <2>1, <2>2, <2>4, <2>7
<1>. QED BY <1>3, <1>4, <1>5, Effets

\* The rows of c that are marked as reversed.
Marquees(c) == {i \in Lignes(c) : journal[c][i].annulePar # NonAnnule}

\* A new row adds to the marked rows the one it marks.
LEMMA MarqueesApres ==
  ASSUME IInv, IInv', NEW c \in Clients, NEW e \in Ecriture, NEW i \in Nat, Ligne(c, e, i),
         i = 0 \/ i \in Lignes(c), NEW d \in Clients
  PROVE  /\ IsFiniteSet(Marquees(d))
         /\ Marquees(d)' = IF d = c /\ i # 0 THEN Marquees(d) \cup {i} ELSE Marquees(d)
<1>1. PICK n \in Nat : n = Len(journal[c])
  BY DEF IInv, TypeOK
<1>2. /\ journal[c] \in Seq(Ecriture) /\ Lignes(c) = 1..n
      /\ journal'[c] \in Seq(Ecriture) /\ Lignes(c)' = 1..(n + 1) /\ journal'[c][n + 1] = e
      /\ e.annulePar = NonAnnule
  BY <1>1 DEF IInv, TypeOK, Lignes, Ligne
<1>3. IsFiniteSet(Marquees(d))
  <2>1. IsFiniteSet(1..Len(journal[d])) /\ Lignes(d) = 1..Len(journal[d])
    BY LenProperties, FS_Interval DEF IInv, TypeOK, Lignes
  <2>2. Marquees(d) \in SUBSET Lignes(d)
    BY DEF Marquees
  <2>. QED BY <2>1, <2>2, FS_Subset
<1>4. CASE d # c
  BY <1>3, <1>4 DEF Ligne, Marquees, Lignes
<1>5. CASE d = c
  <2>1. ASSUME NEW k \in 1..n
        PROVE  journal'[c][k].annulePar = IF k = i THEN n + 1 ELSE journal[c][k].annulePar
    <3>1. journal[c][k] \in Ecriture
      BY <1>1, <1>2, ElementOfSeq
    <3>2. journal'[c][k] = IF k = i THEN [journal[c][k] EXCEPT !.annulePar = n + 1]
                                    ELSE journal[c][k]
      BY <1>1, <1>2 DEF Ligne
    <3>. QED BY <3>1, <3>2 DEF Ecriture
  <2>2. n + 1 # NonAnnule
    BY <1>1 DEF NonAnnule
  <2>3. Marquees(d)' = IF i # 0 THEN Marquees(d) \cup {i} ELSE Marquees(d)
    <3>1. /\ Marquees(d) = {k \in 1..n : journal[c][k].annulePar # NonAnnule}
          /\ Marquees(d)' = {k \in 1..(n + 1) : journal'[c][k].annulePar # NonAnnule}
      BY <1>2, <1>5 DEF Marquees
    <3>2. Marquees(d)' = {k \in 1..n : k = i \/ journal[c][k].annulePar # NonAnnule}
      BY <1>1, <1>2, <2>1, <2>2, <3>1
    <3>3. CASE i = 0
      BY <3>1, <3>2, <3>3
    <3>4. CASE i # 0
      BY <1>2, <3>1, <3>2, <3>4
    <3>. QED BY <3>3, <3>4
  <2>. QED BY <1>3, <1>5, <2>3
<1>. QED BY <1>4, <1>5


LEMMA AnnulationUniquePas ==
  ASSUME IInv, IInv', RequetesFraiches, AnnulationUnique, [Next]_vars
  PROVE  AnnulationUnique'
<1>1. SUFFICES ASSUME NEW d \in Clients
      PROVE  Cardinality(LignesDe(d, "annulation", SansFacture)') = Cardinality(Marquees(d)')
  BY DEF AnnulationUnique, Marquees
<1>2. Cardinality(LignesDe(d, "annulation", SansFacture)) = Cardinality(Marquees(d))
  BY DEF AnnulationUnique, Marquees
<1>3. ASSUME NEW c \in Clients, NEW e \in Ecriture, Ligne(c, e, 0), e.motif # "annulation"
      PROVE  Cardinality(LignesDe(d, "annulation", SansFacture)') = Cardinality(Marquees(d)')
  <2>1. Cardinality(LignesDe(d, "annulation", SansFacture)')
          = Cardinality(LignesDe(d, "annulation", SansFacture))
    BY <1>3, LignesDeApres
  <2>2. PICK i \in Nat : i = 0
    OBVIOUS
  <2>3. Ligne(c, e, i)
    BY <1>3, <2>2
  <2>4. Marquees(d)' = Marquees(d)
    BY <2>2, <2>3, MarqueesApres
  <2>. QED BY <1>2, <2>1, <2>4
<1>4. CASE UNCHANGED journal
  <2>1. /\ LignesDe(d, "annulation", SansFacture)' = LignesDe(d, "annulation", SansFacture)
        /\ Marquees(d)' = Marquees(d)
    BY <1>4 DEF LignesDe, Marquees, Lignes
  <2>. QED BY <1>2, <2>1
<1>5. CASE PasNeutre \/ PasMouvement
  BY <1>3, <1>4, <1>5 DEF PasNeutre, PasMouvement
<1>6. ASSUME NEW f \in Factures, NEW moyen, NEW motif, motif # "annulation",
             LigneDuWallet(f, moyen, motif)
      PROVE  Cardinality(LignesDe(d, "annulation", SansFacture)') = Cardinality(Marquees(d)')
  <2>1. Titulaire[f] \in Clients
    BY HypPaiements
  <2>. QED BY <1>3, <1>4, <1>6, <2>1 DEF LigneDuWallet
<1>7. ASSUME NEW r \in Requetes, NEW c \in Clients, NEW i \in Lignes(c), PasAnnulation(r, c, i)
      PROVE  Cardinality(LignesDe(d, "annulation", SansFacture)') = Cardinality(Marquees(d)')
  <2>1. PICK e \in Ecriture : e.motif = "annulation" /\ e.facture = SansFacture /\ Ligne(c, e, i)
    BY <1>7 DEF PasAnnulation
  <2>2. i \in Nat /\ i # 0
    BY DEF Lignes, IInv, TypeOK
  <2>3. journal[c][i].annulePar = NonAnnule
    BY <1>7 DEF RequetesFraiches, Fraiche, PasAnnulation
  <2>4. Cardinality(LignesDe(d, "annulation", SansFacture)') =
          IF d = c THEN Cardinality(LignesDe(d, "annulation", SansFacture)) + 1
                   ELSE Cardinality(LignesDe(d, "annulation", SansFacture))
    BY <2>1, LignesDeApres
  <2>5. IsFiniteSet(Marquees(d)) /\ Marquees(d)' = IF d = c THEN Marquees(d) \cup {i} ELSE Marquees(d)
    BY <2>1, <2>2, MarqueesApres
  <2>6. d = c => i \notin Marquees(d)
    BY <2>3 DEF Marquees
  <2>7. Cardinality(Marquees(d) \cup {i}) = IF i \in Marquees(d) THEN Cardinality(Marquees(d))
                                                                 ELSE Cardinality(Marquees(d)) + 1
    BY <2>5, FS_AddElement
  <2>. QED BY <1>2, <2>4, <2>5, <2>6, <2>7
<1>8. ASSUME NEW r \in Requetes, NEW f \in Factures, NEW moyen \in Moyens, PasReglement(r, f, moyen)
      PROVE  Cardinality(LignesDe(d, "annulation", SansFacture)') = Cardinality(Marquees(d)')
  <2>1. LigneDuWallet(f, moyen, "facture")
    BY <1>8 DEF PasReglement
  <2>. QED BY <1>6, <2>1
<1>9. ASSUME NEW r \in Requetes, NEW p \in DOMAIN paiements, NEW f \in Factures,
             PasRemboursement(r, p, f)
      PROVE  Cardinality(LignesDe(d, "annulation", SansFacture)') = Cardinality(Marquees(d)')
  <2>1. LigneDuWallet(f, paiements[p].moyen, "remboursement")
    BY <1>9 DEF PasRemboursement
  <2>. QED BY <1>6, <2>1
<1>. QED BY <1>5, <1>7, <1>8, <1>9, Effets

\* What holds of requests served one at a time.
Serie == RequetesFraiches /\ UnSeulRecu /\ RemboursementUnique /\ AnnulationUnique

LEMMA SerieInit == Init => Serie
<1>. SUFFICES ASSUME Init PROVE Serie
  OBVIOUS
<1>1. \A c \in Clients : \A f, motif, s :
        /\ LignesDe(c, motif, f) = {} /\ PaiementsDe(f, s) = {}
        /\ ParWallet(f, s) = {}
  BY DEF Init, LignesDe, Lignes, PaiementsDe, ParWallet
<1>2. \A c \in Clients : LignesDe(c, "annulation", SansFacture) = {} /\ Marquees(c) = {}
  BY DEF Init, LignesDe, Lignes, Marquees
<1>3. RequetesFraiches
  BY FraicheLibre DEF Init, RequetesFraiches
<1>4. UnSeulRecu
  BY <1>1, HypPaiements DEF Init, UnSeulRecu, PaiementsDe
<1>5. RemboursementUnique
  <2>1. \A f \in Factures : Titulaire[f] \in Clients
    BY HypPaiements
  <2>. QED BY <1>1, <2>1 DEF RemboursementUnique, ParWallet
<1>6. AnnulationUnique
  BY <1>2 DEF AnnulationUnique, Marquees
<1>. QED BY <1>3, <1>4, <1>5, <1>6 DEF Serie

LEMMA SeriePas == EnSerie /\ IInv /\ IInv' /\ Serie /\ [Next]_vars => Serie'
BY FraichesPas, UnSeulPas, RemboursementPas, AnnulationUniquePas DEF Serie

LEMMA SerieInvariante == ASSUME EnSerie PROVE Spec => []Serie
BY SerieInit, SeriePas, Invariant, PTL DEF Spec

\* Served one at a time, requests settle an invoice once, refund a payment once and
\* cancel a top-up once (UneSeuleFois).
THEOREM ToujoursUneSeuleFois == ASSUME EnSerie PROVE Spec => []UneSeuleFois
<1>1. IInv /\ Serie => UneSeuleFois
  <2>. SUFFICES ASSUME IInv, UnSeulRecu, NEW f \in Factures
       PROVE  Cardinality(PaiementsDe(f, Recu)) <= 1
    BY DEF UneSeuleFois, Serie, UnSeulReglement
  <2>1. Titulaire[f] \in Clients
    BY HypPaiements
  <2>2. IsFiniteSet(PaiementsDe(f, Recu))
    BY <2>1, EnsemblesFinis DEF IInv
  <2>3. CASE PaiementsDe(f, Recu) = {}
    BY <2>3, FS_EmptySet
  <2>4. ASSUME NEW p \in PaiementsDe(f, Recu) PROVE Cardinality(PaiementsDe(f, Recu)) = 1
    <3>1. PaiementsDe(f, Recu) = {p}
      BY DEF UnSeulRecu
    <3>. QED BY <3>1, FS_Singleton
  <2>. QED BY <2>3, <2>4
<1>. QED BY <1>1, Invariant, SerieInvariante, PTL


-----------------------------------------------------------------------------
(* Served one at a time, requests implement the life of an invoice          *)

Nets == [f \in Factures |-> Net(f)]

\* What the wallet gave for f: its payments received, less those given back.
LEMMA NetDesPaiements ==
  ASSUME DebitsDesReglements, RemboursementUnique, NEW f \in Factures
  PROVE  Net(f) = Ttc[f] * (Cardinality(ParWallet(f, Recu))
                             - Cardinality(ParWallet(f, {"rembourse"})))
BY DEF Net, DebitsDesReglements, RemboursementUnique, ParWallet

\* The rows of the other invoices, and all of them when the wallet is not the means,
\* do not change.
LEMMA LignesIntactes ==
  ASSUME IInv, IInv', NEW f \in Factures, NEW moyen, NEW motif, LigneDuWallet(f, moyen, motif),
         NEW g \in Factures, g # f \/ moyen # "wallet", NEW autre
  PROVE  Cardinality(LignesDe(Titulaire[g], autre, g)') = Cardinality(LignesDe(Titulaire[g], autre, g))
BY LignesDuWallet

\* Once its payment is given back, the wallet gave nothing for f.
LEMMA NetNul ==
  ASSUME TypeOK, DebitsDesReglements, RemboursementUnique, NEW f \in Factures,
         ParWallet(f, Recu) = ParWallet(f, {"rembourse"})
  PROVE  Net(f) = 0
<1>1. PICK n : n = Cardinality(ParWallet(f, Recu))
  OBVIOUS
<1>2. n \in Nat
  <2>1. Titulaire[f] \in Clients
    BY HypPaiements
  <2>. QED BY <1>1, <2>1, EnsemblesFinis
<1>3. Net(f) = Ttc[f] * (n - n)
  BY <1>1, NetDesPaiements
<1>4. n - n = 0 /\ Ttc[f] \in Nat
  BY <1>2, HypPaiements
<1>5. Ttc[f] * 0 = 0
  BY <1>4
<1>. QED BY <1>3, <1>4, <1>5

\* The same fact of the next state.
LEMMA NetNulApres ==
  (TypeOK /\ DebitsDesReglements /\ RemboursementUnique =>
     \A f \in Factures : ParWallet(f, Recu) = ParWallet(f, {"rembourse"}) => Net(f) = 0)'
<1>1. TypeOK /\ DebitsDesReglements /\ RemboursementUnique =>
        \A f \in Factures : ParWallet(f, Recu) = ParWallet(f, {"rembourse"}) => Net(f) = 0
  BY NetNul
<1>. QED BY <1>1, PTL

\* The sums of the invoices whose rows did not change.
LEMMA NetInchange ==
  ASSUME NEW f \in Factures,
         \A motif \in {"facture", "remboursement"} :
           Cardinality(LignesDe(Titulaire[f], motif, f)') = Cardinality(LignesDe(Titulaire[f], motif, f))
  PROVE  Net(f)' = Net(f)
BY DEF Net

\* A settlement: f, unpaid, is paid, and its amount is taken from the wallet or nothing.
LEMMA PasSolder ==
  ASSUME EnSerie, IInv, IInv', DebitsDesReglements, Serie, NEW r \in Requetes,
         NEW f \in Factures, NEW moyen \in Moyens, PasReglement(r, f, moyen)
  PROVE  F!Solder(f) \/ UNCHANGED <<statut, Nets>>
<1>1. LigneDuWallet(f, moyen, "facture")
  BY DEF PasReglement
<1>2. ASSUME NEW g \in Factures, g # f \/ moyen # "wallet" PROVE Net(g)' = Net(g)
  <2>. QED BY <1>1, <1>2, LignesIntactes, NetInchange
<1>3. CASE moyen # "wallet"
  <2>1. UNCHANGED Nets
    BY <1>2, <1>3 DEF Nets
  <2>2. CASE moyen = "differe"
    BY <2>1, <2>2 DEF PasReglement
  <2>3. CASE moyen # "differe"
    <3>1. statut[f] = "impayee" /\ statut' = [statut EXCEPT ![f] = "payee"]
      BY <2>3, ReglementFrais DEF PasReglement, Serie
    <3>. QED BY <2>1, <3>1 DEF F!Solder, Nets
  <2>. QED BY <2>2, <2>3
<1>4. CASE moyen = "wallet"
  <2>1. /\ statut[f] = "impayee" /\ PaiementsDe(f, Recu) = {}
        /\ statut' = [statut EXCEPT ![f] = "payee"]
    BY <1>4, ReglementFrais DEF PasReglement, Serie
  <2>2. ParWallet(f, Recu) = {} /\ ParWallet(f, {"rembourse"}) = {}
    BY <2>1 DEF ParWallet, PaiementsDe, Recu
  <2>3. /\ Cardinality(LignesDe(Titulaire[f], "facture", f)) = 0
        /\ Cardinality(LignesDe(Titulaire[f], "remboursement", f)) = 0
    BY <2>2, FS_EmptySet DEF DebitsDesReglements, Serie, RemboursementUnique, ParWallet
  <2>4. /\ Cardinality(LignesDe(Titulaire[f], "facture", f)') = 1
        /\ Cardinality(LignesDe(Titulaire[f], "remboursement", f)') = 0
    <3>1. Cardinality(LignesDe(Titulaire[f], "facture", f)') =
            Cardinality(LignesDe(Titulaire[f], "facture", f)) + 1
      BY <1>1, <1>4, LignesDuWallet
    <3>2. Cardinality(LignesDe(Titulaire[f], "remboursement", f)') =
            Cardinality(LignesDe(Titulaire[f], "remboursement", f))
      BY <1>1, LignesDuWallet
    <3>. QED BY <2>3, <3>1, <3>2
  <2>5. Ttc[f] \in Nat
    BY HypPaiements
  <2>6. Net(f)' = Ttc[f]
    <3>1. Net(f)' = Ttc[f] * (1 - 0)
      BY <2>4 DEF Net
    <3>2. Ttc[f] * (1 - 0) = Ttc[f]
      BY <2>5
    <3>. QED BY <3>1, <3>2
  <2>7. Nets' = [Nets EXCEPT ![f] = Ttc[f]]
    BY <1>2, <2>6 DEF Nets
  <2>. QED BY <2>1, <2>7 DEF F!Solder, Nets
<1>. QED BY <1>3, <1>4

\* A refund: f, paid, is refunded, and its wallet gave nothing for it any more.
LEMMA PasRendre ==
  ASSUME EnSerie, IInv, IInv', DebitsDesReglements', Serie, Serie', NEW r \in Requetes,
         NEW p \in DOMAIN paiements, NEW f \in Factures, PasRemboursement(r, p, f)
  PROVE  F!Rendre(f)
<1>1. /\ LigneDuWallet(f, paiements[p].moyen, "remboursement")
      /\ paiements' = [paiements EXCEPT ![p].statut = "rembourse"]
      /\ statut' = [statut EXCEPT ![f] = "remboursee"]
      /\ paiements[p].facture = f
  BY DEF PasRemboursement
<1>2. paiements[p].statut = "paye" /\ p \in PaiementsDe(f, Recu) /\ paiements[p].statut \in Recu
  BY RemboursementFrais DEF Serie, Recu
<1>3. statut[f] = "payee"
  <2>1. statut[f] \notin {"absente", "impayee"}
    BY <1>2 DEF IInv, StatutJustifie
  <2>2. statut[f] # "remboursee"
    <3>1. SUFFICES ASSUME statut[f] = "remboursee" PROVE FALSE
      OBVIOUS
    <3>2. PICK q \in PaiementsDe(f, {"rembourse"}) : TRUE
      BY <3>1 DEF IInv, StatutJustifie
    <3>3. q \in PaiementsDe(f, Recu) /\ paiements[q].statut = "rembourse"
      BY <3>2 DEF PaiementsDe, Recu
    <3>4. q = p
      BY <1>2, <3>3 DEF Serie, UnSeulRecu
    <3>. QED BY <1>2, <3>3, <3>4
  <2>. QED BY <2>1, <2>2 DEF IInv, TypeOK
<1>4. ParWallet(f, Recu)' = ParWallet(f, {"rembourse"})'
  <2>1. PaiementsDe(f, Recu)' = PaiementsDe(f, Recu)
    BY <1>1, <1>2, PaiementsRembourses
  <2>2. PaiementsDe(f, Recu) = {p}
    BY <1>2 DEF Serie, UnSeulRecu
  <2>3. PaiementsDe(f, {"rembourse"})' = PaiementsDe(f, {"rembourse"}) \cup {p}
    BY <1>1, <1>2, PaiementsRembourses
  <2>4. PaiementsDe(f, {"rembourse"}) \subseteq PaiementsDe(f, Recu)
    BY DEF PaiementsDe, Recu
  <2>. QED BY <2>1, <2>2, <2>3, <2>4 DEF ParWallet
<1>5. Net(f)' = 0
  <2>1. TypeOK' /\ DebitsDesReglements' /\ RemboursementUnique'
    BY DEF IInv, Serie
  <2>. QED BY <1>4, <2>1, NetNulApres
<1>6. ASSUME NEW g \in Factures, g # f PROVE Net(g)' = Net(g)
  <2>1. ASSUME NEW autre \in {"facture", "remboursement"}
        PROVE  Cardinality(LignesDe(Titulaire[g], autre, g)')
                 = Cardinality(LignesDe(Titulaire[g], autre, g))
    BY <1>1, <1>6, LignesDuWallet
  <2>. QED BY <2>1, NetInchange
<1>7. Nets' = [Nets EXCEPT ![f] = 0]
  BY <1>5, <1>6 DEF Nets
<1>. QED BY <1>1, <1>3, <1>7 DEF F!Rendre, Nets

LEMMA PasFacture ==
  ASSUME EnSerie, IInv, IInv', DebitsDesReglements, DebitsDesReglements', Serie, Serie',
         [Next]_vars
  PROVE  F!Next \/ UNCHANGED <<statut, Nets>>
<1>1. CASE PasNeutre \/ PasMouvement
           \/ \E r \in Requetes : \E c \in Clients : \E i \in Lignes(c) : PasAnnulation(r, c, i)
  <2>1. ASSUME NEW g \in Factures PROVE Net(g)' = Net(g)
    <3>1. Titulaire[g] \in Clients
      BY HypPaiements
    <3>2. \A motif \in {"facture", "remboursement"} :
            Cardinality(LignesDe(Titulaire[g], motif, g)') = Cardinality(LignesDe(Titulaire[g], motif, g))
      BY <1>1, <3>1, LignesHorsMotif
    <3>. QED BY <3>2, NetInchange
  <2>2. UNCHANGED Nets
    BY <2>1 DEF Nets
  <2>3. \/ UNCHANGED statut
        \/ \E f \in Factures : statut[f] = "absente" /\ statut' = [statut EXCEPT ![f] = "impayee"]
    BY <1>1 DEF PasNeutre, PasMouvement, PasAnnulation
  <2>. QED BY <2>2, <2>3 DEF F!Next, F!Emettre, Nets
<1>2. ASSUME NEW r \in Requetes, NEW f \in Factures, NEW moyen \in Moyens, PasReglement(r, f, moyen)
      PROVE  F!Next \/ UNCHANGED <<statut, Nets>>
  BY <1>2, PasSolder DEF F!Next
<1>3. ASSUME NEW r \in Requetes, NEW p \in DOMAIN paiements, NEW f \in Factures,
             PasRemboursement(r, p, f)
      PROVE  F!Next
  BY <1>3, PasRendre DEF F!Next
<1>. QED BY <1>1, <1>2, <1>3, Effets

LEMMA DebitsInvariants == Spec => []DebitsDesReglements
<1>1. EcrituresAppariees => DebitsDesReglements
  BY DEF EcrituresAppariees
<1>. QED BY <1>1, EcrituresToujoursAppariees, PTL

\* Served one at a time, requests implement CycleFacture: an invoice is issued, settled
\* once and refunded once, and what its wallet gave for it is its amount from the
\* settlement to the refund.
THEOREM CycleFactureImplemente == ASSUME EnSerie PROVE Spec => ImplementeCycleFacture
<1>1. Init => F!Init
  <2>. SUFFICES ASSUME Init PROVE F!Init
    OBVIOUS
  <2>1. ASSUME NEW f \in Factures PROVE Net(f) = 0
    <3>1. Titulaire[f] \in Clients /\ Ttc[f] \in Nat
      BY HypPaiements
    <3>2. LignesDe(Titulaire[f], "facture", f) = {} /\ LignesDe(Titulaire[f], "remboursement", f) = {}
      BY <3>1 DEF Init, LignesDe, Lignes
    <3>3. Net(f) = Ttc[f] * (0 - 0)
      BY <3>2, FS_EmptySet DEF Net
    <3>. QED BY <3>1, <3>3
  <2>. QED BY <2>1 DEF Init, F!Init
<1>2. /\ IInv /\ IInv' /\ DebitsDesReglements /\ DebitsDesReglements' /\ Serie /\ Serie'
      /\ [Next]_vars
      => [F!Next]_<<statut, [f \in Factures |-> Net(f)]>>
  BY PasFacture DEF Nets
<1>. QED BY <1>1, <1>2, Invariant, SerieInvariante, DebitsInvariants, PTL
     DEF Spec, ImplementeCycleFacture, F!Spec



-----------------------------------------------------------------------------
(* How far overlapping requests can go                                      *)

\* The request e was told that f is unpaid and may still settle it at once.
Attend(e, f) ==
  \/ e.op = "regler" /\ e.facture = f /\ e.moyen # "differe"
  \/ e.op \in {"examiner", "payer"} /\ f \in e.restantes
  \/ e.op = "payer" /\ e.facture = f

\* A request settles each invoice of its list once.
SansReprise(e) == e.op = "payer" => e.facture \notin e.restantes

Payeurs(f) == {r \in Requetes : Attend(req[r], f)}

\* Once an invoice is settled nobody is told any more that it is unpaid: each receipt
\* uses up one of the requests that were told so before.
ReceptionsComptees ==
  /\ \A r \in Requetes : SansReprise(req[r])
  /\ \A f \in Factures : statut[f] # "impayee" =>
       Cardinality(PaiementsDe(f, Recu)) + Cardinality(Payeurs(f)) <= Cardinality(Requetes)

LEMMA AttenteLibre == SansReprise(Libre) /\ \A g : ~Attend(Libre, g)
BY DEF SansReprise, Attend, Libre

LEMMA AttenteArrivee ==
  ASSUME IInv, NEW r \in Requetes, Arrivee(r), NEW e, e = req'[r]
  PROVE  SansReprise(e) /\ \A g \in Factures : Attend(e, g) => statut'[g] = "impayee"
<1>0. req \in [Requetes -> Requete]
  BY DEF IInv, TypeOK
<1>1. CASE req' = req /\ Commencer(r)
  BY <1>1, AttenteLibre DEF Commencer
<1>2. ASSUME e.op \notin {"regler", "examiner", "payer"}
      PROVE  SansReprise(e) /\ \A g : ~Attend(e, g)
  BY <1>2 DEF SansReprise, Attend
<1>3. ASSUME NEW f \in Factures, Cloturer(r, f)
      PROVE  SansReprise(e) /\ \A g \in Factures : Attend(e, g) => statut'[g] = "impayee"
  <2>1. e = IF Emise(f) = "impayee" THEN [op |-> "examiner", restantes |-> {f}, carte |-> 0]
                                    ELSE Libre
    BY <1>0, <1>3 DEF Cloturer, Suivre
  <2>2. statut'[f] = Emise(f)
    BY <1>3 DEF Cloturer, IInv, TypeOK
  <2>3. CASE Emise(f) = "impayee"
    BY <2>1, <2>2, <2>3 DEF SansReprise, Attend
  <2>4. CASE Emise(f) # "impayee"
    BY <2>1, <2>4, AttenteLibre
  <2>. QED BY <2>3, <2>4
<1>4. ASSUME NEW f \in Factures, NEW moyen \in Moyens, LireFacture(r, f, moyen)
      PROVE  SansReprise(e) /\ \A g \in Factures : Attend(e, g) => statut'[g] = "impayee"
  <2>1. CASE e = [op |-> "echeance", facture |-> f, reglable |-> Reglable(f)]
    BY <1>2, <2>1
  <2>2. CASE Reglable(f) /\ e = [op |-> "regler", facture |-> f, moyen |-> moyen]
    BY <1>4, <2>2 DEF SansReprise, Attend, Reglable, LireFacture
  <2>. QED BY <1>0, <1>4, <2>1, <2>2 DEF LireFacture, Suivre
<1>5. ASSUME NEW c \in Clients, NEW i \in DOMAIN journal[c], LireEcriture(r, c, i)
      PROVE  e.op = "annuler"
  BY <1>0, <1>5 DEF LireEcriture, Suivre
<1>6. ASSUME NEW p \in DOMAIN paiements, LirePaiement(r, p)
      PROVE  e.op = "rembourser"
  BY <1>0, <1>6 DEF LirePaiement, Suivre
<1>7. ASSUME NEW c \in Clients, NEW m \in Montants, RechargerAccepte(r, c, m)
      PROVE  e.op = "lister"
  BY <1>0, <1>7 DEF RechargerAccepte, Suivre
<1>. QED BY <1>1, <1>2, <1>3, <1>4, <1>5, <1>6, <1>7
     DEF Arrivee, Crediter, Debiter, RechargerRefuse, Generer

LEMMA AttenteAvancer ==
  ASSUME IInv, NEW r \in Requetes, SansReprise(req[r]), Avancer(r), NEW e, e = req'[r]
  PROVE  /\ SansReprise(e)
         /\ \A g \in Factures : Attend(e, g) => Attend(req[r], g) \/ statut'[g] = "impayee"
<1>0. req \in [Requetes -> Requete] /\ req[r] \in Requete
  BY DEF IInv, TypeOK
<1>1. CASE req' = [req EXCEPT ![r] = Libre]
  BY <1>0, <1>1, AttenteLibre
<1>2. CASE PoserEcheance(r)
  <2>1. CASE e = [op |-> "regler", facture |-> req[r].facture, moyen |-> "differe"]
    BY <2>1 DEF SansReprise, Attend
  <2>. QED BY <1>0, <1>1, <1>2, <2>1 DEF PoserEcheance, Suivre
<1>3. CASE ListerImpayees(r)
  <2>1. PICK S : S = Impayees(cartes[req[r].carte].client)
    OBVIOUS
  <2>2. e = [op |-> "examiner", restantes |-> S, carte |-> req[r].carte]
    BY <1>0, <1>3, <2>1 DEF ListerImpayees, Suivre
  <2>3. \A f \in S : statut'[f] = "impayee"
    BY <1>3, <2>1 DEF ListerImpayees, Impayees
  <2>. QED BY <2>2, <2>3 DEF SansReprise, Attend
<1>4. CASE ExaminerSuivante(r)
  <2>1. ASSUME NEW f \in req[r].restantes,
               Suivre(r, [op |-> "payer", facture |-> f,
                          restantes |-> req[r].restantes \ {f}, carte |-> req[r].carte])
        PROVE  SansReprise(e) /\ \A g : Attend(e, g) => Attend(req[r], g)
    <3>1. PICK S : S = req[r].restantes \ {f}
      OBVIOUS
    <3>2. e = [op |-> "payer", facture |-> f, restantes |-> S, carte |-> req[r].carte]
      BY <1>0, <2>1, <3>1 DEF Suivre
    <3>3. req[r].op = "examiner" /\ f \notin S /\ S \cup {f} \subseteq req[r].restantes
      BY <1>4, <3>1 DEF ExaminerSuivante
    <3>. QED BY <3>2, <3>3 DEF SansReprise, Attend
  <2>. QED BY <1>1, <1>4, <2>1 DEF ExaminerSuivante, Repondre, Suivre
<1>5. CASE PayerSuivante(r)
  <2>1. PICK S : S = req[r].restantes
    OBVIOUS
  <2>2. CASE Suivre(r, [op |-> "examiner", restantes |-> S, carte |-> req[r].carte])
    <3>1. e = [op |-> "examiner", restantes |-> S, carte |-> req[r].carte]
      BY <1>0, <2>2 DEF Suivre
    <3>2. req[r].op = "payer"
      BY <1>5 DEF PayerSuivante
    <3>. QED BY <2>1, <3>1, <3>2 DEF SansReprise, Attend
  <2>. QED BY <1>1, <1>5, <2>1, <2>2 DEF PayerSuivante, Repondre, Suivre
<1>6. CASE AnnulerRechargement(r) \/ Rembourser(r) \/ ReglerFacture(r) \/ FinirReglements(r)
  BY <1>1, <1>6 DEF AnnulerRechargement, Rembourser, ReglerFacture, FinirReglements, Repondre, Suivre
<1>. QED BY <1>2, <1>3, <1>4, <1>5, <1>6 DEF Avancer

\* A request that settles an invoice at once was told it is unpaid, and is done with it.
LEMMA AttenteReglee ==
  ASSUME IInv, NEW r \in Requetes, SansReprise(req[r]), ReglerFacture(r) \/ PayerSuivante(r),
         NEW f \in Factures, NEW moyen \in Moyens, PasReglement(r, f, moyen), moyen # "differe"
  PROVE  Attend(req[r], f) /\ ~Attend(req'[r], f)
<1>0. req \in [Requetes -> Requete] /\ req[r] \in Requete
  BY DEF IInv, TypeOK
<1>1. Attend(req[r], f)
  BY DEF PasReglement, Attend
<1>2. CASE req' = [req EXCEPT ![r] = Libre]
  BY <1>0, <1>1, <1>2, AttenteLibre
<1>3. CASE PayerSuivante(r)
  <2>1. PICK S : S = req[r].restantes
    OBVIOUS
  <2>2. req[r].op = "payer" /\ f = req[r].facture /\ f \notin S
    BY <1>3, <2>1 DEF PayerSuivante, PasReglement, SansReprise
  <2>3. CASE Suivre(r, [op |-> "examiner", restantes |-> S, carte |-> req[r].carte])
    <3>1. req'[r] = [op |-> "examiner", restantes |-> S, carte |-> req[r].carte]
      BY <1>0, <2>3 DEF Suivre
    <3>. QED BY <1>1, <2>2, <3>1 DEF Attend
  <2>. QED BY <1>2, <1>3, <2>1, <2>3 DEF PayerSuivante, Repondre, Suivre
<1>4. CASE ReglerFacture(r)
  BY <1>2, <1>4 DEF ReglerFacture, Suivre
<1>. QED BY <1>3, <1>4


\* A step that settles nothing of g at once
LEMMA SansReglementDe ==
  ASSUME IInv, NEW g \in Factures, [Next]_vars,
         \A r \in Requetes, moyen \in Moyens :
           (ReglerFacture(r) \/ PayerSuivante(r)) /\ PasReglement(r, g, moyen) => moyen = "differe"
  PROVE  /\ PaiementsDe(g, Recu)' = PaiementsDe(g, Recu)
         /\ statut[g] = "impayee" => statut'[g] = "impayee"
<1>0. statut \in [Factures -> {"absente", "impayee", "payee", "remboursee"}]
  BY DEF IInv, TypeOK
<1>1. ASSUME PasNeutre \/ PasMouvement \/
             \E r \in Requetes, c \in Clients : \E i \in Lignes(c) : PasAnnulation(r, c, i)
      PROVE  /\ PaiementsDe(g, Recu)' = PaiementsDe(g, Recu)
             /\ statut[g] = "impayee" => statut'[g] = "impayee"
  BY <1>0, <1>1 DEF PasNeutre, PasMouvement, PasAnnulation, PaiementsDe
<1>2. ASSUME NEW r \in Requetes, NEW p \in DOMAIN paiements, NEW f \in Factures,
             PasRemboursement(r, p, f)
      PROVE  /\ PaiementsDe(g, Recu)' = PaiementsDe(g, Recu)
             /\ statut[g] = "impayee" => statut'[g] = "impayee"
  <2>1. paiements[p].statut \in Recu /\ f = paiements[p].facture
    BY <1>2, RequeteDe DEF PasRemboursement, Valide
  <2>2. p \in PaiementsDe(f, Recu)
    BY <2>1 DEF PaiementsDe
  <2>3. statut[f] # "impayee"
    BY <2>2 DEF IInv, StatutJustifie
  <2>. QED BY <1>0, <1>2, <2>1, <2>3, PaiementsRembourses DEF PasRemboursement
<1>3. ASSUME NEW r \in Requetes, ReglerFacture(r) \/ PayerSuivante(r)
      PROVE  /\ PaiementsDe(g, Recu)' = PaiementsDe(g, Recu)
             /\ statut[g] = "impayee" => statut'[g] = "impayee"
  <2>1. ASSUME NEW f \in Factures, NEW moyen \in Moyens, PasReglement(r, f, moyen)
        PROVE  /\ PaiementsDe(g, Recu)' = PaiementsDe(g, Recu)
               /\ statut[g] = "impayee" => statut'[g] = "impayee"
    <3>1. f # g \/ moyen = "differe"
      BY <1>3, <2>1
    <3>. QED BY <1>0, <2>1, <3>1, PaiementsRegles DEF PasReglement
  <2>. QED BY <1>1, <1>3, <2>1, EffetRegler
<1>4. ASSUME NEW r \in Requetes,
             PoserEcheance(r) \/ ListerImpayees(r) \/ ExaminerSuivante(r) \/ FinirReglements(r)
      PROVE  PasNeutre
  BY <1>4 DEF PoserEcheance, ListerImpayees, ExaminerSuivante, FinirReglements, PasNeutre
<1>5. UNCHANGED vars => PasNeutre
  BY DEF vars, PasNeutre
<1>. QED BY <1>1, <1>2, <1>3, <1>4, <1>5, EffetArrivee, EffetAnnuler, EffetRembourser
     DEF Next, Epuise, Avancer

LEMMA SeuleAvance ==
  ASSUME IInv, NEW r \in Requetes, Arrivee(r) \/ Avancer(r), NEW s \in Requetes, s # r
  PROVE  req'[s] = req[s]
<1>1. req \in [Requetes -> Requete]
  BY DEF IInv, TypeOK
<1>2. CASE Arrivee(r)
  BY <1>1, <1>2 DEF Arrivee, Crediter, Debiter, RechargerAccepte, RechargerRefuse, LireEcriture,
                    Generer, Cloturer, LireFacture, LirePaiement, Suivre
<1>3. CASE Avancer(r)
  BY <1>1, <1>3 DEF Avancer, AnnulerRechargement, Rembourser, PoserEcheance, ReglerFacture,
                    ListerImpayees, ExaminerSuivante, PayerSuivante, FinirReglements, Repondre, Suivre
<1>. QED BY <1>2, <1>3

LEMMA SansReprisePas ==
  ASSUME IInv, ReceptionsComptees, [Next]_vars
  PROVE  /\ \A r \in Requetes : SansReprise(req'[r])
         /\ \A g \in Factures : statut'[g] # "impayee" => Payeurs(g)' \subseteq Payeurs(g)
<1>0. req \in [Requetes -> Requete]
  BY DEF IInv, TypeOK
<1>1. CASE UNCHANGED vars
  BY <1>1 DEF vars, ReceptionsComptees, Payeurs
<1>2. ASSUME NEW r \in Requetes, Arrivee(r) \/ Avancer(r)
      PROVE  /\ \A s \in Requetes : SansReprise(req'[s])
             /\ \A g \in Factures : statut'[g] # "impayee" => Payeurs(g)' \subseteq Payeurs(g)
  <2>1. \A s \in Requetes : s # r => req'[s] = req[s]
    BY <1>0, <1>2, SeuleAvance
  <2>2. SansReprise(req[r])
    BY DEF ReceptionsComptees
  <2>3. PICK e : e = req'[r]
    OBVIOUS
  <2>4. /\ SansReprise(e)
        /\ \A g \in Factures : Attend(e, g) => Attend(req[r], g) \/ statut'[g] = "impayee"
    BY <1>2, <2>2, <2>3, AttenteArrivee, AttenteAvancer
  <2>. QED BY <2>1, <2>3, <2>4 DEF ReceptionsComptees, Payeurs
<1>. QED BY <1>1, <1>2 DEF Next, Epuise

LEMMA ReceptionsPas ==
  ASSUME IsFiniteSet(Requetes), IInv, IInv', ReceptionsComptees, [Next]_vars
  PROVE  ReceptionsComptees'
<1>1. SUFFICES ASSUME NEW g \in Factures, statut'[g] # "impayee"
               PROVE  Cardinality(PaiementsDe(g, Recu)') + Cardinality(Payeurs(g)')
                        <= Cardinality(Requetes)
  BY SansReprisePas DEF ReceptionsComptees
<1>2. PICK n \in Nat : n = Cardinality(Requetes)
  BY FS_CardinalityType
<1>3. /\ IsFiniteSet(PaiementsDe(g, Recu)) /\ Cardinality(PaiementsDe(g, Recu)) \in Nat
  BY HypPaiements, EnsemblesFinis DEF IInv
<1>4. /\ IsFiniteSet(Payeurs(g)) /\ Cardinality(Payeurs(g)) \in Nat
      /\ Cardinality(Payeurs(g)) <= n
  <2>1. Payeurs(g) \in SUBSET Requetes
    BY DEF Payeurs
  <2>. QED BY <1>2, <2>1, FS_Subset, FS_CardinalityType
<1>5. Payeurs(g)' \subseteq Payeurs(g)
  BY <1>1, SansReprisePas
<1>6. statut[g] = "impayee" => Cardinality(PaiementsDe(g, Recu)) = 0
  BY FS_EmptySet DEF IInv, StatutJustifie
<1>7. Cardinality(PaiementsDe(g, Recu)) + Cardinality(Payeurs(g)) <= n
  BY <1>2, <1>3, <1>4, <1>6 DEF ReceptionsComptees
<1>8. ASSUME NEW r \in Requetes, NEW moyen \in Moyens, ReglerFacture(r) \/ PayerSuivante(r),
             PasReglement(r, g, moyen), moyen # "differe"
      PROVE  Cardinality(PaiementsDe(g, Recu)') + Cardinality(Payeurs(g)') <= n
  <2>1. PaiementsDe(g, Recu)' = PaiementsDe(g, Recu) \cup {Len(paiements) + 1}
    BY <1>8, PaiementsRegles DEF PasReglement
  <2>2. Cardinality(PaiementsDe(g, Recu)') <= Cardinality(PaiementsDe(g, Recu)) + 1
        /\ Cardinality(PaiementsDe(g, Recu)') \in Nat
    <3>1. PICK S, x : S = PaiementsDe(g, Recu) /\ x = Len(paiements) + 1
      OBVIOUS
    <3>2. IsFiniteSet(S) /\ Cardinality(S) \in Nat
      BY <1>3, <3>1
    <3>3. Cardinality(S \cup {x}) <= Cardinality(S) + 1 /\ Cardinality(S \cup {x}) \in Nat
      <4>1. Cardinality(S \cup {x}) = IF x \in S THEN Cardinality(S) ELSE Cardinality(S) + 1
        BY <3>2, FS_AddElement
      <4>2. CASE x \in S
        BY <3>2, <4>1, <4>2
      <4>3. CASE x \notin S
        BY <3>2, <4>1, <4>3
      <4>. QED BY <4>2, <4>3
    <3>. QED BY <2>1, <3>1, <3>3
  <2>3. r \in Payeurs(g) /\ r \notin Payeurs(g)'
    BY <1>8, AttenteReglee DEF Payeurs, ReceptionsComptees
  <2>4. /\ Cardinality(Payeurs(g) \ {r}) = Cardinality(Payeurs(g)) - 1
        /\ IsFiniteSet(Payeurs(g) \ {r})
    BY <1>4, <2>3, FS_RemoveElement
  <2>5. Payeurs(g)' \in SUBSET (Payeurs(g) \ {r})
    BY <1>5, <2>3
  <2>6. Cardinality(Payeurs(g)') <= Cardinality(Payeurs(g)) - 1 /\ Cardinality(Payeurs(g)') \in Nat
    BY <2>4, <2>5, FS_Subset, FS_CardinalityType
  <2>. QED BY <1>2, <1>3, <1>4, <1>7, <2>2, <2>6
<1>9. CASE \A r \in Requetes, moyen \in Moyens :
             (ReglerFacture(r) \/ PayerSuivante(r)) /\ PasReglement(r, g, moyen) => moyen = "differe"
  <2>1. PaiementsDe(g, Recu)' = PaiementsDe(g, Recu)
    BY <1>1, <1>9, SansReglementDe
  <2>2. Payeurs(g)' \in SUBSET Payeurs(g)
    BY <1>5
  <2>3. Cardinality(Payeurs(g)') <= Cardinality(Payeurs(g)) /\ Cardinality(Payeurs(g)') \in Nat
    BY <1>4, <2>2, FS_Subset, FS_CardinalityType
  <2>. QED BY <1>2, <1>3, <1>4, <1>7, <2>1, <2>3
<1>. QED BY <1>2, <1>8, <1>9

LEMMA ReceptionsInit == ASSUME IsFiniteSet(Requetes) PROVE Init => ReceptionsComptees
<1>. SUFFICES ASSUME Init PROVE ReceptionsComptees
  OBVIOUS
<1>1. ASSUME NEW f \in Factures PROVE PaiementsDe(f, Recu) = {} /\ Payeurs(f) = {}
  BY AttenteLibre DEF Init, PaiementsDe, Payeurs
<1>2. Cardinality({}) = 0 /\ Cardinality(Requetes) \in Nat
  BY FS_EmptySet, FS_CardinalityType
<1>3. \A r \in Requetes : SansReprise(req[r])
  BY AttenteLibre DEF Init
<1>. QED BY <1>1, <1>2, <1>3 DEF ReceptionsComptees

\* However many PHP processes overlap, an invoice is never received more often than
\* there are processes: double settlements come from requests that read the invoice
\* unpaid before the first of them settled it (PaiementService.php, 35), never from one
\* that comes later.
THEOREM ReceptionsBornees ==
  ASSUME IsFiniteSet(Requetes)
  PROVE  Spec => [](\A f \in Factures : Cardinality(PaiementsDe(f, Recu)) <= Cardinality(Requetes))
<1>1. IInv /\ ReceptionsComptees =>
        \A f \in Factures : Cardinality(PaiementsDe(f, Recu)) <= Cardinality(Requetes)
  <2>. SUFFICES ASSUME IInv, ReceptionsComptees, NEW f \in Factures
                PROVE  Cardinality(PaiementsDe(f, Recu)) <= Cardinality(Requetes)
    OBVIOUS
  <2>1. Cardinality(Requetes) \in Nat /\ Cardinality(PaiementsDe(f, Recu)) \in Nat
    BY HypPaiements, EnsemblesFinis, FS_CardinalityType DEF IInv
  <2>2. CASE statut[f] = "impayee"
    BY <2>1, <2>2, FS_EmptySet DEF IInv, StatutJustifie
  <2>3. CASE statut[f] # "impayee"
    <3>1. Payeurs(f) \in SUBSET Requetes
      BY DEF Payeurs
    <3>2. Cardinality(Payeurs(f)) \in Nat
      BY <3>1, FS_Subset, FS_CardinalityType
    <3>. QED BY <2>1, <2>3, <3>2 DEF ReceptionsComptees
  <2>. QED BY <2>2, <2>3
<1>2. IInv /\ IInv' /\ ReceptionsComptees /\ [Next]_vars => ReceptionsComptees'
  BY ReceptionsPas
<1>. QED BY <1>1, <1>2, ReceptionsInit, Invariant, PTL DEF Spec

=============================================================================
