--------------------------- MODULE RechargesPreuves ---------------------------
(***************************************************************************)
(* Proofs about Recharges, for any charges, PHP processes, incidents and   *)
(* fallback ids.                                                           *)
(***************************************************************************)
EXTENDS Recharges, FiniteSetTheorems, TLAPS

\* The number a process is about to insert is at most the next one, and has room.
NumerosReclames ==
  \A q \in Processus : proc[q].op = "inserer" =>
    proc[q].numero <= Len(factures) + 1 /\ proc[q].numero <= Capacite

\* What a process is about to invoice is a closed session of a customer.
ArticlesJustifies ==
  \A q \in Processus : proc[q] # Libre =>
    \A a \in proc[q].reste : a.session \in DOMAIN sessions /\ Facturable(sessions[a.session])

IInv ==
  /\ TypeOK
  /\ NumerotationContinue
  /\ UneFactureParSession
  /\ Plafond
  /\ NumerosReclames
  /\ ArticlesJustifies
  /\ FactureJustifiee

-----------------------------------------------------------------------------
(* Numbers *)

\* The first number with one more digit sorts before the last one without it.
LEMMA CapaciteAvant == Ordre(Capacite) < Ordre(Capacite - 1)
<1> DEFINE k == Capacite \div Base
<1>1. k \in Nat /\ Capacite = Base * k
  BY HypRecharges
<1>2. Ordre(Capacite) = (Base + 1) * k + 1
  BY HypRecharges DEF Ordre
<1>3. Ordre(Capacite - 1) = (Base + 1) * (Capacite - 1)
  BY HypRecharges DEF Ordre
<1> HIDE DEF k
<1>4. k >= 1
  BY <1>1, HypRecharges
<1>5. Base * k >= 3 * k
  BY <1>1, HypRecharges
<1>6. Capacite - 1 >= k + 1
  BY <1>1, <1>4, <1>5, HypRecharges
<1>7. (Base + 1) * (Capacite - 1) >= (Base + 1) * (k + 1)
  BY <1>1, <1>6, HypRecharges
<1>8. (Base + 1) * (k + 1) = (Base + 1) * k + Base + 1
  BY <1>1, HypRecharges
<1>9. (Base + 1) * k \in Nat
  BY <1>1, HypRecharges
<1>. QED  BY <1>2, <1>3, <1>7, <1>8, <1>9, HypRecharges

LEMMA OrdreCroissant ==
  ASSUME NEW m \in Nat, NEW n \in Nat, m <= n, n < Capacite
  PROVE  Ordre(m) <= Ordre(n)
<1>1. Ordre(m) = (Base + 1) * m /\ Ordre(n) = (Base + 1) * n
  BY HypRecharges DEF Ordre
<1>2. (Base + 1) * m <= (Base + 1) * n
  BY HypRecharges
<1>. QED  BY <1>1, <1>2

\* The number a process computes is at most the next one, and never above Capacite.
LEMMA SuivantBorne ==
  ASSUME TypeOK, NumerotationContinue, Plafond
  PROVE  Suivant \in Nat \ {0} /\ Suivant <= Len(factures) + 1 /\ Suivant <= Capacite
<1> DEFINE L == Len(factures)
<1>0. factures \in Seq(Facture) /\ L \in Nat
  BY DEF TypeOK
<1>1. CASE factures = <<>>
  BY <1>0, <1>1, HypRecharges DEF Suivant
<1>2. CASE factures # <<>>
  <2>1. L >= 1
    BY <1>0, <1>2
  <2>2. Numeros = 1..L
    <3>1. DOMAIN factures = 1..L
      BY <1>0
    <3>. QED  BY <3>1 DEF Numeros, NumerotationContinue
  <2> DEFINE Dernier(n) == \A m \in Numeros : Ordre(m) <= Ordre(n)
  <2>3. \E n \in Numeros : Dernier(n)
    <3>1. CASE L < Capacite
      <4>1. L \in Numeros /\ \A m \in Numeros : Ordre(m) <= Ordre(L)
        BY <1>0, <2>1, <2>2, <3>1, OrdreCroissant
      <4>. QED  BY <4>1
    <3>2. CASE L = Capacite
      <4>1. Capacite - 1 \in Numeros
        BY <2>2, <3>2, HypRecharges
      <4>2. ASSUME NEW m \in Numeros
            PROVE  Ordre(m) <= Ordre(Capacite - 1)
        <5>1. CASE m = Capacite
          <6>1. Ordre(Capacite) \in Int /\ Ordre(Capacite - 1) \in Int
            BY HypRecharges DEF Ordre
          <6>. QED  BY <5>1, <6>1, CapaciteAvant
        <5>2. CASE m # Capacite
          BY <2>2, <3>2, <5>2, OrdreCroissant, HypRecharges
        <5>. QED  BY <5>1, <5>2
      <4>. QED  BY <4>1, <4>2
    <3>. QED  BY <1>0, <3>1, <3>2, HypRecharges DEF Plafond
  <2> DEFINE n == CHOOSE n \in Numeros : Dernier(n)
  <2>4. n \in Numeros /\ Dernier(n)
    BY <2>3
  <2>5. Suivant = 1 + n
    BY <1>2 DEF Suivant
  <2>6. n \in 1..L
    BY <2>2, <2>4
  <2>7. L = Capacite => n # Capacite
    <3> SUFFICES ASSUME L = Capacite, n = Capacite
                 PROVE  FALSE
      OBVIOUS
    <3>1. Capacite - 1 \in Numeros
      BY <2>2, HypRecharges
    <3>2. Ordre(Capacite - 1) <= Ordre(Capacite)
      BY <2>4, <3>1
    <3>3. Ordre(Capacite) \in Int /\ Ordre(Capacite - 1) \in Int
      BY HypRecharges DEF Ordre
    <3>. QED  BY <3>2, <3>3, CapaciteAvant
  <2> HIDE DEF n
  <2>. QED  BY <1>0, <2>5, <2>6, <2>7, HypRecharges DEF Plafond
<1>. QED  BY <1>1, <1>2

-----------------------------------------------------------------------------
(* Types *)

\* What a process that is not idle holds
LEMMA ProcOccupe ==
  ASSUME TypeOK, NEW q \in Processus
  PROVE  /\ proc[q].op \in {"chercher", "numeroter", "inserer"} <=> proc[q] # Libre
         /\ proc[q] # Libre => /\ proc[q].reste \in SUBSET Article
                              /\ proc[q].pour \in Demandes \cup {Personnel}
         /\ proc[q].op = "inserer" => proc[q].numero \in Nat \ {0}
<1>1. proc[q] \in Proc
  BY DEF TypeOK
<1>. QED  BY <1>1 DEF Proc, Libre

LEMMA TypePoint ==
  ASSUME TypeOK, NEW t \in Charges,
         Demarrer(t) \/ Mesurer(t) \/ Arreter(t) \/ Abandonner(t) \/ AccuserArret(t)
  PROVE  TypeOK'
<1> USE HypRecharges
<1>0. charge \in [Charges -> Point] /\ charge[t] \in Point
  BY DEF TypeOK
<1>1. CASE Demarrer(t)
  <2>1. charge' \in [Charges -> Point]
    BY <1>0, <1>1 DEF Demarrer, Point, Etats
  <2>2. [EnvoiDe(t, "start") EXCEPT !.essai = @ + 1] \in Envoi
    BY <1>0, <1>1 DEF Demarrer, EnvoiDe, Envoi, Point
  <2>. QED  BY <1>1, <2>1, <2>2 DEF Demarrer, TypeOK
<1>2. CASE Mesurer(t)
  <2>1. charge' \in [Charges -> Point]
    BY <1>0, <1>2 DEF Mesurer, Point
  <2>2. [EnvoiDe(t, "meter") EXCEPT !.energie = @ + 1] \in Envoi
    BY <1>0, <1>2 DEF Mesurer, EnvoiDe, Envoi, Point
  <2>. QED  BY <1>2, <2>1, <2>2 DEF Mesurer, TypeOK
<1>3. CASE Arreter(t)
  <2>1. charge' \in [Charges -> Point]
    BY <1>0, <1>3 DEF Arreter, Point, Etats
  <2>2. EnvoiDe(t, "stop") \in Envoi
    BY <1>0 DEF EnvoiDe, Envoi, Point
  <2>. QED  BY <1>3, <2>1, <2>2 DEF Arreter, TypeOK
<1>4. CASE Abandonner(t)
  <2>1. charge' \in [Charges -> Point]
    BY <1>0, <1>4 DEF Abandonner, Point, Etats
  <2>. QED  BY <1>4, <2>1 DEF Abandonner, TypeOK
<1>5. CASE AccuserArret(t)
  <2>1. charge' \in [Charges -> Point]
    BY <1>0, <1>5 DEF AccuserArret, Point, Etats
  <2>. QED  BY <1>5, <2>1 DEF AccuserArret, TypeOK
<1>. QED  BY <1>1, <1>2, <1>3, <1>4, <1>5

LEMMA TypePasserelle ==
  ASSUME TypeOK, NEW e \in envois, RepondreStart(e) \/ Perdre(e)
  PROVE  TypeOK'
<1>0. /\ charge \in [Charges -> Point]
      /\ e \in Envoi
  BY DEF TypeOK
<1>1. ASSUME NEW id \in Nat, Annoncer(e, id)
      PROVE  charge' \in [Charges -> Point]
  BY <1>0, <1>1 DEF Annoncer, Point, Etats, Envoi
<1>2. CASE RepondreStart(e)
  <2>1. charge' \in [Charges -> Point]
    <3>1. e.id \in Nat
      BY <1>0 DEF Envoi
    <3>. QED  BY <1>1, <1>2, <3>1, HypRecharges DEF RepondreStart
  <2>. QED  BY <1>2, <2>1 DEF RepondreStart, TypeOK
<1>3. CASE Perdre(e)
  BY <1>3 DEF Perdre, TypeOK
<1>. QED  BY <1>2, <1>3

LEMMA TypeOuvrirSession ==
  ASSUME TypeOK, NEW e \in envois, OuvrirSession(e)
  PROVE  TypeOK'
<1>0. sessions \in Seq(Session) /\ envois \subseteq Envoi /\ e \in Envoi
  BY DEF TypeOK
<1>1. [statut |-> "EnCours", idTag |-> e.charge, energie |-> 0, prix |-> 0] \in Session
  BY <1>0, HypRecharges DEF Session, Envoi
<1>2. sessions' \in Seq(Session)
  BY <1>0, <1>1 DEF OuvrirSession
<1>3. \A id \in Nat : [e EXCEPT !.genre = "ouverte", !.id = id] \in Envoi
  BY <1>0 DEF Envoi
<1>4. Len(sessions) + 1 \in Nat /\ Refuse \in Nat
  BY <1>0 DEF Refuse
<1>5. envois' \subseteq Envoi
  BY <1>0, <1>3, <1>4 DEF OuvrirSession
<1>. QED  BY <1>2, <1>5 DEF OuvrirSession, TypeOK

LEMMA TypeEcrireMesure ==
  ASSUME TypeOK, NEW e \in envois, EcrireMesure(e)
  PROVE  TypeOK'
<1>0. sessions \in Seq(Session) /\ e \in Envoi
  BY DEF TypeOK
<1>1. sessions' \in Seq(Session)
  <2>1. CASE e.id \in DOMAIN sessions
    <3>1. sessions[e.id] \in Session
      BY <1>0, <2>1
    <3>2. [sessions[e.id] EXCEPT !.energie = e.energie] \in Session
      BY <1>0, <3>1 DEF Session, Envoi
    <3>3. sessions' = [sessions EXCEPT ![e.id] = [sessions[e.id] EXCEPT !.energie = e.energie]]
      BY <2>1 DEF EcrireMesure
    <3>. QED  BY <1>0, <2>1, <3>2, <3>3
  <2>2. CASE e.id \notin DOMAIN sessions
    BY <1>0, <2>2 DEF EcrireMesure
  <2>. QED  BY <2>1, <2>2
<1>. QED  BY <1>1 DEF EcrireMesure, TypeOK

LEMMA TypeTerminer ==
  ASSUME TypeOK, NEW q \in Processus, NEW e \in envois, Terminer(q, e)
  PROVE  TypeOK'
<1>0. sessions \in Seq(Session) /\ e \in Envoi /\ proc \in [Processus -> Proc]
  BY DEF TypeOK
<1>1. CASE e.id \notin DOMAIN sessions
  BY <1>1 DEF Terminer, TypeOK
<1>2. CASE e.id \in DOMAIN sessions
  <2> DEFINE s == Close(sessions[e.id], e)
  <2>1. sessions[e.id] \in Session
    BY <1>0, <1>2
  <2>2. s \in Session
    <3>1. e.energie \in 0..MaxWh /\ e.energie \in Nat
      BY <1>0, HypRecharges DEF Envoi
    <3>2. s = [sessions[e.id] EXCEPT !.statut = "Terminee", !.energie = e.energie,
                                     !.prix = e.energie]
      BY DEF Close
    <3>. QED  BY <2>1, <3>1, <3>2 DEF Session
  <2>3. sessions' = [sessions EXCEPT ![e.id] = s]
    BY <1>2 DEF Terminer
  <2>4. sessions' \in Seq(Session)
    BY <1>0, <1>2, <2>2, <2>3
  <2>5. e.id \in Nat \ {0}
    BY <1>0, <1>2
  <2> DEFINE p == [op |-> "chercher", reste |-> {[session |-> e.id, prix |-> s.prix]},
                   pour |-> [charge |-> e.charge, essai |-> e.essai]]
  <2>6. p \in Proc
    <3>1. [session |-> e.id, prix |-> s.prix] \in Article
      BY <2>2, <2>5 DEF Article, Session
    <3>2. [charge |-> e.charge, essai |-> e.essai] \in Demandes
      BY <1>0 DEF Envoi, Demandes
    <3>. QED  BY <3>1, <3>2 DEF Proc
  <2>7. proc' = proc \/ proc' = [proc EXCEPT ![q] = p]
    BY <1>2 DEF Terminer
  <2> HIDE DEF p
  <2>8. proc' \in [Processus -> Proc]
    BY <1>0, <2>6, <2>7
  <2>. QED  BY <2>4, <2>8 DEF Terminer, TypeOK
<1>. QED  BY <1>1, <1>2

LEMMA ManquantesJustifiees ==
  ASSUME TypeOK
  PROVE  /\ Manquantes \in SUBSET Article
         /\ \A a \in Manquantes : a.session \in DOMAIN sessions /\ Facturable(sessions[a.session])
<1>0. sessions \in Seq(Session)
  BY DEF TypeOK
<1>1. \A i \in DOMAIN sessions : i \in Nat \ {0} /\ sessions[i] \in Session
  BY <1>0
<1>. QED  BY <1>1 DEF Manquantes, Article, Session

LEMMA TypeGenerer ==
  ASSUME TypeOK, NEW q \in Processus, Generer(q)
  PROVE  TypeOK'
<1>1. [op |-> "chercher", reste |-> Manquantes, pour |-> Personnel] \in Proc
  BY ManquantesJustifiees DEF Proc
<1>. QED  BY <1>1 DEF Generer, TypeOK

LEMMA TypeChercher ==
  ASSUME TypeOK, NEW q \in Processus, Chercher(q)
  PROVE  TypeOK'
<1>0. proc \in [Processus -> Proc] /\ proc[q] # Libre /\ proc[q].op = "chercher"
  BY ProcOccupe DEF TypeOK, Chercher
<1>1. /\ proc[q] \in [op: {"chercher", "numeroter"}, reste: SUBSET Article,
                      pour: Demandes \cup {Personnel}]
  BY <1>0 DEF Proc, Libre
<1>2. Libre \in Proc
  BY DEF Proc
<1>3. ASSUME NEW a \in proc[q].reste
      PROVE  [proc[q] EXCEPT !.reste = @ \ {a}] \in Proc
  BY <1>1 DEF Proc
<1>4. [proc[q] EXCEPT !.op = "numeroter"] \in Proc
  BY <1>1 DEF Proc
<1>5. \/ proc' = [proc EXCEPT ![q] = Libre]
      \/ \E a \in proc[q].reste : proc' = [proc EXCEPT ![q] = [proc[q] EXCEPT !.reste = @ \ {a}]]
      \/ proc' = [proc EXCEPT ![q] = [proc[q] EXCEPT !.op = "numeroter"]]
  BY DEF Chercher, Courante
<1>6. proc' \in [Processus -> Proc]
  BY <1>0, <1>2, <1>3, <1>4, <1>5
<1>. QED  BY <1>6 DEF Chercher, TypeOK

LEMMA TypeNumeroter ==
  ASSUME TypeOK, NumerotationContinue, Plafond, NEW q \in Processus, Numeroter(q)
  PROVE  TypeOK'
<1>1. [op |-> "inserer", reste |-> proc[q].reste, pour |-> proc[q].pour, numero |-> Suivant]
        \in Proc
  BY ProcOccupe, SuivantBorne DEF Proc, Numeroter
<1>. QED  BY <1>1 DEF Numeroter, TypeOK

LEMMA TypeInserer ==
  ASSUME TypeOK, ArticlesJustifies, NEW q \in Processus, Inserer(q)
  PROVE  TypeOK'
<1>0. /\ proc \in [Processus -> Proc] /\ factures \in Seq(Facture) /\ proc[q] # Libre
      /\ proc[q].reste \in SUBSET Article /\ proc[q].numero \in Nat \ {0}
      /\ proc[q].pour \in Demandes \cup {Personnel}
  BY ProcOccupe DEF TypeOK, Inserer
<1>1. PICK a \in proc[q].reste :
        /\ factures' = IF Unique(a, proc[q].numero)
             THEN Append(factures, [session |-> a.session, numero |-> proc[q].numero,
                                    montant |-> Montant(a)])
             ELSE factures
        /\ proc' = [proc EXCEPT ![q] = Suite(q, a)]
  BY DEF Inserer, Courante
<1>2. a \in Article
  BY <1>0
<1>3. [session |-> a.session, numero |-> proc[q].numero, montant |-> Montant(a)] \in Facture
  BY <1>0, <1>2 DEF Facture, Montant, Article
<1>4. factures' \in Seq(Facture)
  BY <1>0, <1>1, <1>3
<1>5. Suite(q, a) \in Proc
  BY <1>0 DEF Suite, Proc
<1>6. proc' \in [Processus -> Proc]
  BY <1>0, <1>1, <1>5
<1>. QED  BY <1>4, <1>6 DEF Inserer, TypeOK

-----------------------------------------------------------------------------
(* The invariant *)

\* Sessions are only added, and a session that can be invoiced stays so.
SessionsSuivies ==
  \A i \in DOMAIN sessions :
    i \in DOMAIN sessions' /\ (Facturable(sessions[i]) => Facturable(sessions'[i]))

LEMMA SuiviesOuvrir ==
  ASSUME TypeOK, NEW e \in envois, OuvrirSession(e)
  PROVE  SessionsSuivies
<1>1. sessions \in Seq(Session)
  BY DEF TypeOK
<1>. QED  BY <1>1 DEF OuvrirSession, SessionsSuivies

LEMMA SuiviesMesurer ==
  ASSUME TypeOK, NEW e \in envois, EcrireMesure(e)
  PROVE  SessionsSuivies
<1>1. sessions \in Seq(Session) /\ \A i \in DOMAIN sessions : sessions[i] \in Session
  BY DEF TypeOK
<1>. QED  BY <1>1 DEF EcrireMesure, SessionsSuivies, Facturable, Session

LEMMA SuiviesTerminer ==
  ASSUME TypeOK, NEW q \in Processus, NEW e \in envois, Terminer(q, e)
  PROVE  SessionsSuivies
<1>1. sessions \in Seq(Session) /\ \A i \in DOMAIN sessions : sessions[i] \in Session
  BY DEF TypeOK
<1>. QED  BY <1>1 DEF Terminer, Close, SessionsSuivies, Facturable, Session

\* What the invoices and the processes say of the sessions outlives a step on them.
LEMMA JustificationsSuivies ==
  ASSUME SessionsSuivies, UNCHANGED factures
  PROVE  /\ FactureJustifiee => FactureJustifiee'
         /\ ArticlesJustifies /\ UNCHANGED proc => ArticlesJustifies'
BY DEF SessionsSuivies, FactureJustifiee, ArticlesJustifies, Facturable

LEMMA NumerosIntacts ==
  ASSUME NumerotationContinue, UneFactureParSession, Plafond, UNCHANGED factures
  PROVE  NumerotationContinue' /\ UneFactureParSession' /\ Plafond'
BY DEF NumerotationContinue, UneFactureParSession, Plafond

\* A step that neither invoices nor touches the sessions
LEMMA ResteIntact ==
  ASSUME IInv, UNCHANGED <<sessions, factures, proc>>, TypeOK'
  PROVE  IInv'
BY DEF IInv, NumerotationContinue, UneFactureParSession, Plafond, NumerosReclames,
       ArticlesJustifies, FactureJustifiee

\* A step on the sessions that leaves the PHP processes alone
LEMMA ProcIntact ==
  ASSUME IInv, SessionsSuivies, UNCHANGED <<factures, proc>>, TypeOK'
  PROVE  IInv'
<1>1. NumerosReclames'
  BY DEF IInv, NumerosReclames
<1>. QED  BY <1>1, NumerosIntacts, JustificationsSuivies DEF IInv

LEMMA InvTerminer ==
  ASSUME IInv, NEW q \in Processus, NEW e \in envois, Terminer(q, e)
  PROVE  IInv'
<1>1. TypeOK /\ TypeOK' /\ UNCHANGED factures
  BY TypeTerminer DEF IInv, Terminer
<1>2. SessionsSuivies
  BY <1>1, SuiviesTerminer
<1>3. CASE UNCHANGED proc
  BY <1>1, <1>2, <1>3, ProcIntact
<1>4. CASE ~UNCHANGED proc
  <2> DEFINE s == Close(sessions[e.id], e)
             p == [op |-> "chercher", reste |-> {[session |-> e.id, prix |-> s.prix]},
                   pour |-> [charge |-> e.charge, essai |-> e.essai]]
  <2>1. /\ e.id \in DOMAIN sessions /\ Facturable(s)
        /\ sessions' = [sessions EXCEPT ![e.id] = s]
        /\ proc' = [proc EXCEPT ![q] = p]
    BY <1>4 DEF Terminer
  <2>2. /\ proc'[q] = p
        /\ \A r \in Processus : r # q => proc'[r] = proc[r]
    BY <1>1, <2>1 DEF TypeOK
  <2>3. e.id \in DOMAIN sessions' /\ sessions'[e.id] = s
    BY <1>1, <2>1 DEF TypeOK
  <2>4. NumerosReclames'
    <3>1. proc'[q].op = "chercher"
      BY <2>2
    <3>. QED  BY <1>1, <2>2, <3>1 DEF IInv, NumerosReclames
  <2>5. ArticlesJustifies'
    <3> SUFFICES ASSUME NEW r \in Processus, proc'[r] # Libre, NEW a \in proc'[r].reste
                 PROVE  a.session \in DOMAIN sessions' /\ Facturable(sessions'[a.session])
      BY DEF ArticlesJustifies
    <3>1. CASE r = q
      BY <2>1, <2>2, <2>3, <3>1
    <3>2. CASE r # q
      BY <1>2, <2>2, <3>2 DEF IInv, ArticlesJustifies, SessionsSuivies
    <3>. QED  BY <3>1, <3>2
  <2>. QED  BY <1>1, <1>2, <2>4, <2>5, NumerosIntacts, JustificationsSuivies DEF IInv
<1>. QED  BY <1>3, <1>4

LEMMA InvGenerer ==
  ASSUME IInv, NEW q \in Processus, Generer(q)
  PROVE  IInv'
<1>1. TypeOK /\ TypeOK' /\ UNCHANGED <<sessions, factures>>
  BY TypeGenerer DEF IInv, Generer
<1>2. /\ proc'[q] = [op |-> "chercher", reste |-> Manquantes, pour |-> Personnel]
      /\ \A r \in Processus : r # q => proc'[r] = proc[r]
  BY <1>1 DEF Generer, TypeOK
<1>3. NumerosReclames'
  <2>1. proc'[q].op = "chercher"
    BY <1>2
  <2>. QED  BY <1>1, <1>2, <2>1 DEF IInv, NumerosReclames
<1>4. ArticlesJustifies'
  <2> SUFFICES ASSUME NEW r \in Processus, proc'[r] # Libre, NEW a \in proc'[r].reste
               PROVE  a.session \in DOMAIN sessions /\ Facturable(sessions[a.session])
    BY <1>1 DEF ArticlesJustifies, Facturable
  <2>1. CASE r = q
    <3>1. a \in Manquantes
      BY <1>2, <2>1
    <3>. QED  BY <1>1, <3>1, ManquantesJustifiees
  <2>2. CASE r # q
    BY <1>2, <2>2 DEF IInv, ArticlesJustifies
  <2>. QED  BY <2>1, <2>2
<1>5. FactureJustifiee'
  BY <1>1 DEF IInv, FactureJustifiee
<1>. QED  BY <1>1, <1>3, <1>4, <1>5, NumerosIntacts DEF IInv

LEMMA InvChercher ==
  ASSUME IInv, NEW q \in Processus, Chercher(q)
  PROVE  IInv'
<1>1. TypeOK /\ TypeOK' /\ UNCHANGED <<sessions, factures>>
  BY TypeChercher DEF IInv, Chercher
<1>2. /\ \A r \in Processus : r # q => proc'[r] = proc[r]
      /\ proc[q] # Libre
      /\ proc'[q] = Libre \/ (proc'[q].reste \subseteq proc[q].reste /\ proc'[q].op # "inserer")
  <2>1. proc \in [Processus -> Proc] /\ proc[q] # Libre
    BY <1>1, ProcOccupe DEF TypeOK, Chercher
  <2>2. proc[q] \in [op: {"chercher", "numeroter"}, reste: SUBSET Article,
                     pour: Demandes \cup {Personnel}]
    BY <2>1 DEF Proc, Libre, Chercher
  <2>3. \/ proc' = [proc EXCEPT ![q] = Libre]
        \/ \E a \in proc[q].reste : proc' = [proc EXCEPT ![q] = [proc[q] EXCEPT !.reste = @ \ {a}]]
        \/ proc' = [proc EXCEPT ![q] = [proc[q] EXCEPT !.op = "numeroter"]]
    BY DEF Chercher, Courante
  <2>. QED  BY <2>1, <2>2, <2>3 DEF Chercher
<1>3. NumerosReclames'
  <2>1. proc'[q].op # "inserer"
    BY <1>2 DEF Libre
  <2>. QED  BY <1>1, <1>2, <2>1 DEF IInv, NumerosReclames
<1>4. ArticlesJustifies'
  BY <1>1, <1>2 DEF IInv, ArticlesJustifies, Facturable
<1>5. FactureJustifiee'
  BY <1>1 DEF IInv, FactureJustifiee
<1>. QED  BY <1>1, <1>3, <1>4, <1>5, NumerosIntacts DEF IInv

LEMMA InvNumeroter ==
  ASSUME IInv, NEW q \in Processus, Numeroter(q)
  PROVE  IInv'
<1>1. TypeOK /\ TypeOK' /\ UNCHANGED <<sessions, factures>>
  BY TypeNumeroter DEF IInv, Numeroter
<1>2. /\ proc'[q] = [op |-> "inserer", reste |-> proc[q].reste, pour |-> proc[q].pour,
                     numero |-> Suivant]
      /\ \A r \in Processus : r # q => proc'[r] = proc[r]
  BY <1>1 DEF Numeroter, TypeOK
<1>3. NumerosReclames'
  <2>1. proc'[q].numero <= Len(factures) + 1 /\ proc'[q].numero <= Capacite
    BY <1>2, SuivantBorne DEF IInv
  <2>. QED  BY <1>1, <1>2, <2>1 DEF IInv, NumerosReclames
<1>4. ArticlesJustifies'
  <2>1. proc[q] # Libre /\ proc'[q].reste = proc[q].reste
    BY <1>1, <1>2, ProcOccupe DEF Numeroter
  <2>. QED  BY <1>1, <1>2, <2>1 DEF IInv, ArticlesJustifies, Facturable
<1>5. FactureJustifiee'
  BY <1>1 DEF IInv, FactureJustifiee
<1>. QED  BY <1>1, <1>3, <1>4, <1>5, NumerosIntacts DEF IInv

\* An insertion adds the next invoice, for the session the process is at, or nothing.
LEMMA InsertionJuste ==
  ASSUME IInv, NEW q \in Processus, Inserer(q)
  PROVE  \E a \in proc[q].reste :
           /\ a.session \in Nat \ {0}
           /\ proc'[q] = Suite(q, a)
           /\ \/ /\ ~Unique(a, proc[q].numero)
                 /\ factures' = factures
              \/ /\ Unique(a, proc[q].numero)
                 /\ factures' = Append(factures, [session |-> a.session,
                                       numero |-> Len(factures) + 1, montant |-> Montant(a)])
                 /\ Len(factures) + 1 <= Capacite
<1>1. /\ proc \in [Processus -> Proc] /\ factures \in Seq(Facture)
      /\ proc[q].reste \in SUBSET Article /\ proc[q].numero \in Nat \ {0}
      /\ proc[q].numero <= Len(factures) + 1 /\ proc[q].numero <= Capacite
  BY ProcOccupe DEF IInv, TypeOK, Inserer, NumerosReclames
<1>2. PICK a \in proc[q].reste :
        /\ factures' = IF Unique(a, proc[q].numero)
             THEN Append(factures, [session |-> a.session, numero |-> proc[q].numero,
                                    montant |-> Montant(a)])
             ELSE factures
        /\ proc' = [proc EXCEPT ![q] = Suite(q, a)]
  BY DEF Inserer, Courante
<1>3. a.session \in Nat \ {0}
  <2>1. a \in Article
    BY <1>1
  <2>. QED  BY <2>1 DEF Article
<1>4. proc'[q] = Suite(q, a)
  BY <1>1, <1>2
<1>5. ASSUME Unique(a, proc[q].numero)
      PROVE  proc[q].numero = Len(factures) + 1
  <2>1. ASSUME proc[q].numero <= Len(factures)
        PROVE  proc[q].numero \in Numeros
    <3>1. proc[q].numero \in DOMAIN factures
      BY <1>1, <2>1
    <3>. QED  BY <3>1 DEF Numeros, IInv, NumerotationContinue
  <2>2. Len(factures) \in Nat
    BY <1>1
  <2>. QED  BY <1>1, <1>5, <2>1, <2>2 DEF Unique
<1>. QED  BY <1>1, <1>2, <1>3, <1>4, <1>5

LEMMA InvInserer ==
  ASSUME IInv, NEW q \in Processus, Inserer(q)
  PROVE  IInv'
<1>1. TypeOK /\ TypeOK' /\ UNCHANGED sessions
  BY TypeInserer DEF IInv, Inserer
<1>2. PICK a \in proc[q].reste :
        /\ a.session \in Nat \ {0}
        /\ proc'[q] = Suite(q, a)
        /\ \/ /\ ~Unique(a, proc[q].numero)
              /\ factures' = factures
           \/ /\ Unique(a, proc[q].numero)
              /\ factures' = Append(factures, [session |-> a.session,
                                    numero |-> Len(factures) + 1, montant |-> Montant(a)])
              /\ Len(factures) + 1 <= Capacite
  BY InsertionJuste
<1>3. /\ \A r \in Processus : r # q => proc'[r] = proc[r]
      /\ proc[q] # Libre /\ factures \in Seq(Facture) /\ Len(factures) \in Nat
  BY <1>1, ProcOccupe DEF Inserer, TypeOK
<1>4. /\ proc'[q].op # "inserer"
      /\ proc'[q] # Libre => proc'[q].reste = proc[q].reste \ {a}
  BY <1>2 DEF Suite, Libre
<1>5. ArticlesJustifies'
  <2> SUFFICES ASSUME NEW r \in Processus, proc'[r] # Libre, NEW b \in proc'[r].reste
               PROVE  b.session \in DOMAIN sessions /\ Facturable(sessions[b.session])
    BY <1>1 DEF ArticlesJustifies, Facturable
  <2>1. proc[r] # Libre /\ b \in proc[r].reste
    BY <1>3, <1>4
  <2>. QED  BY <2>1 DEF IInv, ArticlesJustifies
<1>6. CASE factures' = factures
  <2>1. NumerosReclames'
    BY <1>3, <1>4, <1>6 DEF IInv, NumerosReclames
  <2>2. FactureJustifiee'
    BY <1>1, <1>6 DEF IInv, FactureJustifiee
  <2>. QED  BY <1>1, <1>5, <1>6, <2>1, <2>2, NumerosIntacts DEF IInv
<1>7. CASE factures' # factures
  <2> DEFINE L == Len(factures)
             f == [session |-> a.session, numero |-> L + 1, montant |-> Montant(a)]
  <2>1. /\ a.session \notin Facturees
        /\ factures' = Append(factures, f) /\ L + 1 <= Capacite
    BY <1>2, <1>7 DEF Unique
  <2> HIDE DEF f
  <2>2. /\ Len(factures') = L + 1 /\ DOMAIN factures' = 1..(L + 1) /\ DOMAIN factures = 1..L
        /\ factures'[L + 1] = f
        /\ \A i \in 1..L : factures'[i] = factures[i]
    BY <1>3, <2>1
  <2>3. f.numero = L + 1 /\ f.session = a.session
    BY DEF f
  <2>4. NumerotationContinue'
    BY <1>3, <2>2, <2>3 DEF IInv, NumerotationContinue
  <2>5. UneFactureParSession'
    <3>1. \A i \in 1..L : factures[i].session # a.session
      BY <2>1, <2>2 DEF Facturees
    <3>. QED  BY <1>3, <2>2, <2>3, <3>1 DEF IInv, UneFactureParSession
  <2>6. Plafond'
    BY <2>1, <2>2 DEF Plafond
  <2>7. NumerosReclames'
    <3> SUFFICES ASSUME NEW r \in Processus, proc'[r].op = "inserer"
                 PROVE  proc'[r].numero <= Len(factures') + 1 /\ proc'[r].numero <= Capacite
      BY DEF NumerosReclames
    <3>1. proc'[r] = proc[r]
      BY <1>3, <1>4
    <3>2. proc[r].numero \in Nat
      BY <1>1, <3>1, ProcOccupe
    <3>. QED  BY <1>3, <2>2, <3>1, <3>2 DEF IInv, NumerosReclames
  <2>8. FactureJustifiee'
    <3>1. a.session \in DOMAIN sessions /\ Facturable(sessions[a.session])
      BY <1>3 DEF IInv, ArticlesJustifies
    <3>. QED  BY <1>1, <1>3, <2>2, <2>3, <3>1 DEF IInv, FactureJustifiee, Facturable
  <2>. QED  BY <1>1, <1>5, <2>4, <2>5, <2>6, <2>7, <2>8 DEF IInv
<1>. QED  BY <1>6, <1>7

LEMMA InitInv == Init => IInv
<1> SUFFICES ASSUME Init
             PROVE  IInv
  OBVIOUS
<1>1. TypeOK
  BY HypRecharges DEF Init, TypeOK, Point, Etats, Proc
<1>2. factures = <<>> /\ Len(factures) = 0 /\ DOMAIN factures = {}
  BY DEF Init
<1>3. NumerosReclames /\ ArticlesJustifies
  BY DEF Init, NumerosReclames, ArticlesJustifies, Libre
<1>. QED  BY <1>1, <1>2, <1>3, HypRecharges
          DEF IInv, NumerotationContinue, UneFactureParSession, Plafond, FactureJustifiee

LEMMA PasInv == IInv /\ [Next]_vars => IInv'
<1> SUFFICES ASSUME IInv, [Next]_vars
             PROVE  IInv'
  OBVIOUS
<1>0. TypeOK
  BY DEF IInv
<1>1. CASE \E t \in Charges :
             Demarrer(t) \/ Mesurer(t) \/ Arreter(t) \/ Abandonner(t) \/ AccuserArret(t)
  BY <1>0, <1>1, TypePoint, ResteIntact
     DEF Demarrer, Mesurer, Arreter, Abandonner, AccuserArret
<1>2. CASE \E e \in envois : RepondreStart(e) \/ Perdre(e)
  BY <1>0, <1>2, TypePasserelle, ResteIntact DEF RepondreStart, Perdre
<1>3. CASE \E e \in envois : OuvrirSession(e)
  BY <1>0, <1>3, TypeOuvrirSession, SuiviesOuvrir, ProcIntact DEF OuvrirSession
<1>4. CASE \E e \in envois : EcrireMesure(e)
  BY <1>0, <1>4, TypeEcrireMesure, SuiviesMesurer, ProcIntact DEF EcrireMesure
<1>5. CASE \E q \in Processus, e \in envois : Terminer(q, e)
  BY <1>5, InvTerminer
<1>6. CASE \E q \in Processus : Generer(q)
  BY <1>6, InvGenerer
<1>7. CASE \E q \in Processus : Emission(q)
  BY <1>7, InvChercher, InvNumeroter, InvInserer DEF Emission
<1>8. CASE UNCHANGED vars
  <2>1. TypeOK'
    BY <1>0, <1>8 DEF TypeOK, vars
  <2>. QED  BY <1>8, <2>1, ResteIntact DEF vars
<1>. QED  BY <1>1, <1>2, <1>3, <1>4, <1>5, <1>6, <1>7, <1>8 DEF Next, Epuise

LEMMA ToujoursInv == Spec => []IInv
BY InitInv, PasInv, PTL DEF Spec

-----------------------------------------------------------------------------
(* Theorems *)

\* Every variable keeps its type, for any number of charges, tries and processes.
THEOREM TypeCorrect == Spec => []TypeOK
BY ToujoursInv, PTL DEF IInv

\* The invoices are numbered 1, 2, 3... in the order they are issued, whatever the
\* processes that compute their numbers at the same time (FacturationService.php:92).
THEOREM ToujoursContinue == Spec => []NumerotationContinue
BY ToujoursInv, PTL DEF IInv

\* A session has at most one invoice, whatever is replayed (create_factures_table, 27-28).
THEOREM ToujoursUneFacture == Spec => []UneFactureParSession
BY ToujoursInv, PTL DEF IInv

\* The numbers follow each other and no session has two invoices (FacturationUnique).
THEOREM FacturationToujoursUnique == Spec => []FacturationUnique
<1>1. NumerotationContinue /\ UneFactureParSession => FacturationUnique
  BY DEF FacturationUnique
<1>. QED BY <1>1, ToujoursContinue, ToujoursUneFacture, PTL

\* Only a closed session of a customer is invoiced (FacturationService.php:25).
THEOREM ToujoursJustifiee == Spec => []FactureJustifiee
BY ToujoursInv, PTL DEF IInv

\* No more than Capacite invoices are ever issued: the number after Capacite is never
\* reached, because the last number is searched in the order of strings
\* (FacturationService.php:98-100).
THEOREM JamaisAuDela == Spec => []Plafond
BY ToujoursInv, PTL DEF IInv

\* A process passes over a session only when it has its invoice, or gives up all it had
\* left (OcppIngestController.php:184-185).
LEMMA PasSansSaut ==
  IInv /\ [Next]_vars =>
    [\A q \in Processus : proc[q] # Libre /\ proc'[q] # Libre =>
       \A a \in proc[q].reste \ proc'[q].reste : a.session \in Facturees']_vars
<1> SUFFICES ASSUME IInv, Next, NEW q \in Processus, proc[q] # Libre, proc'[q] # Libre,
                    NEW a \in proc[q].reste \ proc'[q].reste
             PROVE  a.session \in Facturees'
  OBVIOUS
<1>0. TypeOK /\ proc \in [Processus -> Proc] /\ factures \in Seq(Facture)
  BY DEF IInv, TypeOK
<1>1. CASE UNCHANGED proc
  BY <1>1
<1>2. CASE \E r \in Processus, e \in envois : Terminer(r, e)
  BY <1>0, <1>2 DEF Terminer
<1>3. CASE \E r \in Processus : Generer(r)
  BY <1>0, <1>3 DEF Generer
<1>4. ASSUME NEW r \in Processus, Chercher(r)
      PROVE  a.session \in Facturees'
  <2>1. r = q
    BY <1>0, <1>4 DEF Chercher
  <2>2. \E b \in proc[q].reste : b.session \in Facturees /\ proc'[q].reste = proc[q].reste \ {b}
    <3>1. CASE proc' = [proc EXCEPT ![q] = Libre]
      BY <1>0, <3>1
    <3>2. CASE proc' = [proc EXCEPT ![q].op = "numeroter"]
      <4>1. proc'[q] = [proc[q] EXCEPT !.op = "numeroter"]
        BY <1>0, <3>2
      <4>2. proc'[q].reste = proc[q].reste
        BY <1>0, <4>1 DEF Proc, Libre
      <4>. QED  BY <4>2
    <3>3. ASSUME NEW b \in proc[q].reste, b.session \in Facturees,
                 proc' = [proc EXCEPT ![q].reste = @ \ {b}]
          PROVE  proc'[q].reste = proc[q].reste \ {b}
      <4>1. proc'[q] = [proc[q] EXCEPT !.reste = @ \ {b}]
        BY <1>0, <3>3
      <4>. QED  BY <1>0, <4>1 DEF Proc, Libre
    <3>. QED  BY <1>4, <2>1, <3>1, <3>2, <3>3 DEF Chercher, Courante
  <2>. QED  BY <1>4, <2>2 DEF Chercher, Facturees
<1>5. ASSUME NEW r \in Processus, Numeroter(r)
      PROVE  a.session \in Facturees'
  BY <1>0, <1>5 DEF Numeroter
<1>6. ASSUME NEW r \in Processus, Inserer(r)
      PROVE  a.session \in Facturees'
  <2>1. r = q
    BY <1>0, <1>6 DEF Inserer
  <2>2. PICK b \in proc[q].reste :
          /\ proc'[q] = Suite(q, b)
          /\ \/ ~Unique(b, proc[q].numero)
             \/ factures' = Append(factures, [session |-> b.session,
                                   numero |-> Len(factures) + 1, montant |-> Montant(b)])
    BY <1>6, <2>1, InsertionJuste
  <2>3. a = b /\ Unique(b, proc[q].numero)
    BY <2>2 DEF Suite
  <2> DEFINE f == [session |-> b.session, numero |-> Len(factures) + 1, montant |-> Montant(b)]
  <2>4. factures' = Append(factures, f) /\ f.session = b.session
    BY <2>2, <2>3
  <2> HIDE DEF f
  <2>5. Len(factures) + 1 \in DOMAIN factures' /\ factures'[Len(factures) + 1] = f
    BY <1>0, <2>4
  <2>. QED  BY <2>3, <2>4, <2>5 DEF Facturees
<1>7. CASE \E t \in Charges :
             Demarrer(t) \/ Mesurer(t) \/ Arreter(t) \/ Abandonner(t) \/ AccuserArret(t)
  BY <1>1, <1>7 DEF Demarrer, Mesurer, Arreter, Abandonner, AccuserArret
<1>8. CASE \E e \in envois : RepondreStart(e) \/ Perdre(e) \/ OuvrirSession(e) \/ EcrireMesure(e)
  BY <1>1, <1>8 DEF RepondreStart, Perdre, OuvrirSession, EcrireMesure
<1>9. CASE Epuise
  BY <1>1, <1>9 DEF Epuise, vars
<1>. QED  BY <1>2, <1>3, <1>4, <1>5, <1>6, <1>7, <1>8, <1>9 DEF Next, Emission

\* The catch-up never forgets a session, for any number of processes.
THEOREM RienNEstJamaisSaute == Spec => RienNEstSaute
BY ToujoursInv, PasSansSaut, PTL DEF RienNEstSaute, Spec


-----------------------------------------------------------------------------
(* The amounts, when no CALL times out *)

SansDelai == "delai" \notin Incidents

\* No id that the gateway made up is that of a session.
IdsLibres == \A id \in IdsLocaux : id \notin DOMAIN sessions

\* The open session i was opened by the charge t.
Tient(t, i) == i \in DOMAIN sessions /\ sessions[i].statut = "EnCours" /\ sessions[i].idTag = t

\* The id i that t was given: that of a session it opened, or one that was made up
Titre(t, i) == i \in IdsLocaux \/ Tient(t, i)

\* The start or the stop of t that is under way
Echange(t) == {e \in envois : e.charge = t /\ e.genre # "meter"}

\* A charge has one exchange under way at most, the one its state says.
EchangeUnique ==
  \A t \in Charges :
    /\ \A e, f \in Echange(t) : e = f
    /\ charge[t].etat \in {"repos", "charge"} => Echange(t) = {}
    /\ charge[t].etat = "demarrage" => \A e \in Echange(t) : e.genre \in {"start", "ouverte"}
    /\ charge[t].etat \in {"arret", "fini"} => \A e \in Echange(t) : e.genre = "stop"

\* The ids in use are those of open sessions, each one of the charge that opened it,
\* or were made up.
Titres ==
  /\ \A t \in Charges : charge[t].etat = "charge" => Titre(t, charge[t].id)
  /\ \A e \in envois :
       e.genre = "stop" \/ (e.genre = "ouverte" /\ e.id # Refuse) => Titre(e.charge, e.id)

\* What a process read of a session is still its price.
ArticlesFideles ==
  \A q \in Processus : proc[q] # Libre => \A a \in proc[q].reste : a.prix = sessions[a.session].prix

MontantsFideles ==
  \A i \in DOMAIN factures : factures[i].montant = sessions[factures[i].session].prix

Fidele == EchangeUnique /\ Titres /\ ArticlesFideles /\ MontantsFideles

\* The steps of a charge point that send nothing but measures
LEMMA FidelePoint ==
  ASSUME SansDelai, IInv, Fidele, NEW t \in Charges,
         Demarrer(t) \/ Mesurer(t) \/ Arreter(t) \/ Abandonner(t) \/ AccuserArret(t)
  PROVE  Fidele'
<1>0. charge \in [Charges -> Point] /\ envois \subseteq Envoi /\ charge[t] \in Point
  BY DEF IInv, TypeOK
<1>1. UNCHANGED <<sessions, factures, proc>>
  BY DEF Demarrer, Mesurer, Arreter, Abandonner, AccuserArret
<1>2. \A u, i : Titre(u, i)' <=> Titre(u, i)
  BY <1>1 DEF Titre, Tient
<1>3. ArticlesFideles' /\ MontantsFideles'
  BY <1>1 DEF Fidele, ArticlesFideles, MontantsFideles
<1>4. CASE Demarrer(t)
  <2> DEFINE e == [EnvoiDe(t, "start") EXCEPT !.essai = @ + 1]
  <2>1. e.genre = "start" /\ e.charge = t
    BY DEF EnvoiDe
  <2>2. envois' = envois \cup {e} /\ charge[t].etat = "repos"
    BY <1>4 DEF Demarrer
  <2>3. /\ charge'[t].etat = "demarrage"
        /\ \A u \in Charges : u # t => charge'[u] = charge[u]
    BY <1>0, <1>4 DEF Demarrer, Point
  <2> HIDE DEF e
  <2>4. Echange(t)' = {e} /\ \A u \in Charges : u # t => Echange(u)' = Echange(u)
    BY <2>1, <2>2 DEF Fidele, EchangeUnique, Echange
  <2>5. EchangeUnique'
    <3> SUFFICES ASSUME NEW u \in Charges
                 PROVE  /\ \A a, b \in Echange(u)' : a = b
                        /\ charge'[u].etat \in {"repos", "charge"} => Echange(u)' = {}
                        /\ charge'[u].etat = "demarrage" =>
                             \A a \in Echange(u)' : a.genre \in {"start", "ouverte"}
                        /\ charge'[u].etat \in {"arret", "fini"} =>
                             \A a \in Echange(u)' : a.genre = "stop"
      BY DEF EchangeUnique
    <3>1. CASE u = t
      BY <2>1, <2>3, <2>4, <3>1
    <3>2. CASE u # t
      BY <2>3, <2>4, <3>2 DEF Fidele, EchangeUnique
    <3>. QED BY <3>1, <3>2
  <2>6. Titres'
    BY <1>2, <2>1, <2>2, <2>3 DEF Fidele, Titres
  <2>. QED BY <1>3, <2>5, <2>6 DEF Fidele
<1>5. CASE Mesurer(t)
  <2> DEFINE e == [EnvoiDe(t, "meter") EXCEPT !.energie = @ + 1]
  <2>1. e.genre = "meter"
    BY DEF EnvoiDe
  <2>2. envois' = envois \cup {e}
    BY <1>5 DEF Mesurer
  <2>3. \A u \in Charges : charge'[u].etat = charge[u].etat /\ charge'[u].id = charge[u].id
    BY <1>0, <1>5 DEF Mesurer, Point
  <2> HIDE DEF e
  <2>4. \A u \in Charges : Echange(u)' = Echange(u)
    BY <2>1, <2>2 DEF Echange
  <2>5. EchangeUnique'
    BY <2>3, <2>4 DEF Fidele, EchangeUnique
  <2>6. Titres'
    BY <1>2, <2>1, <2>2, <2>3 DEF Fidele, Titres
  <2>. QED BY <1>3, <2>5, <2>6 DEF Fidele
<1>6. CASE Arreter(t)
  <2> DEFINE e == EnvoiDe(t, "stop")
  <2>1. e.genre = "stop" /\ e.charge = t /\ e.id = charge[t].id
    BY DEF EnvoiDe
  <2>2. envois' = envois \cup {e} /\ charge[t].etat = "charge"
    BY <1>6 DEF Arreter
  <2>3. /\ charge'[t].etat = "arret"
        /\ \A u \in Charges : u # t => charge'[u] = charge[u]
    BY <1>0, <1>6 DEF Arreter, Point
  <2> HIDE DEF e
  <2>4. Echange(t)' = {e} /\ \A u \in Charges : u # t => Echange(u)' = Echange(u)
    BY <2>1, <2>2 DEF Fidele, EchangeUnique, Echange
  <2>5. EchangeUnique'
    <3> SUFFICES ASSUME NEW u \in Charges
                 PROVE  /\ \A a, b \in Echange(u)' : a = b
                        /\ charge'[u].etat \in {"repos", "charge"} => Echange(u)' = {}
                        /\ charge'[u].etat = "demarrage" =>
                             \A a \in Echange(u)' : a.genre \in {"start", "ouverte"}
                        /\ charge'[u].etat \in {"arret", "fini"} =>
                             \A a \in Echange(u)' : a.genre = "stop"
      BY DEF EchangeUnique
    <3>1. CASE u = t
      BY <2>1, <2>3, <2>4, <3>1
    <3>2. CASE u # t
      BY <2>3, <2>4, <3>2 DEF Fidele, EchangeUnique
    <3>. QED BY <3>1, <3>2
  <2>6. Titre(t, charge[t].id)
    BY <2>2 DEF Fidele, Titres
  <2>7. Titres'
    BY <1>2, <2>1, <2>2, <2>3, <2>6 DEF Fidele, Titres
  <2>. QED BY <1>3, <2>5, <2>7 DEF Fidele
<1>7. CASE Abandonner(t)
  BY <1>7 DEF Abandonner, SansDelai
<1>8. CASE AccuserArret(t)
  <2>1. /\ charge[t].etat = "arret" /\ charge'[t].etat = "fini" /\ envois' = envois
        /\ \A u \in Charges : u # t => charge'[u] = charge[u]
    BY <1>0, <1>8 DEF AccuserArret, Point
  <2>2. \A u \in Charges : Echange(u)' = Echange(u)
    BY <2>1 DEF Echange
  <2>3. EchangeUnique'
    BY <2>1, <2>2 DEF Fidele, EchangeUnique
  <2>4. Titres'
    BY <1>2, <2>1 DEF Fidele, Titres
  <2>. QED BY <1>3, <2>3, <2>4 DEF Fidele
<1>. QED BY <1>4, <1>5, <1>6, <1>7, <1>8

LEMMA FideleReponse ==
  ASSUME IInv, Fidele, NEW e \in envois, RepondreStart(e)
  PROVE  Fidele'
<1>0. charge \in [Charges -> Point] /\ e \in Envoi /\ e.charge \in Charges
  BY DEF IInv, TypeOK, Envoi
<1>1. /\ e.genre \in {"start", "ouverte"} /\ envois' = envois \ {e}
      /\ UNCHANGED <<sessions, factures, proc>>
  BY DEF RepondreStart
<1>9. PICK id : Annoncer(e, id) /\ (id \in IdsLocaux \/ (e.genre = "ouverte" /\ id = e.id))
  BY DEF RepondreStart
<1>2. \A u, i : Titre(u, i)' <=> Titre(u, i)
  BY <1>1 DEF Titre, Tient
<1>3. ArticlesFideles' /\ MontantsFideles'
  BY <1>1 DEF Fidele, ArticlesFideles, MontantsFideles
<1>4. /\ \A u \in Charges : Echange(u)' \subseteq Echange(u)
      /\ Echange(e.charge)' = {}
  BY <1>0, <1>1 DEF Fidele, EchangeUnique, Echange
<1>5. /\ \A u \in Charges : u # e.charge => charge'[u] = charge[u]
      /\ \/ charge' = charge
         \/ /\ charge'[e.charge].etat = "repos"
         \/ /\ charge'[e.charge].etat = "charge" /\ charge'[e.charge].id = id /\ id # Refuse
  BY <1>0, <1>9 DEF Annoncer, Point
<1>6. EchangeUnique'
  <2> SUFFICES ASSUME NEW u \in Charges
               PROVE  /\ \A a, b \in Echange(u)' : a = b
                      /\ charge'[u].etat \in {"repos", "charge"} => Echange(u)' = {}
                      /\ charge'[u].etat = "demarrage" =>
                           \A a \in Echange(u)' : a.genre \in {"start", "ouverte"}
                      /\ charge'[u].etat \in {"arret", "fini"} =>
                           \A a \in Echange(u)' : a.genre = "stop"
    BY DEF EchangeUnique
  <2>1. CASE u = e.charge
    BY <1>4, <2>1
  <2>2. CASE u # e.charge
    BY <1>4, <1>5, <2>2 DEF Fidele, EchangeUnique
  <2>. QED BY <2>1, <2>2
<1>7. Titres'
  <2>1. id # Refuse => Titre(e.charge, id)
    BY <1>9 DEF Fidele, Titres, Titre
  <2>2. ASSUME NEW u \in Charges, charge'[u].etat = "charge"
        PROVE  Titre(u, charge[u].id)'
    <3>1. CASE u = e.charge
      BY <1>2, <1>5, <2>1, <2>2, <3>1 DEF Fidele, Titres
    <3>2. CASE u # e.charge
      BY <1>2, <1>5, <2>2, <3>2 DEF Fidele, Titres
    <3>. QED BY <3>1, <3>2
  <2>3. ASSUME NEW f \in envois',
               f.genre = "stop" \/ (f.genre = "ouverte" /\ f.id # Refuse)
        PROVE  Titre(f.charge, f.id)'
    BY <1>1, <1>2, <2>3 DEF Fidele, Titres
  <2>. QED BY <2>2, <2>3 DEF Titres
<1>. QED BY <1>3, <1>6, <1>7 DEF Fidele


\* A post that fails leaves less to wait for.
LEMMA FidelePerdre ==
  ASSUME Fidele, NEW e \in envois, Perdre(e)
  PROVE  Fidele'
<1>1. envois' = envois \ {e} /\ UNCHANGED <<charge, sessions, factures, proc>>
  BY DEF Perdre
<1>2. \A u \in Charges : Echange(u)' \subseteq Echange(u)
  BY <1>1 DEF Echange
<1>3. EchangeUnique'
  BY <1>1, <1>2 DEF Fidele, EchangeUnique
<1>4. Titres'
  BY <1>1 DEF Fidele, Titres, Titre, Tient
<1>. QED BY <1>1, <1>3, <1>4 DEF Fidele, ArticlesFideles, MontantsFideles

\* A step on the sessions keeps the prices that a process or an invoice refers to.
PrixSuivis ==
  \A i \in DOMAIN sessions : Facturable(sessions[i]) => sessions'[i].prix = sessions[i].prix

LEMMA MontantsSuivis ==
  ASSUME IInv, Fidele, PrixSuivis, UNCHANGED factures
  PROVE  /\ MontantsFideles'
         /\ UNCHANGED proc => ArticlesFideles'
<1>1. MontantsFideles'
  <2> SUFFICES ASSUME NEW i \in DOMAIN factures
               PROVE  factures[i].montant = sessions'[factures[i].session].prix
    BY DEF MontantsFideles
  <2>1. factures[i].session \in DOMAIN sessions /\ Facturable(sessions[factures[i].session])
    BY DEF IInv, FactureJustifiee, Facturable
  <2>. QED BY <2>1 DEF PrixSuivis, Fidele, MontantsFideles
<1>2. ASSUME UNCHANGED proc PROVE ArticlesFideles'
  BY <1>2 DEF PrixSuivis, Fidele, ArticlesFideles, IInv, ArticlesJustifies
<1>. QED BY <1>1, <1>2

\* The exchanges of the charges, when one of them goes on or ends
LEMMA EchangeSuivi ==
  ASSUME EchangeUnique, NEW t \in Charges, UNCHANGED charge,
         \A u \in Charges : u # t => Echange(u)' = Echange(u),
         \/ Echange(t)' = {}
         \/ \E e, f : Echange(t) = {e} /\ Echange(t)' = {f} /\ e.genre = "start" /\ f.genre = "ouverte"
  PROVE  EchangeUnique'
<1> SUFFICES ASSUME NEW u \in Charges
             PROVE  /\ \A a, b \in Echange(u)' : a = b
                    /\ charge[u].etat \in {"repos", "charge"} => Echange(u)' = {}
                    /\ charge[u].etat = "demarrage" =>
                         \A a \in Echange(u)' : a.genre \in {"start", "ouverte"}
                    /\ charge[u].etat \in {"arret", "fini"} =>
                         \A a \in Echange(u)' : a.genre = "stop"
  BY DEF EchangeUnique
<1>1. CASE u = t
  <2>1. CASE Echange(t)' = {}
    BY <1>1, <2>1
  <2>2. CASE \E e, f : /\ Echange(t) = {e} /\ Echange(t)' = {f}
                       /\ e.genre = "start" /\ f.genre = "ouverte"
    BY <1>1, <2>2 DEF EchangeUnique
  <2>. QED BY <2>1, <2>2
<1>2. CASE u # t
  BY <1>2 DEF EchangeUnique
<1>. QED BY <1>1, <1>2

LEMMA FideleOuvrir ==
  ASSUME IInv, Fidele, NEW e \in envois, OuvrirSession(e)
  PROVE  Fidele'
<1>0. sessions \in Seq(Session) /\ e \in Envoi /\ e.charge \in Charges /\ e.genre = "start"
  BY DEF IInv, TypeOK, Envoi, OuvrirSession
<1>1. PICK id \in Nat :
        /\ envois' = (envois \ {e}) \cup {[e EXCEPT !.genre = "ouverte", !.id = id]}
        /\ \/ /\ id = Len(sessions) + 1
              /\ sessions' = Append(sessions, [statut |-> "EnCours", idTag |-> e.charge,
                                               energie |-> 0, prix |-> 0])
           \/ id = Refuse /\ sessions' = sessions
  <2>1. Len(sessions) + 1 \in Nat /\ 0 \in Nat
    BY <1>0
  <2>2. CASE /\ UNCHANGED sessions
             /\ envois' = (envois \ {e}) \cup {[e EXCEPT !.genre = "ouverte", !.id = Refuse]}
    BY <2>1, <2>2 DEF Refuse
  <2>3. CASE /\ sessions' = Append(sessions, [statut |-> "EnCours", idTag |-> e.charge,
                                              energie |-> 0, prix |-> 0])
             /\ envois' = (envois \ {e}) \cup
                  {[e EXCEPT !.genre = "ouverte", !.id = Len(sessions) + 1]}
    BY <2>1, <2>3
  <2>. QED BY <2>2, <2>3 DEF OuvrirSession
<1>2. UNCHANGED <<charge, factures, proc>>
  BY DEF OuvrirSession
<1> DEFINE f == [e EXCEPT !.genre = "ouverte", !.id = id]
<1>3. f.genre = "ouverte" /\ f.charge = e.charge /\ f.id = id
  BY <1>0 DEF Envoi
<1>4. envois' = (envois \ {e}) \cup {f}
  BY <1>1
<1> HIDE DEF f
<1>5. Echange(e.charge) = {e} /\ Echange(e.charge)' = {f}
  BY <1>0, <1>3, <1>4 DEF Fidele, EchangeUnique, Echange
<1>6. EchangeUnique'
  <2>1. \A u \in Charges : u # e.charge => Echange(u)' = Echange(u)
    BY <1>3, <1>4 DEF Echange
  <2>. QED BY <1>0, <1>2, <1>3, <1>5, <2>1, EchangeSuivi DEF Fidele
<1>7. \A u, i : Titre(u, i) => Titre(u, i)'
  BY <1>0, <1>1 DEF Titre, Tient
<1>8. id # Refuse => Titre(f.charge, f.id)'
  BY <1>0, <1>1, <1>3 DEF Titre, Tient
<1>9. Titres'
  <2>1. ASSUME NEW u \in Charges, charge'[u].etat = "charge"
        PROVE  Titre(u, charge[u].id)'
    <3>1. charge[u].etat = "charge" /\ charge' = charge
      BY <1>2, <2>1
    <3>. QED BY <1>7, <3>1 DEF Fidele, Titres
  <2>2. ASSUME NEW g \in envois', g.genre = "stop" \/ (g.genre = "ouverte" /\ g.id # Refuse)
        PROVE  Titre(g.charge, g.id)'
    BY <1>3, <1>4, <1>7, <1>8, <2>2 DEF Fidele, Titres
  <2>. QED BY <2>1, <2>2 DEF Titres
<1>10. PrixSuivis
  BY <1>0, <1>1 DEF PrixSuivis
<1>. QED BY <1>2, <1>6, <1>9, <1>10, MontantsSuivis DEF Fidele

LEMMA FideleMesurer ==
  ASSUME IInv, Fidele, NEW e \in envois, EcrireMesure(e)
  PROVE  Fidele'
<1>0. /\ sessions \in Seq(Session) /\ \A i \in DOMAIN sessions : sessions[i] \in Session
      /\ e.genre = "meter" /\ envois' = envois \ {e} /\ UNCHANGED <<charge, factures, proc>>
  BY DEF IInv, TypeOK, EcrireMesure
<1>1. \A u \in Charges : Echange(u)' = Echange(u)
  BY <1>0 DEF Echange
<1>2. EchangeUnique'
  BY <1>0, <1>1 DEF Fidele, EchangeUnique
<1>3. /\ DOMAIN sessions' = DOMAIN sessions
      /\ \A i \in DOMAIN sessions :
           /\ sessions'[i].statut = sessions[i].statut /\ sessions'[i].idTag = sessions[i].idTag
           /\ sessions'[i].prix = sessions[i].prix
  BY <1>0 DEF EcrireMesure, Session
<1>4. \A u, i : Titre(u, i) => Titre(u, i)'
  BY <1>3 DEF Titre, Tient
<1>5. Titres'
  BY <1>0, <1>4 DEF Fidele, Titres
<1>6. PrixSuivis
  BY <1>3 DEF PrixSuivis
<1>. QED BY <1>0, <1>2, <1>5, <1>6, MontantsSuivis DEF Fidele

\* The stop closes a session that no process and no invoice refers to yet.
LEMMA FideleFin ==
  ASSUME IInv, Fidele, NEW q \in Processus, NEW e \in envois, Terminer(q, e),
         Tient(e.charge, e.id)
  PROVE  Fidele'
<1>0. /\ sessions \in Seq(Session) /\ e \in Envoi /\ e.charge \in Charges /\ e.genre = "stop"
      /\ proc \in [Processus -> Proc] /\ envois' = envois \ {e} /\ UNCHANGED <<charge, factures>>
  BY DEF IInv, TypeOK, Envoi, Terminer
<1>1. Tient(e.charge, e.id)
  OBVIOUS
<1> DEFINE s == Close(sessions[e.id], e)
<1>2. /\ sessions' = [sessions EXCEPT ![e.id] = s]
      /\ \/ proc' = proc
         \/ proc' = [proc EXCEPT ![q] =
              [op |-> "chercher", reste |-> {[session |-> e.id, prix |-> s.prix]},
               pour |-> [charge |-> e.charge, essai |-> e.essai]]]
  BY <1>1 DEF Terminer, Tient
<1> HIDE DEF s
<1>3. /\ e.id \in DOMAIN sessions /\ DOMAIN sessions' = DOMAIN sessions /\ sessions'[e.id] = s
      /\ \A i \in DOMAIN sessions : i # e.id => sessions'[i] = sessions[i]
      /\ ~Facturable(sessions[e.id])
  BY <1>0, <1>1, <1>2 DEF Tient, Facturable
<1>4. PrixSuivis
  BY <1>3 DEF PrixSuivis
<1>5. Echange(e.charge)' = {} /\ \A u \in Charges : u # e.charge => Echange(u)' = Echange(u)
  BY <1>0 DEF Fidele, EchangeUnique, Echange
<1>6. EchangeUnique'
  BY <1>0, <1>5, EchangeSuivi DEF Fidele
<1>7. \A u, i : u # e.charge /\ Titre(u, i) => Titre(u, i)'
  BY <1>1, <1>3 DEF Titre, Tient
<1>8. charge[e.charge].etat # "charge"
  BY <1>0 DEF Fidele, EchangeUnique, Echange
<1>9. ASSUME NEW f \in envois', f.genre = "stop" \/ (f.genre = "ouverte" /\ f.id # Refuse)
      PROVE  Titre(f.charge, f.id)'
  <2>1. f.charge # e.charge
    BY <1>0, <1>5, <1>9 DEF Echange
  <2>. QED BY <1>0, <1>7, <1>9, <2>1 DEF Fidele, Titres
<1>10. Titres'
  BY <1>0, <1>7, <1>8, <1>9 DEF Fidele, Titres
<1>11. MontantsFideles' /\ (UNCHANGED proc => ArticlesFideles')
  BY <1>0, <1>4, MontantsSuivis
<1>12. CASE proc' # proc
  <2> SUFFICES ASSUME NEW r \in Processus, proc'[r] # Libre, NEW a \in proc'[r].reste
               PROVE  a.prix = sessions'[a.session].prix
    BY <1>6, <1>10, <1>11 DEF Fidele, ArticlesFideles
  <2>1. CASE r = q
    BY <1>0, <1>2, <1>3, <1>12, <2>1
  <2>2. CASE r # q
    <3>1. proc'[r] = proc[r]
      BY <1>0, <1>2, <2>2
    <3>. QED BY <1>4, <3>1 DEF PrixSuivis, Fidele, ArticlesFideles, IInv, ArticlesJustifies
  <2>. QED BY <2>1, <2>2
<1>. QED BY <1>6, <1>10, <1>11, <1>12 DEF Fidele

\* A stop with an id that was made up finds no session.
LEMMA FideleTerminer ==
  ASSUME IInv, Fidele, IdsLibres, NEW q \in Processus, NEW e \in envois, Terminer(q, e)
  PROVE  Fidele'
<1>0. /\ e \in Envoi /\ e.charge \in Charges /\ e.genre = "stop"
      /\ envois' = envois \ {e} /\ UNCHANGED <<charge, factures>>
  BY DEF IInv, TypeOK, Envoi, Terminer
<1>1. CASE Tient(e.charge, e.id)
  BY <1>1, FideleFin
<1>2. CASE e.id \in IdsLocaux
  <2>1. UNCHANGED <<sessions, proc>>
    BY <1>2 DEF Terminer, IdsLibres
  <2>2. Echange(e.charge)' = {} /\ \A u \in Charges : u # e.charge => Echange(u)' = Echange(u)
    BY <1>0 DEF Fidele, EchangeUnique, Echange
  <2>3. EchangeUnique'
    BY <1>0, <2>2, EchangeSuivi DEF Fidele
  <2>4. Titres'
    BY <1>0, <2>1 DEF Fidele, Titres, Titre, Tient
  <2>. QED BY <1>0, <2>1, <2>3, <2>4 DEF Fidele, ArticlesFideles, MontantsFideles
<1>. QED BY <1>0, <1>1, <1>2 DEF Fidele, Titres, Titre

\* A step of the PHP processes that leaves the sessions and the posts alone
LEMMA EchangesIntacts ==
  ASSUME Fidele, UNCHANGED <<charge, envois, sessions>>
  PROVE  EchangeUnique' /\ Titres'
BY DEF Fidele, EchangeUnique, Echange, Titres, Titre, Tient

LEMMA FideleEmission ==
  ASSUME IInv, Fidele, NEW q \in Processus, Generer(q) \/ Chercher(q) \/ Numeroter(q)
  PROVE  Fidele'
<1>0. /\ sessions \in Seq(Session) /\ proc \in [Processus -> Proc]
      /\ UNCHANGED <<charge, envois, sessions, factures>>
  BY DEF IInv, TypeOK, Generer, Chercher, Numeroter
<1>1. MontantsFideles'
  BY <1>0 DEF Fidele, MontantsFideles
<1>2. \A r \in Processus : r # q => proc'[r] = proc[r]
  BY <1>0 DEF Generer, Chercher, Numeroter
<1>3. CASE Generer(q)
  <2>1. proc'[q].reste = Manquantes
    BY <1>0, <1>3 DEF Generer
  <2>. QED BY <1>0, <1>1, <1>2, <2>1, EchangesIntacts DEF Fidele, ArticlesFideles, Manquantes
<1>4. ASSUME proc[q] # Libre, proc'[q] = Libre \/ proc'[q].reste \subseteq proc[q].reste
      PROVE  Fidele'
  BY <1>0, <1>1, <1>2, <1>4, EchangesIntacts DEF Fidele, ArticlesFideles
<1>5. CASE Chercher(q)
  <2>1. proc[q] # Libre /\ proc[q].op = "chercher"
    BY <1>5, ProcOccupe DEF IInv, Chercher
  <2>2. proc[q] \in [op: {"chercher", "numeroter"}, reste: SUBSET Article,
                     pour: Demandes \cup {Personnel}]
    BY <1>0, <2>1 DEF Proc, Libre
  <2>3. \/ proc' = [proc EXCEPT ![q] = Libre]
        \/ \E a \in proc[q].reste : proc' = [proc EXCEPT ![q] = [proc[q] EXCEPT !.reste = @ \ {a}]]
        \/ proc' = [proc EXCEPT ![q] = [proc[q] EXCEPT !.op = "numeroter"]]
    BY <1>5 DEF Chercher, Courante
  <2>4. proc'[q] = Libre \/ proc'[q].reste \subseteq proc[q].reste
    BY <1>0, <2>2, <2>3
  <2>. QED BY <1>4, <2>1, <2>4
<1>6. CASE Numeroter(q)
  <2>1. proc[q] # Libre
    BY <1>6, ProcOccupe DEF IInv, Numeroter
  <2>2. proc'[q].reste = proc[q].reste
    BY <1>0, <1>6 DEF Numeroter
  <2>. QED BY <1>4, <2>1, <2>2
<1>. QED BY <1>3, <1>5, <1>6

LEMMA FideleInserer ==
  ASSUME IInv, Fidele, NEW q \in Processus, Inserer(q)
  PROVE  Fidele'
<1>0. /\ factures \in Seq(Facture) /\ proc \in [Processus -> Proc] /\ proc[q] # Libre
      /\ UNCHANGED <<charge, envois, sessions>>
  BY ProcOccupe DEF IInv, TypeOK, Inserer
<1>1. PICK a \in proc[q].reste :
        /\ proc'[q] = Suite(q, a)
        /\ \/ factures' = factures
           \/ factures' = Append(factures, [session |-> a.session,
                                 numero |-> Len(factures) + 1, montant |-> Montant(a)])
  BY InsertionJuste
<1>2. \A r \in Processus : r # q => proc'[r] = proc[r]
  BY <1>0 DEF Inserer
<1>3. ArticlesFideles'
  <2>1. proc'[q] = Libre \/ proc'[q].reste \subseteq proc[q].reste
    BY <1>1 DEF Suite
  <2>. QED BY <1>0, <1>2, <2>1 DEF Fidele, ArticlesFideles
<1>4. a.prix = sessions[a.session].prix
  BY <1>0 DEF Fidele, ArticlesFideles
<1>5. MontantsFideles'
  <2>1. CASE factures' = factures
    BY <1>0, <2>1 DEF Fidele, MontantsFideles
  <2>2. CASE factures' # factures
    <3> DEFINE f == [session |-> a.session, numero |-> Len(factures) + 1, montant |-> Montant(a)]
    <3>1. factures' = Append(factures, f) /\ f.session = a.session /\ f.montant = a.prix
      BY <1>1, <2>2 DEF Montant
    <3> HIDE DEF f
    <3>2. \A i \in DOMAIN factures' :
            factures'[i] = f \/ (i \in DOMAIN factures /\ factures'[i] = factures[i])
      BY <1>0, <3>1
    <3>. QED BY <1>0, <1>4, <3>1, <3>2 DEF Fidele, MontantsFideles
  <2>. QED BY <2>1, <2>2
<1>. QED BY <1>0, <1>3, <1>5, EchangesIntacts DEF Fidele

\* Sessions keep their ids: one that is free was free.
LEMMA IdsLibresAvant == IInv /\ [Next]_vars /\ IdsLibres' => IdsLibres
<1> SUFFICES ASSUME IInv, [Next]_vars PROVE DOMAIN sessions \subseteq DOMAIN sessions'
  BY DEF IdsLibres
<1>1. CASE \E e \in envois : OuvrirSession(e) \/ EcrireMesure(e)
  BY <1>1, SuiviesOuvrir, SuiviesMesurer DEF IInv, SessionsSuivies
<1>2. CASE \E q \in Processus, e \in envois : Terminer(q, e)
  BY <1>2, SuiviesTerminer DEF IInv, SessionsSuivies
<1>3. CASE UNCHANGED sessions
  BY <1>3
<1>4. CASE \E t \in Charges :
             Demarrer(t) \/ Mesurer(t) \/ Arreter(t) \/ Abandonner(t) \/ AccuserArret(t)
  BY <1>3, <1>4 DEF Demarrer, Mesurer, Arreter, Abandonner, AccuserArret
<1>5. CASE \E e \in envois : RepondreStart(e) \/ Perdre(e)
  BY <1>3, <1>5 DEF RepondreStart, Perdre
<1>6. CASE \E q \in Processus : Generer(q) \/ Emission(q)
  BY <1>3, <1>6 DEF Generer, Emission, Chercher, Numeroter, Inserer
<1>. QED BY <1>1, <1>2, <1>3, <1>4, <1>5, <1>6 DEF Next, Epuise, vars

LEMMA FidelePas ==
  ASSUME SansDelai
  PROVE  IInv /\ (IdsLibres => Fidele) /\ [Next]_vars => (IdsLibres => Fidele)'
<1> SUFFICES ASSUME IInv, IdsLibres, Fidele, [Next]_vars
             PROVE  Fidele'
  BY IdsLibresAvant
<1>1. CASE \E t \in Charges :
             Demarrer(t) \/ Mesurer(t) \/ Arreter(t) \/ Abandonner(t) \/ AccuserArret(t)
  BY <1>1, FidelePoint
<1>2. CASE \E e \in envois : RepondreStart(e) \/ Perdre(e) \/ OuvrirSession(e) \/ EcrireMesure(e)
  BY <1>2, FideleReponse, FidelePerdre, FideleOuvrir, FideleMesurer
<1>3. CASE \E q \in Processus, e \in envois : Terminer(q, e)
  BY <1>3, FideleTerminer
<1>4. CASE \E q \in Processus : Generer(q) \/ Emission(q)
  BY <1>4, FideleEmission, FideleInserer DEF Emission
<1>5. CASE UNCHANGED vars
  BY <1>5, EchangesIntacts DEF vars, Fidele, ArticlesFideles, MontantsFideles
<1>. QED BY <1>1, <1>2, <1>3, <1>4, <1>5 DEF Next, Epuise

LEMMA FideleInitial == Init => Fidele
BY DEF Init, Fidele, EchangeUnique, Echange, Titres, ArticlesFideles, MontantsFideles, Libre

\* When no CALL times out, and as long as no id made up by the gateway is that of a
\* session (ocppHandlers.js, 87), an invoice is that of a session closed once and for
\* all, at the price it was closed with, whatever posts fail, the order in which they
\* reach Laravel and the number of its processes (create_factures_table, 15-17).
THEOREM ToujoursFidele == ASSUME SansDelai PROVE Spec => [](IdsLibres => FactureFidele)
<1>1. IInv /\ (IdsLibres => Fidele) => (IdsLibres => FactureFidele)
  BY DEF IInv, Fidele, MontantsFideles, FactureFidele
<1>. QED BY <1>1, FideleInitial, FidelePas, ToujoursInv, PTL DEF Spec


-----------------------------------------------------------------------------
(* Every closed session is invoiced, when one PHP process does it *)

EnSerie == \A q, r \in Processus : q = r

\* A closed session of a customer has its invoice, or the process has it left to do.
EnAttente ==
  \A i \in DOMAIN sessions : Facturable(sessions[i]) =>
    \/ i \in Facturees
    \/ \E q \in Processus : proc[q] # Libre /\ \E a \in proc[q].reste : a.session = i

\* The number to insert is free, and so is the session.
NumeroSuivant ==
  \A q \in Processus :
    /\ proc[q].op = "inserer" => proc[q].numero = Len(factures) + 1
    /\ proc[q].op \in {"numeroter", "inserer"} =>
         Courante(q) # {} /\ \A a \in Courante(q) : a.session \notin Facturees

\* As long as there are no more sessions than numbers
Complet == Len(sessions) <= Capacite => EnAttente /\ NumeroSuivant

\* Below Capacite, the next number follows the number of invoices.
LEMMA SuivantExact ==
  ASSUME TypeOK, NumerotationContinue, Len(factures) < Capacite
  PROVE  Suivant = Len(factures) + 1
<1>. PICK L \in Nat : L = Len(factures)
  BY DEF TypeOK
<1>0. factures \in Seq(Facture) /\ DOMAIN factures = 1..L /\ Base \in Nat
  BY HypRecharges DEF TypeOK
<1>1. CASE factures = <<>>
  BY <1>0, <1>1 DEF Suivant
<1>2. CASE factures # <<>>
  <2>1. Numeros = 1..L /\ L >= 1
    BY <1>0, <1>2 DEF Numeros, NumerotationContinue
  <2> DEFINE Dernier(n) == \A m \in Numeros : Ordre(m) <= Ordre(n)
             n == CHOOSE k \in Numeros : Dernier(k)
  <2>2. L \in Numeros /\ Dernier(L)
    BY <1>0, <2>1, OrdreCroissant
  <2>3. n \in Numeros /\ Dernier(n)
    BY <2>2
  <2>4. Suivant = 1 + n
    BY <1>2 DEF Suivant
  <2> HIDE DEF n
  <2>5. Ordre(L) <= Ordre(n) /\ n \in 1..L /\ n \in Nat /\ n < Capacite
    BY <1>0, <2>1, <2>2, <2>3, HypRecharges
  <2>6. Ordre(L) = (Base + 1) * L /\ Ordre(n) = (Base + 1) * n
    BY <1>0, <2>5 DEF Ordre
  <2>7. n = L
    <3> SUFFICES ASSUME n # L PROVE FALSE
      OBVIOUS
    <3>1. n \in Nat /\ n + 1 <= L /\ Base \in Nat
      BY <1>0, <2>5
    <3>2. (Base + 1) * L >= (Base + 1) * (n + 1)
      BY <1>0, <3>1
    <3>3. (Base + 1) * (n + 1) = (Base + 1) * n + Base + 1 /\ (Base + 1) * n \in Nat
      BY <3>1
    <3>4. (Base + 1) * L \in Nat
      BY <1>0, <3>1
    <3>. QED BY <2>5, <2>6, <3>1, <3>2, <3>3, <3>4
  <2>. QED BY <1>0, <2>4, <2>7
<1>. QED BY <1>1, <1>2

\* There are no more invoices than sessions, and fewer when one is still to invoice.
LEMMA FacturesBornees ==
  ASSUME IInv, NEW s \in DOMAIN sessions, s \notin Facturees
  PROVE  Len(factures) < Len(sessions)
<1>. PICK L \in Nat : L = Len(factures)
  BY DEF IInv, TypeOK
<1>. PICK S \in Nat : S = Len(sessions)
  BY DEF IInv, TypeOK
<1>0. /\ factures \in Seq(Facture) /\ DOMAIN factures = 1..L
      /\ sessions \in Seq(Session) /\ DOMAIN sessions = 1..S
  BY DEF IInv, TypeOK
<1> DEFINE g == [i \in 1..(L + 1) |-> IF i = L + 1 THEN s ELSE factures[i].session]
<1>1. g \in [1..(L + 1) -> 1..S]
  BY <1>0 DEF IInv, FactureJustifiee
<1>2. \A i, j \in 1..(L + 1) : g[i] = g[j] => i = j
  BY <1>0 DEF IInv, UneFactureParSession, Facturees
<1>3. IsFiniteSet(1..S) /\ Cardinality(1..S) = S
  <2>1. PICK u \in Int : u = 1
    OBVIOUS
  <2>2. PICK v \in Int : v = S
    OBVIOUS
  <2>3. IsFiniteSet(u..v) /\ Cardinality(u..v) = IF u > v THEN 0 ELSE v - u + 1
    BY FS_Interval
  <2>4. S - 1 + 1 = S /\ (1 > S => S = 0)
    OBVIOUS
  <2>. QED BY <2>1, <2>2, <2>3, <2>4
<1>4. IsFiniteSet(1..(L + 1)) /\ Cardinality(1..(L + 1)) = L + 1
  BY <1>0, FS_Interval
<1> HIDE DEF g
<1>5. g \in Injection(1..(L + 1), 1..S)
  BY <1>1, <1>2 DEF Injection, IsInjective
<1>6. Cardinality(1..(L + 1)) <= Cardinality(1..S)
  BY <1>3, <1>5, FS_Injection
<1>. QED BY <1>0, <1>3, <1>4, <1>6

\* Two articles a process is at are of the same session.
LEMMA MemeSession ==
  ASSUME TypeOK, NEW q \in Processus, proc[q] # Libre, NEW a \in Courante(q), NEW b \in Courante(q)
  PROVE  a.session = b.session
<1>1. a \in Article /\ b \in Article
  BY ProcOccupe DEF Courante
<1>2. a.session <= b.session /\ b.session <= a.session
  BY DEF Courante
<1>. QED BY <1>1, <1>2 DEF Article

\* A step that leaves the invoices alone, and adds or closes no session of a customer
LEMMA AttenteIntacte ==
  ASSUME Complet, TypeOK, UNCHANGED <<factures, proc>>, Len(sessions) <= Len(sessions'),
         Len(sessions') \in Nat,
         \A i \in DOMAIN sessions' : Facturable(sessions'[i]) =>
            i \in DOMAIN sessions /\ Facturable(sessions[i])
  PROVE  Complet'
<1> SUFFICES ASSUME Len(sessions') <= Capacite
             PROVE  EnAttente' /\ NumeroSuivant'
  BY DEF Complet
<1>1. EnAttente /\ NumeroSuivant
  <2>1. Len(sessions) \in Nat
    BY DEF TypeOK
  <2>. QED BY <2>1, HypRecharges DEF Complet
<1>2. NumeroSuivant'
  BY <1>1 DEF NumeroSuivant, Courante, Facturees
<1>3. EnAttente'
  <2> SUFFICES ASSUME NEW i \in DOMAIN sessions', Facturable(sessions'[i])
               PROVE  \/ i \in Facturees
                      \/ \E q \in Processus : proc[q] # Libre /\ \E a \in proc[q].reste : a.session = i
    BY DEF EnAttente, Facturees, Facturable
  <2>. QED BY <1>1 DEF EnAttente
<1>. QED BY <1>2, <1>3


LEMMA AttentePosts ==
  ASSUME IInv, Complet, NEW e \in envois, OuvrirSession(e) \/ EcrireMesure(e)
  PROVE  Complet'
<1>0. /\ sessions \in Seq(Session) /\ \A i \in DOMAIN sessions : sessions[i] \in Session
      /\ TypeOK /\ UNCHANGED <<factures, proc>>
  BY DEF IInv, TypeOK, OuvrirSession, EcrireMesure
<1>1. CASE OuvrirSession(e)
  <2> DEFINE s == [statut |-> "EnCours", idTag |-> e.charge, energie |-> 0, prix |-> 0]
  <2>1. ~Facturable(s)
    BY DEF Facturable
  <2>2. sessions' = sessions \/ sessions' = Append(sessions, s)
    BY <1>1 DEF OuvrirSession
  <2> HIDE DEF s
  <2>3. /\ Len(sessions) <= Len(sessions') /\ Len(sessions') \in Nat
        /\ \A i \in DOMAIN sessions' :
             (i \in DOMAIN sessions /\ sessions'[i] = sessions[i]) \/ sessions'[i] = s
    BY <1>0, <2>2
  <2>. QED BY <1>0, <2>1, <2>3, AttenteIntacte
<1>2. CASE EcrireMesure(e)
  <2>1. /\ Len(sessions') = Len(sessions) /\ Len(sessions') \in Nat /\ DOMAIN sessions' = DOMAIN sessions
        /\ \A i \in DOMAIN sessions :
             sessions'[i].statut = sessions[i].statut /\ sessions'[i].idTag = sessions[i].idTag
    BY <1>0, <1>2 DEF EcrireMesure, Session
  <2>. QED BY <1>0, <2>1, AttenteIntacte DEF Facturable
<1>. QED BY <1>1, <1>2

\* A stop leaves the process the session it closed, if it belongs to a customer.
LEMMA AttenteTerminer ==
  ASSUME IInv, Complet, NEW q \in Processus, NEW e \in envois, Terminer(q, e)
  PROVE  Complet'
<1>0. /\ sessions \in Seq(Session) /\ TypeOK /\ proc \in [Processus -> Proc]
      /\ UNCHANGED factures /\ proc[q] = Libre /\ Len(sessions) \in Nat
  BY DEF IInv, TypeOK, Terminer
<1>1. CASE e.id \notin DOMAIN sessions
  BY <1>0, <1>1, AttenteIntacte DEF Terminer
<1>2. CASE e.id \in DOMAIN sessions
  <2> DEFINE s == Close(sessions[e.id], e)
             p == [op |-> "chercher", reste |-> {[session |-> e.id, prix |-> s.prix]},
                   pour |-> [charge |-> e.charge, essai |-> e.essai]]
  <2>1. /\ sessions' = [sessions EXCEPT ![e.id] = s]
        /\ proc' = IF ~Facturable(s) THEN proc ELSE [proc EXCEPT ![q] = p]
    BY <1>2 DEF Terminer
  <2>2. /\ p # Libre /\ p.op = "chercher"
        /\ \E a \in p.reste : a.session = e.id
    BY DEF Libre
  <2> HIDE DEF s, p
  <2>3. /\ DOMAIN sessions' = DOMAIN sessions /\ Len(sessions') = Len(sessions)
        /\ sessions'[e.id] = s /\ \A i \in DOMAIN sessions : i # e.id => sessions'[i] = sessions[i]
    BY <1>0, <1>2, <2>1
  <2>4. CASE ~Facturable(s)
    BY <1>0, <2>1, <2>3, <2>4, AttenteIntacte
  <2>5. CASE Facturable(s)
    <3> SUFFICES ASSUME Len(sessions) <= Capacite
                 PROVE  EnAttente' /\ NumeroSuivant'
      BY <2>3 DEF Complet
    <3>1. /\ proc'[q] = p /\ \A r \in Processus : r # q => proc'[r] = proc[r]
      BY <1>0, <2>1, <2>5
    <3>2. NumeroSuivant'
      BY <1>0, <2>2, <3>1 DEF Complet, NumeroSuivant, Courante, Facturees
    <3>3. ASSUME NEW i \in DOMAIN sessions, Facturable(sessions'[i])
          PROVE  \/ i \in Facturees
                 \/ \E r \in Processus : proc'[r] # Libre /\ \E a \in proc'[r].reste : a.session = i
      <4>1. CASE i = e.id
        BY <2>2, <3>1, <4>1
      <4>2. CASE i # e.id
        <5>1. \/ i \in Facturees
              \/ \E r \in Processus : proc[r] # Libre /\ \E a \in proc[r].reste : a.session = i
          BY <2>3, <3>3, <4>2 DEF Complet, EnAttente
        <5>. QED BY <1>0, <3>1, <5>1
      <4>. QED BY <4>1, <4>2
    <3>4. EnAttente'
      BY <1>0, <2>3, <3>3 DEF EnAttente, Facturees, Facturable
    <3>. QED BY <3>2, <3>4
  <2>. QED BY <2>4, <2>5
<1>. QED BY <1>1, <1>2

\* A step of the process q that keeps what it has left, but for the sessions invoiced
LEMMA AttenteProcessus ==
  ASSUME IInv, EnAttente, NEW q \in Processus, UNCHANGED sessions, Facturees \subseteq Facturees',
         \A r \in Processus : r # q => proc'[r] = proc[r],
         proc[q] # Libre => \A a \in proc[q].reste :
           \/ a.session \in Facturees'
           \/ proc'[q] # Libre /\ a \in proc'[q].reste
  PROVE  EnAttente'
<1> SUFFICES ASSUME NEW i \in DOMAIN sessions, Facturable(sessions[i])
             PROVE  \/ i \in Facturees'
                    \/ \E r \in Processus : proc'[r] # Libre /\ \E a \in proc'[r].reste : a.session = i
  BY DEF EnAttente, Facturable
<1>1. \/ i \in Facturees
      \/ \E r \in Processus : proc[r] # Libre /\ \E a \in proc[r].reste : a.session = i
  BY DEF EnAttente
<1>. QED BY <1>1

LEMMA AttenteEmission ==
  ASSUME IInv, Complet, NEW q \in Processus, Generer(q) \/ Chercher(q) \/ Numeroter(q)
  PROVE  Complet'
<1>0. /\ TypeOK /\ proc \in [Processus -> Proc] /\ UNCHANGED <<sessions, factures>>
      /\ \A r \in Processus : r # q => proc'[r] = proc[r]
      /\ Facturees' = Facturees
  BY DEF IInv, TypeOK, Generer, Chercher, Numeroter, Facturees
<1> SUFFICES ASSUME Len(sessions) <= Capacite
             PROVE  EnAttente' /\ NumeroSuivant'
  BY <1>0 DEF Complet
<1>1. EnAttente /\ NumeroSuivant
  BY DEF Complet
<1>2. ASSUME proc'[q].op = "inserer" => proc'[q].numero = Len(factures) + 1,
             proc'[q].op \in {"numeroter", "inserer"} =>
               Courante(q)' # {} /\ \A a \in Courante(q)' : a.session \notin Facturees
      PROVE  NumeroSuivant'
  <2>1. \A r \in Processus : r # q => Courante(r)' = Courante(r)
    BY <1>0 DEF Courante
  <2>2. ASSUME NEW r \in Processus
        PROVE  /\ proc'[r].op = "inserer" => proc'[r].numero = Len(factures') + 1
               /\ proc'[r].op \in {"numeroter", "inserer"} =>
                    Courante(r)' # {} /\ \A a \in Courante(r)' : a.session \notin Facturees'
    <3>1. CASE r = q
      BY <1>0, <1>2, <3>1
    <3>2. CASE r # q
      BY <1>0, <1>1, <2>1, <3>2 DEF NumeroSuivant
    <3>. QED BY <3>1, <3>2
  <2>. QED BY <2>2 DEF NumeroSuivant
<1>3. CASE Generer(q)
  <2>1. proc[q] = Libre /\ proc'[q].op = "chercher"
    BY <1>0, <1>3 DEF Generer
  <2>. QED BY <1>0, <1>1, <1>2, <2>1, AttenteProcessus
<1>4. CASE Chercher(q)
  <2>1. proc[q] # Libre /\ proc[q].op = "chercher"
    BY <1>0, <1>4, ProcOccupe DEF Chercher
  <2>2. proc[q] \in [op: {"chercher", "numeroter"}, reste: SUBSET Article,
                     pour: Demandes \cup {Personnel}]
    BY <1>0, <2>1 DEF Proc, Libre
  <2>3. CASE proc[q].reste = {} /\ proc' = [proc EXCEPT ![q] = Libre]
    <3>1. proc'[q] = Libre
      BY <1>0, <2>3
    <3>. QED BY <1>0, <1>1, <1>2, <2>3, <3>1, AttenteProcessus DEF Libre
  <2>4. ASSUME NEW a \in Courante(q), a.session \in Facturees,
               proc' = [proc EXCEPT ![q].reste = @ \ {a}]
        PROVE  EnAttente' /\ NumeroSuivant'
    <3>1. proc'[q] = [proc[q] EXCEPT !.reste = @ \ {a}]
      BY <1>0, <2>4
    <3>2. proc'[q].reste = proc[q].reste \ {a} /\ proc'[q].op = "chercher"
      BY <2>1, <2>2, <3>1
    <3>3. proc'[q] # Libre
      BY <3>2 DEF Libre
    <3>. QED BY <1>0, <1>1, <1>2, <2>4, <3>2, <3>3, AttenteProcessus
  <2>5. ASSUME NEW a \in Courante(q), a.session \notin Facturees,
               proc' = [proc EXCEPT ![q].op = "numeroter"]
        PROVE  EnAttente' /\ NumeroSuivant'
    <3>1. proc'[q] = [proc[q] EXCEPT !.op = "numeroter"]
      BY <1>0, <2>5
    <3>2. proc'[q].reste = proc[q].reste /\ proc'[q].op = "numeroter"
      BY <2>2, <3>1
    <3>3. proc'[q] # Libre
      BY <3>2 DEF Libre
    <3>4. \A b \in Courante(q) : b.session \notin Facturees
      BY <1>0, <2>1, <2>5, MemeSession
    <3>5. Courante(q)' = Courante(q)
      BY <3>2 DEF Courante
    <3>6. NumeroSuivant'
      BY <1>2, <2>5, <3>2, <3>4, <3>5
    <3>. QED BY <1>0, <1>1, <3>2, <3>3, <3>6, AttenteProcessus
  <2>. QED BY <1>4, <2>3, <2>4, <2>5 DEF Chercher
<1>5. CASE Numeroter(q)
  <2>1. proc[q] # Libre
    BY <1>0, <1>5, ProcOccupe DEF Numeroter
  <2>2. /\ proc'[q] = [op |-> "inserer", reste |-> proc[q].reste, pour |-> proc[q].pour,
                       numero |-> Suivant]
        /\ proc[q].op = "numeroter"
    BY <1>0, <1>5 DEF Numeroter
  <2>3. /\ proc'[q].reste = proc[q].reste /\ proc'[q].op = "inserer" /\ proc'[q].numero = Suivant
        /\ proc'[q] # Libre
    BY <2>2 DEF Libre
  <2>4. Courante(q)' = Courante(q)
    BY <2>3 DEF Courante
  <2>5. /\ Courante(q) # {} /\ \A a \in Courante(q) : a.session \notin Facturees
    BY <1>1, <2>2 DEF NumeroSuivant
  <2>6. PICK a \in proc[q].reste : a.session \notin Facturees
    BY <2>5 DEF Courante
  <2>7. a.session \in DOMAIN sessions
    BY <2>1 DEF IInv, ArticlesJustifies
  <2>8. Len(factures) < Len(sessions)
    BY <2>6, <2>7, FacturesBornees
  <2>9. Suivant = Len(factures) + 1
    <3>1. Len(factures) \in Nat /\ Len(sessions) \in Nat
      BY <1>0 DEF TypeOK
    <3>. QED BY <1>0, <2>8, <3>1, SuivantExact, HypRecharges DEF IInv
  <2>10. NumeroSuivant'
    BY <1>2, <2>3, <2>4, <2>5, <2>9
  <2>. QED BY <1>0, <1>1, <2>3, <2>10, AttenteProcessus
<1>. QED BY <1>3, <1>4, <1>5

LEMMA AttenteInserer ==
  ASSUME EnSerie, IInv, Complet, NEW q \in Processus, Inserer(q)
  PROVE  Complet'
<1>0. /\ proc \in [Processus -> Proc] /\ factures \in Seq(Facture) /\ UNCHANGED sessions
      /\ proc[q] # Libre /\ proc[q].op = "inserer"
  BY ProcOccupe DEF IInv, TypeOK, Inserer
<1> SUFFICES ASSUME Len(sessions) <= Capacite
             PROVE  EnAttente' /\ NumeroSuivant'
  BY <1>0 DEF Complet
<1>1. EnAttente /\ NumeroSuivant
  BY DEF Complet
<1>2. PICK a \in Courante(q) :
        /\ factures' = IF Unique(a, proc[q].numero)
             THEN Append(factures, [session |-> a.session, numero |-> proc[q].numero,
                                    montant |-> Montant(a)])
             ELSE factures
        /\ proc' = [proc EXCEPT ![q] = Suite(q, a)]
  BY DEF Inserer
<1>3. proc[q].numero = Len(factures) + 1 /\ a.session \notin Facturees
  BY <1>0, <1>1 DEF NumeroSuivant
<1>4. Unique(a, proc[q].numero)
  <2>1. Len(factures) + 1 \notin Numeros
    BY <1>0 DEF Numeros, IInv, NumerotationContinue
  <2>. QED BY <1>3, <2>1 DEF Unique
<1> DEFINE f == [session |-> a.session, numero |-> proc[q].numero, montant |-> Montant(a)]
<1>5. factures' = Append(factures, f) /\ f.session = a.session
  BY <1>2, <1>4
<1> HIDE DEF f
<1>6. Facturees \subseteq Facturees' /\ a.session \in Facturees'
  <2>1. /\ Len(factures) + 1 \in DOMAIN factures' /\ factures'[Len(factures) + 1] = f
        /\ \A i \in DOMAIN factures : i \in DOMAIN factures' /\ factures'[i] = factures[i]
    BY <1>0, <1>5
  <2>. QED BY <1>5, <2>1 DEF Facturees
<1>7. proc'[q].op = "chercher" /\ proc'[q].reste = proc[q].reste \ {a} /\ proc'[q] # Libre
  BY <1>0, <1>2, <1>4 DEF Suite, Libre
<1>8. \A r \in Processus : r = q
  BY DEF EnSerie
<1>9. EnAttente'
  BY <1>0, <1>1, <1>6, <1>7, <1>8, AttenteProcessus
<1>10. NumeroSuivant'
  BY <1>7, <1>8 DEF NumeroSuivant
<1>. QED BY <1>9, <1>10

LEMMA CompletPas == ASSUME EnSerie PROVE IInv /\ Complet /\ [Next]_vars => Complet'
<1> SUFFICES ASSUME IInv, Complet, [Next]_vars
             PROVE  Complet'
  OBVIOUS
<1>0. ASSUME UNCHANGED <<sessions, factures, proc>> PROVE Complet'
  BY <1>0 DEF Complet, EnAttente, NumeroSuivant, Facturable, Facturees, Courante
<1>1. CASE \E t \in Charges :
             Demarrer(t) \/ Mesurer(t) \/ Arreter(t) \/ Abandonner(t) \/ AccuserArret(t)
  BY <1>0, <1>1 DEF Demarrer, Mesurer, Arreter, Abandonner, AccuserArret
<1>2. CASE \E e \in envois : RepondreStart(e) \/ Perdre(e)
  BY <1>0, <1>2 DEF RepondreStart, Perdre
<1>3. CASE \E e \in envois : OuvrirSession(e) \/ EcrireMesure(e)
  BY <1>3, AttentePosts
<1>4. CASE \E q \in Processus, e \in envois : Terminer(q, e)
  BY <1>4, AttenteTerminer
<1>5. CASE \E q \in Processus : Generer(q) \/ Emission(q)
  BY <1>5, AttenteEmission, AttenteInserer DEF Emission
<1>6. CASE UNCHANGED vars
  BY <1>0, <1>6 DEF vars
<1>. QED BY <1>1, <1>2, <1>3, <1>4, <1>5, <1>6 DEF Next, Epuise

LEMMA CompletInitial == Init => Complet
<1> SUFFICES ASSUME Init PROVE EnAttente /\ NumeroSuivant
  BY DEF Complet
<1>1. DOMAIN sessions = {}
  BY DEF Init
<1>. QED BY <1>1 DEF Init, EnAttente, NumeroSuivant, Libre

\* When the requests that issue invoices come one at a time, and as long as numbers are
\* not exhausted, no closed session of a customer is left without its invoice, whatever
\* is lost, late or sent again (OcppIngestController.php:181-187).
THEOREM SessionToujoursFacturee ==
  ASSUME EnSerie PROVE Spec => [](Len(sessions) <= Capacite => SessionFacturee)
<1>1. Complet => (Len(sessions) <= Capacite => SessionFacturee)
  BY DEF Complet, EnAttente, SessionFacturee
<1>. QED BY <1>1, CompletInitial, CompletPas, ToujoursInv, PTL DEF Spec

=============================================================================
