------------------------- MODULE GenerateurPreuves -------------------------
(***************************************************************************)
(* The safety properties of the transaction generator, for any number of   *)
(* runs of its loop.                                                       *)
(***************************************************************************)
EXTENDS Generateur, TLAPS

-----------------------------------------------------------------------------
(* Type correctness.                                                        *)

\* The pieces of code every action is built from keep the types.
LEMMA TypeDemarrage ==
  ASSUME TypeOK, internalStartConnector, UNCHANGED <<started, station>>
  PROVE  TypeOK'
<1>1. PICK b \in Boucles :
        /\ start' = TRUE /\ morte' = FALSE /\ controleur' = b
        /\ avortee' = (avortee \cup {controleur}) \ {b, Aucune}
        /\ etape' = [etape EXCEPT ![b] = "tete"]
  BY DEF internalStartConnector
<1>2. avortee' \subseteq Boucles
  BY <1>1 DEF TypeOK
<1> QED
  BY <1>1, <1>2 DEF TypeOK, station

LEMMA TypeArret ==
  ASSUME TypeOK, stopConnector
  PROVE  start' \in BOOLEAN /\ avortee' \subseteq Boucles
BY DEF TypeOK, stopConnector

LEMMA TypeFin ==
  ASSUME TypeOK, NEW b \in Boucles, Finir(b)
  PROVE  /\ etape' \in [Boucles -> Dort \cup {"finie", "tete", "depart", "arret"}]
         /\ controleur' \in Boucles \cup {Aucune}
BY DEF TypeOK, Finir, Dort

LEMMA TypeAttente ==
  ASSUME TypeOK, NEW b \in Boucles, NEW i \in 1 .. 3, Attendre(b, i)
  PROVE  /\ start' \in BOOLEAN /\ avortee' \subseteq Boucles
         /\ etape' \in [Boucles -> Dort \cup {"finie", "tete", "depart", "arret"}]
         /\ controleur' \in Boucles \cup {Aucune}
<1>1. CASE Patienter(b, i) /\ UNCHANGED <<start, controleur, avortee>>
  <2>1. PICK j \in Retenue(b, i) : etape' = [etape EXCEPT ![b] = Attentes[j]]
    BY <1>1 DEF Patienter
  <2>2. j = 1 \/ j = 2 \/ j = 3
    BY <2>1 DEF Retenue
  <2>3. Attentes[j] \in Dort
    BY <2>2 DEF Attentes, Dort
  <2> QED
    BY <1>1, <2>1, <2>3 DEF TypeOK
<1>2. CASE /\ etape' = [etape EXCEPT ![b] = "delai"]
           /\ UNCHANGED <<start, controleur, avortee>>
  BY <1>2 DEF TypeOK, Dort
<1>3. CASE stopConnector /\ Finir(b)
  BY <1>3, TypeArret, TypeFin
<1> QED
  BY <1>1, <1>2, <1>3 DEF Attendre

LEMMA TypeTour ==
  ASSUME TypeOK, NEW b \in Boucles, Tour(b)
  PROVE  /\ start' \in BOOLEAN /\ avortee' \subseteq Boucles
         /\ etape' \in [Boucles -> Dort \cup {"finie", "tete", "depart", "arret"}]
         /\ controleur' \in Boucles \cup {Aucune}
<1>1. CASE Attendre(b, 1)
  BY <1>1, TypeAttente
<1>2. CASE Finir(b) /\ UNCHANGED <<start, avortee>>
  BY <1>2, TypeFin DEF TypeOK
<1> QED
  BY <1>1, <1>2 DEF Tour

LEMMA TypeDemande ==
  ASSUME TypeOK, Demande
  PROVE  TypeOK'
<1>1. CASE Demarrer
  <2>1. CASE start
    BY <1>1, <2>1 DEF TypeOK, Demarrer, startConnector, station, boucles
  <2>2. CASE ~start
    <3>1. PICK b \in Boucles :
            /\ start' = TRUE /\ morte' = FALSE /\ controleur' = b
            /\ avortee' = (avortee \cup {controleur}) \ {b, Aucune}
            /\ etape' = [etape EXCEPT ![b] = "tete"]
      BY <1>1, <2>2 DEF Demarrer, startConnector, internalStartConnector
    <3>2. avortee' \subseteq Boucles
      BY <3>1 DEF TypeOK
    <3> QED
      BY <1>1, <3>1, <3>2 DEF TypeOK, Demarrer, station
  <2> QED BY <2>1, <2>2
<1>2. CASE Arreter
  BY <1>2, TypeArret DEF TypeOK, Arreter, station
<1>3. CASE Recharger
  BY <1>3, TypeDemarrage DEF Recharger
<1>4. CASE DemarrerConnecteur
  <2>1. CASE start
    BY <1>4, <2>1 DEF TypeOK, DemarrerConnecteur, startConnector, station, boucles
  <2>2. CASE ~start
    BY <1>4, <2>2, TypeDemarrage DEF DemarrerConnecteur, startConnector
  <2> QED BY <2>1, <2>2
<1>5. CASE ArreterConnecteur
  BY <1>5, TypeArret DEF TypeOK, ArreterConnecteur, station
<1> QED
  BY <1>1, <1>2, <1>3, <1>4, <1>5 DEF Demande

LEMMA TypeSommeil ==
  ASSUME TypeOK, NEW b \in Boucles, Commencer(b) \/ Sommeil(b)
  PROVE  TypeOK'
<1>1. CASE Commencer(b)
  BY <1>1, TypeTour DEF TypeOK, Commencer, station
<1>2. CASE ReprendreAttente(b)
  <2>1. PICK i \in 1 .. 3 : Attendre(b, i)
    BY <1>2 DEF ReprendreAttente
  <2> QED
    BY <1>2, <2>1, TypeAttente DEF TypeOK, ReprendreAttente, station
<1>3. CASE FinDeDelai(b)
  BY <1>3, TypeTour DEF TypeOK, FinDeDelai, station
<1>4. CASE FinDeCharge(b)
  BY <1>4, TypeTour DEF TypeOK, FinDeCharge, station
<1> QED
  BY <1>1, <1>2, <1>3, <1>4 DEF Sommeil

LEMMA TypeReponse ==
  ASSUME TypeOK, NEW b \in Boucles, Reponse(b)
  PROVE  TypeOK'
<1>1. CASE DepartAccepte(b)
  BY <1>1 DEF TypeOK, DepartAccepte, generateur, Dort
<1>2. CASE DepartRefuse(b)
  BY <1>2, TypeTour DEF TypeOK, DepartRefuse, station
<1>3. CASE Mourir(b)
  <2>1. transaction' \in Boucles \cup {Aucune, Autre}
    BY <1>3 DEF TypeOK, Mourir
  <2> QED
    BY <1>3, <2>1, TypeFin DEF TypeOK, Mourir
<1>4. CASE Arretee(b)
  BY <1>4, TypeTour DEF TypeOK, Arretee
<1> QED
  BY <1>1, <1>2, <1>3, <1>4 DEF Reponse

LEMMA TypeEnvironnement ==
  ASSUME TypeOK, Environnement
  PROVE  TypeOK'
BY DEF TypeOK, Environnement, ChangerStation, ChangerConnecteur, Enregistrer,
       DemarrerAilleurs, ArreterAilleurs, generateur, boucles

\* Every variable of the generator keeps its type: in particular an aborted
\* controller is always that of a run.
THEOREM TypeCorrecte == Spec => []TypeOK
<1>1. Init => TypeOK
  BY DEF Init, TypeOK
<1>2. TypeOK /\ [Next]_vars => TypeOK'
  <2>1. ASSUME TypeOK, Next PROVE TypeOK'
    <3>1. CASE Demande
      BY <2>1, <3>1, TypeDemande
    <3>2. CASE Environnement
      BY <2>1, <3>2, TypeEnvironnement
    <3>3. CASE \E b \in Boucles : Pas(b)
      <4>1. PICK b \in Boucles : Pas(b)
        BY <3>3
      <4> QED
        BY <2>1, <4>1, TypeSommeil, TypeReponse DEF Pas
    <3> QED
      BY <2>1, <3>1, <3>2, <3>3 DEF Next
  <2>2. ASSUME TypeOK, UNCHANGED vars PROVE TypeOK'
    BY <2>2 DEF TypeOK, vars, generateur, boucles, station
  <2> QED
    BY <2>1, <2>2
<1> QED
  BY <1>1, <1>2, PTL DEF Spec

-----------------------------------------------------------------------------
(* The runs and their controllers.  The two properties need each other: a   *)
(* run that ends leaves the connector without a live run only if it was the *)
(* one of the controller.                                                   *)

Vivantes == TypeOK /\ UneBoucleVive /\ DemarreTourne

LEMMA VivantesDemarrage ==
  ASSUME Vivantes, internalStartConnector
  PROVE  UneBoucleVive' /\ DemarreTourne'
<1>1. PICK b \in Boucles :
        /\ start' = TRUE /\ morte' = FALSE /\ controleur' = b
        /\ avortee' = (avortee \cup {controleur}) \ {b, Aucune}
        /\ etape' = [etape EXCEPT ![b] = "tete"]
  BY DEF internalStartConnector
<1>2. UneBoucleVive'
  BY <1>1, BouclesAssumption DEF Vivantes, TypeOK, UneBoucleVive, EnCours
<1>3. DemarreTourne'
  BY <1>1 DEF Vivantes, TypeOK, DemarreTourne, EnCours
<1> QED
  BY <1>2, <1>3

LEMMA VivantesArret ==
  ASSUME Vivantes, stopConnector, UNCHANGED <<controleur, morte, etape>>
  PROVE  UneBoucleVive' /\ DemarreTourne'
<1>1. avortee \subseteq avortee'
  BY BouclesAssumption DEF Vivantes, TypeOK, stopConnector
<1> QED
  BY <1>1 DEF Vivantes, UneBoucleVive, DemarreTourne, stopConnector, EnCours

LEMMA VivantesFin ==
  ASSUME Vivantes, NEW b \in Boucles, Finir(b), avortee \subseteq avortee',
         \/ ~start'
         \/ morte'
         \/ b \in avortee /\ UNCHANGED <<start, avortee>>,
         morte => morte'
  PROVE  UneBoucleVive' /\ DemarreTourne'
<1>1. UneBoucleVive'
  <2> SUFFICES ASSUME NEW c \in Boucles, etape'[c] # "finie", c \notin avortee'
               PROVE  controleur' = c
    BY DEF UneBoucleVive, EnCours
  <2>1. c # b /\ etape[c] # "finie" /\ c \notin avortee
    BY DEF Finir, Vivantes, TypeOK
  <2> QED
    BY <2>1 DEF Vivantes, UneBoucleVive, EnCours, Finir
<1>2. DemarreTourne'
  <2> SUFFICES ASSUME start', ~morte'
               PROVE  \E c \in Boucles : controleur' = c /\ EnCours(c)' /\ c \notin avortee'
    BY DEF DemarreTourne
  <2>1. b \in avortee /\ start /\ ~morte /\ avortee' = avortee
    OBVIOUS
  <2>2. PICK c \in Boucles : controleur = c /\ EnCours(c) /\ c \notin avortee
    BY <2>1 DEF Vivantes, DemarreTourne
  <2>3. c # b
    BY <2>1, <2>2
  <2> QED
    BY <2>1, <2>2, <2>3 DEF Finir, EnCours, Vivantes, TypeOK
<1> QED
  BY <1>1, <1>2

\* A run that goes on, wherever it goes.
LEMMA VivantesSuite ==
  ASSUME Vivantes, NEW b \in Boucles, EnCours(b), NEW e, e # "finie",
         etape' = [etape EXCEPT ![b] = e],
         UNCHANGED <<start, controleur, avortee, morte>>
  PROVE  UneBoucleVive' /\ DemarreTourne'
BY DEF Vivantes, TypeOK, UneBoucleVive, DemarreTourne, EnCours

LEMMA VivantesAttente ==
  ASSUME Vivantes, NEW b \in Boucles, EnCours(b), NEW i \in 1 .. 3, Attendre(b, i),
         UNCHANGED morte
  PROVE  UneBoucleVive' /\ DemarreTourne'
<1>1. CASE Patienter(b, i) /\ UNCHANGED <<start, controleur, avortee>>
  <2>1. PICK j \in Retenue(b, i) : etape' = [etape EXCEPT ![b] = Attentes[j]]
    BY <1>1 DEF Patienter
  <2>2. j = 1 \/ j = 2 \/ j = 3
    BY <2>1 DEF Retenue
  <2>3. Attentes[j] # "finie"
    BY <2>2 DEF Attentes
  <2> QED
    BY <1>1, <2>1, <2>3, VivantesSuite
<1>2. CASE /\ etape' = [etape EXCEPT ![b] = "delai"]
           /\ UNCHANGED <<start, controleur, avortee>>
  BY <1>2, VivantesSuite
<1>3. CASE stopConnector /\ Finir(b)
  <2>1. ~start' /\ avortee \subseteq avortee'
    BY <1>3, BouclesAssumption DEF stopConnector, Vivantes, TypeOK
  <2> QED
    BY <1>3, <2>1, VivantesFin
<1> QED
  BY <1>1, <1>2, <1>3 DEF Attendre

LEMMA VivantesTour ==
  ASSUME Vivantes, NEW b \in Boucles, EnCours(b), Tour(b), UNCHANGED morte
  PROVE  UneBoucleVive' /\ DemarreTourne'
<1>1. CASE Attendre(b, 1)
  BY <1>1, VivantesAttente
<1>2. CASE Finir(b) /\ UNCHANGED <<start, avortee>> /\ (~start \/ b \in avortee)
  BY <1>2, VivantesFin
<1> QED
  BY <1>1, <1>2 DEF Tour

LEMMA VivantesDemande ==
  ASSUME Vivantes, Demande
  PROVE  UneBoucleVive' /\ DemarreTourne'
<1>1. CASE UNCHANGED <<start, morte, controleur, boucles>>
  BY <1>1 DEF Vivantes, UneBoucleVive, DemarreTourne, EnCours, boucles
<1>2. CASE internalStartConnector
  BY <1>2, VivantesDemarrage
<1>3. CASE stopConnector /\ UNCHANGED <<controleur, morte, etape>>
  BY <1>3, VivantesArret
<1> QED
  BY <1>1, <1>2, <1>3
     DEF Demande, Demarrer, Arreter, Recharger, DemarrerConnecteur, ArreterConnecteur,
         startConnector

LEMMA VivantesSommeil ==
  ASSUME Vivantes, NEW b \in Boucles, Commencer(b) \/ Sommeil(b)
  PROVE  UneBoucleVive' /\ DemarreTourne'
<1>1. CASE Commencer(b)
  BY <1>1, VivantesTour DEF Commencer, EnCours
<1>2. CASE ReprendreAttente(b)
  <2>1. PICK i \in 1 .. 3 : etape[b] = Attentes[i] /\ Attendre(b, i)
    BY <1>2 DEF ReprendreAttente
  <2>2. i = 1 \/ i = 2 \/ i = 3
    OBVIOUS
  <2>3. EnCours(b)
    BY <2>1, <2>2 DEF EnCours, Attentes
  <2> QED
    BY <1>2, <2>1, <2>3, VivantesAttente DEF ReprendreAttente
<1>3. CASE FinDeDelai(b)
  <2>1. CASE /\ etape' = [etape EXCEPT ![b] = "depart"]
             /\ UNCHANGED <<start, controleur, avortee>>
    BY <1>3, <2>1, VivantesSuite DEF FinDeDelai, EnCours
  <2>2. CASE Tour(b)
    BY <1>3, <2>2, VivantesTour DEF FinDeDelai, EnCours
  <2> QED
    BY <1>3, <2>1, <2>2 DEF FinDeDelai
<1>4. CASE FinDeCharge(b)
  <2>1. CASE transaction # Aucune
    BY <1>4, <2>1, VivantesSuite DEF FinDeCharge, EnCours
  <2>2. CASE transaction = Aucune
    BY <1>4, <2>2, VivantesTour DEF FinDeCharge, EnCours
  <2> QED
    BY <2>1, <2>2
<1> QED
  BY <1>1, <1>2, <1>3, <1>4 DEF Sommeil

LEMMA VivantesReponse ==
  ASSUME Vivantes, NEW b \in Boucles, Reponse(b)
  PROVE  UneBoucleVive' /\ DemarreTourne'
<1>1. CASE DepartAccepte(b)
  BY <1>1, VivantesSuite DEF DepartAccepte, EnCours, generateur
<1>2. CASE DepartRefuse(b)
  BY <1>2, VivantesTour DEF DepartRefuse, EnCours
<1>3. CASE Mourir(b)
  <2>1. CASE controleur = b
    BY <1>3, <2>1, VivantesFin DEF Mourir
  <2>2. CASE controleur # b
    BY <1>3, <2>2 DEF Mourir, Finir, Vivantes, TypeOK, UneBoucleVive, DemarreTourne, EnCours
  <2> QED
    BY <2>1, <2>2
<1>4. CASE Arretee(b)
  BY <1>4, VivantesTour DEF Arretee, EnCours
<1> QED
  BY <1>1, <1>2, <1>3, <1>4 DEF Reponse

LEMMA VivantesEnvironnement ==
  ASSUME Vivantes, Environnement
  PROVE  UneBoucleVive' /\ DemarreTourne'
BY DEF Vivantes, UneBoucleVive, DemarreTourne, EnCours, Environnement, ChangerStation,
       ChangerConnecteur, Enregistrer, DemarrerAilleurs, ArreterAilleurs, generateur, boucles

THEOREM VivantesInvariante == Spec => []Vivantes
<1>1. Init => Vivantes
  BY DEF Init, Vivantes, TypeOK, UneBoucleVive, DemarreTourne, EnCours
<1>2. TypeOK' /\ Vivantes /\ [Next]_vars => Vivantes'
  <2>1. ASSUME Vivantes, Next PROVE UneBoucleVive' /\ DemarreTourne'
    <3>1. CASE Demande
      BY <2>1, <3>1, VivantesDemande
    <3>2. CASE Environnement
      BY <2>1, <3>2, VivantesEnvironnement
    <3>3. CASE \E b \in Boucles : Pas(b)
      <4>1. PICK b \in Boucles : Pas(b)
        BY <3>3
      <4> QED
        BY <2>1, <4>1, VivantesSommeil, VivantesReponse DEF Pas
    <3> QED
      BY <2>1, <3>1, <3>2, <3>3 DEF Next
  <2>2. ASSUME Vivantes, UNCHANGED vars PROVE UneBoucleVive' /\ DemarreTourne'
    BY <2>2 DEF Vivantes, UneBoucleVive, DemarreTourne, EnCours, vars, generateur, boucles
  <2> QED
    BY <2>1, <2>2 DEF Vivantes
<1> QED
  BY <1>1, <1>2, TypeCorrecte, PTL DEF Spec

\* At most one run of a connector was not told to stop, however its starts,
\* stops and reloads interleave with the runs that end.
THEOREM UneSeuleBoucleVive == Spec => []UneBoucleVive
<1>1. Vivantes => UneBoucleVive
  BY DEF Vivantes
<1> QED
  BY <1>1, VivantesInvariante, PTL

\* A connector shown as started has a run, unless an exception ended it.
THEOREM DemarreTourneToujours == Spec => []DemarreTourne
<1>1. Vivantes => DemarreTourne
  BY DEF Vivantes
<1> QED
  BY <1>1, VivantesInvariante, PTL

-----------------------------------------------------------------------------
(* The transactions.                                                        *)

Suivie == TypeOK /\ SansLaisse

LEMMA SuivieHorsCharge ==
  ASSUME Suivie, NEW b \in Boucles, transaction # b, UNCHANGED transaction,
         \A c \in Boucles : c # b => etape'[c] = etape[c]
  PROVE  SansLaisse'
BY DEF Suivie, SansLaisse

LEMMA TourSeul ==
  ASSUME TypeOK, NEW b \in Boucles, NEW i \in 1 .. 3, Tour(b) \/ Attendre(b, i)
  PROVE  \A c \in Boucles : c # b => etape'[c] = etape[c]
BY DEF TypeOK, Tour, Attendre, Patienter, Finir

LEMMA SuivieDemande ==
  ASSUME Suivie, Demande
  PROVE  SansLaisse'
<1>1. CASE internalStartConnector
  <2>1. PICK b \in Boucles : etape[b] = "finie" /\ etape' = [etape EXCEPT ![b] = "tete"]
    BY <1>1 DEF internalStartConnector
  <2>2. UNCHANGED transaction
    BY DEF Demande, Demarrer, Arreter, Recharger, DemarrerConnecteur, ArreterConnecteur, station
  <2>3. transaction # b
    BY <2>1 DEF Suivie, SansLaisse
  <2> QED
    BY <2>1, <2>2, <2>3, SuivieHorsCharge DEF Suivie, TypeOK
<1>2. CASE UNCHANGED <<etape, transaction>>
  BY <1>2 DEF Suivie, SansLaisse
<1> QED
  BY <1>1, <1>2
     DEF Demande, Demarrer, Arreter, Recharger, DemarrerConnecteur, ArreterConnecteur,
         startConnector, station, boucles

LEMMA SuivieSommeil ==
  ASSUME Suivie, NEW b \in Boucles, Commencer(b) \/ Sommeil(b)
  PROVE  SansLaisse'
<1>0. UNCHANGED transaction
  BY DEF Commencer, Sommeil, ReprendreAttente, FinDeDelai, FinDeCharge, station
<1>1. CASE FinDeCharge(b) /\ transaction # Aucune
  BY <1>0, <1>1 DEF FinDeCharge, Suivie, TypeOK, SansLaisse
<1>2. CASE Commencer(b) \/ FinDeDelai(b) \/ (FinDeCharge(b) /\ transaction = Aucune)
  <2>1. transaction # b
    BY <1>2, BouclesAssumption DEF Commencer, FinDeDelai, Suivie, SansLaisse
  <2>2. \A c \in Boucles : c # b => etape'[c] = etape[c]
    <3>1. CASE Tour(b)
      BY <3>1, TourSeul, 1 \in 1 .. 3 DEF Suivie
    <3>2. CASE etape' = [etape EXCEPT ![b] = "depart"]
      BY <3>2 DEF Suivie, TypeOK
    <3> QED
      BY <1>2, <3>1, <3>2 DEF Commencer, FinDeDelai, FinDeCharge
  <2> QED
    BY <1>0, <2>1, <2>2, SuivieHorsCharge
<1>3. CASE ReprendreAttente(b)
  <2>1. PICK i \in 1 .. 3 : etape[b] = Attentes[i] /\ Attendre(b, i)
    BY <1>3 DEF ReprendreAttente
  <2>2. i = 1 \/ i = 2 \/ i = 3
    OBVIOUS
  <2>3. transaction # b
    BY <2>1, <2>2 DEF Attentes, Suivie, SansLaisse
  <2>4. \A c \in Boucles : c # b => etape'[c] = etape[c]
    BY <2>1, TourSeul DEF Suivie
  <2> QED
    BY <1>0, <2>3, <2>4, SuivieHorsCharge
<1> QED
  BY <1>1, <1>2, <1>3 DEF Sommeil

LEMMA SuivieReponse ==
  ASSUME Suivie, NEW b \in Boucles, Reponse(b)
  PROVE  SansLaisse'
<1>1. CASE DepartAccepte(b)
  BY <1>1 DEF DepartAccepte, Suivie, TypeOK, SansLaisse
<1>2. CASE DepartRefuse(b)
  <2>1. transaction # b /\ UNCHANGED transaction
    BY <1>2 DEF DepartRefuse, Suivie, SansLaisse, station
  <2>2. \A c \in Boucles : c # b => etape'[c] = etape[c]
    BY <1>2, TourSeul, 1 \in 1 .. 3 DEF DepartRefuse, Suivie
  <2> QED
    BY <2>1, <2>2, SuivieHorsCharge
<1>3. CASE Mourir(b)
  BY <1>3, BouclesAssumption DEF Mourir, Finir, Suivie, TypeOK, SansLaisse
<1>4. CASE Arretee(b)
  BY <1>4, BouclesAssumption DEF Arretee, SansLaisse
<1> QED
  BY <1>1, <1>2, <1>3, <1>4 DEF Reponse

\* A transaction the generator started always has the run that will stop it.
THEOREM TransactionSuivie == Spec => []SansLaisse
<1>1. Init => Suivie
  BY BouclesAssumption DEF Init, Suivie, TypeOK, SansLaisse
<1>2. TypeOK' /\ Suivie /\ [Next]_vars => Suivie'
  <2>1. ASSUME Suivie, Next PROVE SansLaisse'
    <3>1. CASE Demande
      BY <2>1, <3>1, SuivieDemande
    <3>2. CASE Environnement
      BY <2>1, <3>2, BouclesAssumption
         DEF Suivie, SansLaisse, Environnement, ChangerStation, ChangerConnecteur, Enregistrer,
             DemarrerAilleurs, ArreterAilleurs, boucles
    <3>3. CASE \E b \in Boucles : Pas(b)
      <4>1. PICK b \in Boucles : Pas(b)
        BY <3>3
      <4> QED
        BY <2>1, <4>1, SuivieSommeil, SuivieReponse DEF Pas
    <3> QED
      BY <2>1, <3>1, <3>2, <3>3 DEF Next
  <2>2. ASSUME Suivie, UNCHANGED vars PROVE SansLaisse'
    BY <2>2 DEF Suivie, SansLaisse, vars, boucles, station
  <2> QED
    BY <2>1, <2>2 DEF Suivie
<1>3. Suivie => SansLaisse
  BY DEF Suivie
<1> QED
  BY <1>1, <1>2, <1>3, TypeCorrecte, PTL DEF Spec

=============================================================================
