----------------------------- MODULE Generateur -----------------------------
(***************************************************************************)
(* The automatic transaction generator of the simulated station            *)
(* (AutomaticTransactionGenerator.ts) on one connector: the connectors     *)
(* share nothing but the flag started.  Each start of the connector runs a *)
(* loop, internalStartConnector, which waits until the connector can       *)
(* charge, waits for a delay, starts a transaction, lets it run and stops  *)
(* it.  stopConnector aborts the sleeps of the loop.                       *)
(*                                                                         *)
(* JavaScript runs to completion: a loop whose sleep was aborted resumes   *)
(* before anything else of the program runs, which Calme says of every     *)
(* other step.  The bounds of the configuration are taken to be valid.      *)
(***************************************************************************)
EXTENDS Naturals, Sequences

CONSTANTS
  Boucles,       \* runs of internalStartConnector, used again when they end
  Aucune,        \* no run
  Autre          \* somebody else, for instance a remote start

ASSUME BouclesAssumption == Aucune \notin Boucles /\ Autre \notin Boucles /\ Aucune # Autre

VARIABLES
  started,       \* started of the generator
  start,         \* connectorsStatus.get(connectorId).start
  controleur,    \* connectorAbortControllers.get(connectorId): the run it belongs to
  etape,         \* where each run is
  avortee,       \* runs whose signal is aborted
  accepted, stationDispo, dispo,   \* what the station tells the generator
  transaction,   \* transactionStarted of the connector: who started it
  morte          \* an exception ended the run of the controller

generateur == <<started, start, controleur, morte>>
boucles == <<etape, avortee>>
station == <<accepted, stationDispo, dispo, transaction>>
vars == <<generateur, boucles, station>>

Attentes == <<"station", "connecteur", "transaction">>
Dort == {"station", "connecteur", "transaction", "delai", "charge"}

Init ==
  /\ started = FALSE /\ start = FALSE /\ morte = FALSE
  /\ controleur = Aucune
  /\ etape = [b \in Boucles |-> "finie"] /\ avortee = {}
  /\ accepted = FALSE /\ stationDispo = TRUE /\ dispo = TRUE
  /\ transaction = Aucune

\* Runs that resume before the event loop takes anything else.
Eveillees == {b \in Boucles : etape[b] = "tete" \/ (b \in avortee /\ etape[b] \in Dort)}

Calme == Eveillees = {}

-----------------------------------------------------------------------------
(* Starting and stopping the connector.                                     *)

\* Faulty variant: the controller of the previous run is replaced, not aborted.
internalStartConnector_SansAbort ==
  \E b \in Boucles :
    /\ etape[b] = "finie"
    /\ start' = TRUE /\ morte' = FALSE /\ controleur' = b
    /\ avortee' = avortee \ {b}
    /\ etape' = [etape EXCEPT ![b] = "tete"]

\* The beginning of internalStartConnector: a run with a controller of its
\* own, and the previous controller aborted.
internalStartConnector ==
  \E b \in Boucles :
    /\ etape[b] = "finie"
    /\ start' = TRUE /\ morte' = FALSE /\ controleur' = b
    /\ avortee' = (avortee \cup {controleur}) \ {b, Aucune}
    /\ etape' = [etape EXCEPT ![b] = "tete"]

startConnector ==
  IF start THEN UNCHANGED <<start, morte, controleur, boucles>> ELSE internalStartConnector

\* Faulty variant: the sleeps are not aborted.
stopConnector_SansAbort ==
  /\ start' = FALSE
  /\ avortee' = avortee

\* Faulty variant: the controller is aborted even when there is none.
stopConnector_SansTest ==
  /\ start' = FALSE
  /\ avortee' = IF start THEN avortee \cup {controleur} ELSE avortee

stopConnector ==
  /\ start' = FALSE
  /\ avortee' = IF start THEN (avortee \cup {controleur}) \ {Aucune} ELSE avortee

\* A user of the simulator starts or stops this connector.
DemarrerConnecteur ==
  /\ Calme
  /\ startConnector
  /\ UNCHANGED <<started, station>>

ArreterConnecteur ==
  /\ Calme
  /\ stopConnector
  /\ UNCHANGED <<started, controleur, morte, etape, station>>

\* start, when the station is accepted or a user asks for it.
Demarrer ==
  /\ Calme /\ ~started
  /\ started' = TRUE
  /\ startConnector
  /\ UNCHANGED station

\* stop, when the connection closes, the station stops or a user asks for it.
Arreter ==
  /\ Calme /\ started
  /\ started' = FALSE
  /\ stopConnector
  /\ UNCHANGED <<controleur, morte, etape, station>>

\* The template file changed: stop and start, in one go.
Recharger ==
  /\ Calme /\ started
  /\ internalStartConnector
  /\ UNCHANGED <<started, station>>

-----------------------------------------------------------------------------
(* One run of internalStartConnector.                                       *)

\* The end of the run, which forgets its controller and no other.
Finir(b) ==
  /\ etape' = [etape EXCEPT ![b] = "finie"]
  /\ controleur' = IF controleur = b THEN Aucune ELSE controleur

canStartConnector == accepted /\ stationDispo /\ dispo /\ transaction = Aucune

Bloquee(i) ==
  \/ i = 1 /\ ~stationDispo
  \/ i = 2 /\ ~dispo
  \/ i = 3 /\ transaction # Aucune

\* The first of the waits, from the i-th on, that holds the run back: an
\* aborted run passes them all.
Retenue(b, i) == {j \in i .. 3 : Bloquee(j) /\ b \notin avortee}

Patienter(b, i) ==
  \E j \in Retenue(b, i) :
    /\ \A k \in Retenue(b, i) : j <= k
    /\ etape' = [etape EXCEPT ![b] = Attentes[j]]

\* Faulty variant: the run that cannot charge ends and leaves the connector
\* started.
Attendre_SansArret(b, i) ==
  \/ Patienter(b, i) /\ UNCHANGED <<start, controleur, avortee>>
  \/ /\ Retenue(b, i) = {} /\ canStartConnector
     /\ etape' = [etape EXCEPT ![b] = "delai"]
     /\ UNCHANGED <<start, controleur, avortee>>
  \/ /\ Retenue(b, i) = {}
     /\ Finir(b)
     /\ UNCHANGED <<start, avortee>>

\* The three waits, then the check, which also fails once the stop date of the
\* run is reached, whenever that is.
Attendre(b, i) ==
  \/ Patienter(b, i) /\ UNCHANGED <<start, controleur, avortee>>
  \/ /\ Retenue(b, i) = {} /\ canStartConnector
     /\ etape' = [etape EXCEPT ![b] = "delai"]
     /\ UNCHANGED <<start, controleur, avortee>>
  \/ /\ Retenue(b, i) = {}
     /\ stopConnector
     /\ Finir(b)

\* The head of the loop.
Tour(b) ==
  IF start /\ b \notin avortee
  THEN Attendre(b, 1)
  ELSE Finir(b) /\ UNCHANGED <<start, avortee>>

Commencer(b) ==
  /\ etape[b] = "tete"
  /\ Tour(b)
  /\ UNCHANGED <<started, morte, station>>

\* The timer or the abort of a sleep.
Reveil(b) == b \in avortee \/ Calme

ReprendreAttente(b) ==
  /\ Reveil(b)
  /\ \E i \in 1 .. 3 : etape[b] = Attentes[i] /\ Attendre(b, i)
  /\ UNCHANGED <<started, morte, station>>

\* The delay is over: draw, and start a transaction or skip this turn.
FinDeDelai(b) ==
  /\ Reveil(b) /\ etape[b] = "delai"
  /\ \/ /\ etape' = [etape EXCEPT ![b] = "depart"]
        /\ UNCHANGED <<start, controleur, avortee>>
     \/ Tour(b)
  /\ UNCHANGED <<started, morte, station>>

\* startTransaction returned: the transaction runs, unless the connector was
\* taken meanwhile.
DepartAccepte(b) ==
  /\ Calme /\ etape[b] = "depart"
  /\ transaction' = IF transaction = Aucune THEN b ELSE transaction
  /\ etape' = [etape EXCEPT ![b] = "charge"]
  /\ UNCHANGED <<generateur, avortee, accepted, stationDispo, dispo>>

\* The id tag or the transaction was refused.
DepartRefuse(b) ==
  /\ Calme /\ etape[b] = "depart"
  /\ Tour(b)
  /\ UNCHANGED <<started, morte, station>>

\* A request threw and ends the run; a start that threw may have started the
\* transaction.
Mourir(b) ==
  /\ Calme /\ etape[b] \in {"depart", "arret"}
  /\ Finir(b)
  /\ morte' = (morte \/ controleur = b)
  /\ \/ /\ etape[b] = "depart" /\ transaction = Aucune
        /\ transaction' = Autre
     \/ transaction' = IF transaction = b THEN Autre ELSE transaction
  /\ UNCHANGED <<started, start, avortee, accepted, stationDispo, dispo>>

\* Faulty variant: a run that was stopped leaves its transaction.
FinDeCharge_SiActive(b) ==
  /\ Reveil(b) /\ etape[b] = "charge"
  /\ IF transaction # Aucune /\ b \notin avortee
     THEN /\ etape' = [etape EXCEPT ![b] = "arret"]
          /\ UNCHANGED <<start, controleur, avortee>>
     ELSE Tour(b)
  /\ UNCHANGED <<started, morte, station>>

\* stopTransaction: the transaction of the connector, whoever started it.
FinDeCharge(b) ==
  /\ Reveil(b) /\ etape[b] = "charge"
  /\ IF transaction # Aucune
     THEN /\ etape' = [etape EXCEPT ![b] = "arret"]
          /\ UNCHANGED <<start, controleur, avortee>>
     ELSE Tour(b)
  /\ UNCHANGED <<started, morte, station>>

\* stopTransaction returned, the connector was reset.
Arretee(b) ==
  /\ Calme /\ etape[b] = "arret"
  /\ transaction' = Aucune
  /\ Tour(b)
  /\ UNCHANGED <<started, morte, accepted, stationDispo, dispo>>

-----------------------------------------------------------------------------
(* The station: availability, registration, transactions of other origins. *)

ChangerStation ==
  /\ Calme
  /\ stationDispo' = ~stationDispo
  /\ UNCHANGED <<generateur, boucles, accepted, dispo, transaction>>

ChangerConnecteur ==
  /\ Calme
  /\ dispo' = ~dispo
  /\ UNCHANGED <<generateur, boucles, accepted, stationDispo, transaction>>

\* The BootNotification is accepted, or forgotten by the end of stop.
Enregistrer ==
  /\ Calme
  /\ accepted' = ~accepted
  /\ UNCHANGED <<generateur, boucles, stationDispo, dispo, transaction>>

DemarrerAilleurs ==
  /\ Calme /\ transaction = Aucune
  /\ transaction' = Autre
  /\ UNCHANGED <<generateur, boucles, accepted, stationDispo, dispo>>

ArreterAilleurs ==
  /\ Calme /\ transaction # Aucune
  /\ transaction' = Aucune
  /\ UNCHANGED <<generateur, boucles, accepted, stationDispo, dispo>>

-----------------------------------------------------------------------------

Demande == Demarrer \/ Arreter \/ Recharger
           \/ DemarrerConnecteur \/ ArreterConnecteur

Reponse(b) == DepartAccepte(b) \/ DepartRefuse(b) \/ Mourir(b) \/ Arretee(b)

Sommeil(b) == ReprendreAttente(b) \/ FinDeDelai(b) \/ FinDeCharge(b)

Pas(b) == Commencer(b) \/ Sommeil(b) \/ Reponse(b)

Environnement ==
  \/ ChangerStation \/ Enregistrer
  \/ ChangerConnecteur \/ DemarrerAilleurs \/ ArreterAilleurs

Next == Demande \/ Environnement \/ \E b \in Boucles : Pas(b)

\* Timers fire and requests are answered, well or not.
Spec ==
  /\ Init /\ [][Next]_vars
  /\ \A b \in Boucles :
       WF_vars(Commencer(b)) /\ SF_vars(Sommeil(b)) /\ SF_vars(Reponse(b))

-----------------------------------------------------------------------------
(* Properties.                                                              *)

TypeOK ==
  /\ started \in BOOLEAN /\ start \in BOOLEAN /\ morte \in BOOLEAN
  /\ controleur \in Boucles \cup {Aucune}
  /\ etape \in [Boucles -> Dort \cup {"finie", "tete", "depart", "arret"}]
  /\ avortee \subseteq Boucles
  /\ accepted \in BOOLEAN /\ stationDispo \in BOOLEAN /\ dispo \in BOOLEAN
  /\ transaction \in Boucles \cup {Aucune, Autre}

EnCours(b) == etape[b] # "finie"

\* internalStartConnector aborts the controller it replaces: one run at most
\* was not told to stop, and it owns the controller.
UneBoucleVive ==
  \A b \in Boucles : EnCours(b) /\ b \notin avortee => controleur = b

\* A connector shown as started has a run that was not told to stop, unless an
\* exception ended it: then it must be stopped before it can start again.
DemarreTourne ==
  start /\ ~morte =>
    \E b \in Boucles : controleur = b /\ EnCours(b) /\ b \notin avortee

\* A transaction of the generator always has the run that will stop it, even
\* when the run was stopped, displaced or aborted in any of its sleeps.
SansLaisse == \A b \in Boucles : transaction = b => etape[b] \in {"charge", "arret"}

\* stopConnector and a new start reach the run in whatever sleep it is: the
\* runs of a connector that is stopped, and those displaced, end.
ArretAboutit ==
  \A b \in Boucles : EnCours(b) /\ (~start \/ b \in avortee) ~> ~EnCours(b)

=============================================================================
