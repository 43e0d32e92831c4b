---------------------------- MODULE Transactions ----------------------------
(***************************************************************************)
(* The OCPP 1.6 transactions of one connector of the simulated station:    *)
(* the flows that start one (remote start, generator) and those that stop  *)
(* one (remote stop, unlock, generator, stop of the station), which        *)
(* interleave at every call they await.  The other connectors show only in *)
(* powerDivider, which all the running transactions of the station share.  *)
(*                                                                         *)
(* The connector is available, never reserved and alone on its EVSE.  The  *)
(* station has a file of id tags and shares its power between connectors.  *)
(* Left out: the meter values of a stop that a station without strict      *)
(* compliance sends after StopTransaction (outOfOrderEndMeterValues).      *)
(***************************************************************************)
EXTENDS Naturals

CONSTANTS
  Departs,      \* flows that start a transaction, each with an id tag of its own;
                \* the transaction a flow opens at the server has its name
  Arrets,       \* flows that stop the transaction of the connector
  Aucun,
  Autres,       \* running transactions of the other connectors
  Distants,     \* starts that the server asks for; the others are the generator's
  Autorises,    \* starts whose id tag is authorized first
  Methodes,     \* "locale": the list and the cache, "distante": the server
  LocalAuthListEnabled, beginEndMeterValues, forceTransactionOnInvalidIdToken,
  Delai,        \* postTransactionDelay is positive
  \* What a run says of the surroundings of the station
  Ordonne,      \* the server answers the calls in the order they were sent
  DepartSeul,   \* an authorized start shares the connector with no other (Seul)
  ArretSeul,    \* nobody stops a transaction that is being stopped
  Pannes        \* calls may fail and the station may be stopped

ASSUME FluxAssumption == Departs \cap Arrets = {} /\ Aucun \notin Departs \cup Arrets
ASSUME AutresAssumption == Autres \in Nat
ASSUME ChoixAssumption ==
  {LocalAuthListEnabled, beginEndMeterValues, forceTransactionOnInvalidIdToken, Delai,
   Ordonne, DepartSeul, ArretSeul, Pannes} \subseteq BOOLEAN
\* One setting for the starts of the server, one for those of the generator
ASSUME AutorisesAssumption ==
  /\ Distants \subseteq Departs /\ Autorises \subseteq Departs
  /\ Methodes \subseteq {"locale", "distante"}
  /\ \A D \in {Distants, Departs \ Distants} : D \subseteq Autorises \/ D \cap Autorises = {}

VARIABLES
  status, transactionStarted, transactionId,
  localAuthorizeIdTag,       \* set with idTagLocalAuthorized and cleared with it
  authorizeIdTag, idTagAuthorized, transactionRemoteStarted,
  minuterie,       \* the interval of the periodic meter values is set
  perdues,         \* intervals that were overwritten: nothing clears them
  powerDivider,
  serveur,         \* transactions open at the server
  etape,           \* where each flow is
  vise,            \* transactionId as each stop read it
  avant            \* <<f, g>>: f awaits a call sent before the one g awaits

marques == <<localAuthorizeIdTag, authorizeIdTag, idTagAuthorized, transactionRemoteStarted>>
connecteur == <<status, transactionStarted, transactionId, marques, minuterie, perdues>>
flux == <<etape, avant>>
vars == <<connecteur, powerDivider, serveur, flux, vise>>

Flux == Departs \cup Arrets
Appels == {"authorize", "preparing", "start", "begin", "charging", "restore",
           "finishing", "end", "stop", "available", "delai"}
Repos == {"libre", "fini"}

Init ==
  /\ status = "Available"
  /\ transactionStarted = FALSE /\ transactionId = Aucun
  /\ localAuthorizeIdTag = Aucun /\ authorizeIdTag = Aucun
  /\ idTagAuthorized = FALSE /\ transactionRemoteStarted = FALSE
  /\ minuterie = FALSE /\ perdues = 0
  /\ powerDivider = Autres
  /\ serveur = {}
  /\ etape = [f \in Flux |-> "libre"]
  /\ vise = [a \in Arrets |-> Aucun]
  /\ avant = {}

EnAttente == {f \in Flux : etape[f] \in Appels}

\* f goes to step e; when that step is a call, it is sent now.
Aller(f, e) ==
  /\ etape' = [etape EXCEPT ![f] = e]
  /\ avant' = {p \in avant : f \notin {p[1], p[2]}}
              \cup (IF e \in Appels THEN (EnAttente \ {f}) \X {f} ELSE {})

\* The call that f awaits at step e is answered.
Repondu(f, e) ==
  /\ etape[f] = e
  /\ Ordonne => \A g \in Flux : <<g, f>> \notin avant

-----------------------------------------------------------------------------
(* Starting a transaction.                                                  *)

AuthorizeRemoteTxRequests == Distants \subseteq Autorises

\* A start that was admitted and whose StartTransaction is not answered
EnCours(d) == etape[d] \in {"admis", "authorize", "accepte", "preparing", "start"}

\* An authorized start is under way, or what an authorization left is on the connector.
Marque ==
  \/ localAuthorizeIdTag # Aucun \/ authorizeIdTag # Aucun
  \/ transactionRemoteStarted /\ AuthorizeRemoteTxRequests
  \/ \E c \in Autorises : EnCours(c)

\* The surroundings that DepartSeul stands for: d comes to a connector that nobody uses, or
\* no start that uses it is authorized.
Seul(d) ==
  \/ ~transactionStarted /\ ~\E c \in Departs : EnCours(c)
  \/ d \notin Autorises /\ ~Marque

\* handleRequestRemoteStartTransaction, which looks at the status, or the generator, which
\* looks at the transaction
Demander(d) ==
  /\ etape[d] = "libre"
  /\ IF d \in Distants THEN status # "Finishing" ELSE ~transactionStarted
  /\ DepartSeul => Seul(d)
  /\ Aller(d, IF d \in Autorises THEN "admis" ELSE "accepte")
  /\ UNCHANGED <<connecteur, powerDivider, serveur, vise>>

\* isIdTagAuthorized: the list or the cache knows the id tag.
AutoriserLocalement(d) ==
  /\ etape[d] = "admis" /\ "locale" \in Methodes
  /\ localAuthorizeIdTag' = d
  /\ Aller(d, "accepte")
  /\ UNCHANGED <<status, transactionStarted, transactionId, authorizeIdTag, idTagAuthorized,
                 transactionRemoteStarted, minuterie, perdues, powerDivider, serveur, vise>>

\* The list or the cache refuses it, or nothing can authorize it.
NonAutorise(d) ==
  /\ etape[d] = "admis"
  /\ Aller(d, "fini")
  /\ UNCHANGED <<connecteur, powerDivider, serveur, vise>>

\* authorizeRemote names the id tag on the connector before it sends Authorize.
authorizeRemote(d) ==
  /\ etape[d] = "admis" /\ "distante" \in Methodes
  /\ authorizeIdTag' = d
  /\ Aller(d, "authorize")
  /\ UNCHANGED <<status, transactionStarted, transactionId, localAuthorizeIdTag,
                 idTagAuthorized, transactionRemoteStarted, minuterie, perdues>>
  /\ UNCHANGED <<powerDivider, serveur, vise>>

\* handleResponseAuthorize marks the connector that still names the id tag; the start goes
\* on by what the server said, whatever the connector names.
ReponseAutorisation(d) ==
  /\ Repondu(d, "authorize")
  /\ \E acceptee \in BOOLEAN :
       /\ Aller(d, IF acceptee THEN "accepte" ELSE "fini")
       /\ IF authorizeIdTag = d
          THEN /\ idTagAuthorized' = acceptee
               /\ authorizeIdTag' = IF acceptee THEN d ELSE Aucun
          ELSE UNCHANGED <<idTagAuthorized, authorizeIdTag>>
  /\ UNCHANGED <<status, transactionStarted, transactionId, localAuthorizeIdTag,
                 transactionRemoteStarted, minuterie, perdues, powerDivider, serveur, vise>>

\* The request is answered: START_TRANSACTION, after a status Preparing.
Preparer(d) ==
  /\ etape[d] = "accepte"
  /\ transactionRemoteStarted' = (transactionRemoteStarted \/ d \in Distants)
  /\ Aller(d, "preparing")
  /\ UNCHANGED <<status, transactionStarted, transactionId, localAuthorizeIdTag,
                 authorizeIdTag, idTagAuthorized, minuterie, perdues>>
  /\ UNCHANGED <<powerDivider, serveur, vise>>

Prepare(d) ==
  /\ Repondu(d, "preparing")
  /\ status' = "Preparing"
  /\ Aller(d, "start")
  /\ UNCHANGED <<transactionStarted, transactionId, marques, minuterie, perdues>>
  /\ UNCHANGED <<powerDivider, serveur, vise>>

EffacerMarques ==
  /\ localAuthorizeIdTag' = Aucun /\ authorizeIdTag' = Aucun
  /\ idTagAuthorized' = FALSE /\ transactionRemoteStarted' = FALSE

\* Faulty variant: the interval of the meter values is left running.
resetConnectorStatus_SansMinuterie ==
  /\ transactionStarted' = FALSE /\ transactionId' = Aucun /\ EffacerMarques
  /\ minuterie' = minuterie

\* resetConnectorStatus and stopUpdatedMeterValues, always called together.
resetConnectorStatus ==
  /\ transactionStarted' = FALSE /\ transactionId' = Aucun /\ EffacerMarques
  /\ minuterie' = FALSE

\* restoreConnectorStatus after resetConnectorOnStartTransactionError.
Reinitialiser(d) ==
  /\ resetConnectorStatus
  /\ Aller(d, IF status # "Available" THEN "restore" ELSE "fini")
  /\ UNCHANGED <<status, perdues>>

\* The connector was started remotely and lacks the authorization its settings demand.
NonMarque ==
  /\ transactionRemoteStarted /\ AuthorizeRemoteTxRequests /\ localAuthorizeIdTag = Aucun
  /\ LocalAuthListEnabled \/ ("distante" \in Methodes /\ ~idTagAuthorized)

\* It was authorized for the id tag of another start.
Incompatible(d) ==
  \/ idTagAuthorized /\ authorizeIdTag \notin {d, Aucun}
  \/ localAuthorizeIdTag \notin {d, Aucun}

\* Faulty variant: a transaction may start on a connector that has one.
Occupe_SansTransaction == status \notin {"Available", "Preparing"}

Occupe == transactionStarted \/ status \notin {"Available", "Preparing"}

\* The server accepted the transaction d, or the station goes on in spite of its refusal.
Demarrer(d) ==
  /\ transactionStarted' = TRUE /\ transactionId' = d
  /\ Aller(d, IF beginEndMeterValues THEN "begin" ELSE "charging")
  /\ UNCHANGED <<status, marques, minuterie, perdues>>

\* Faulty variant: a refused transaction is recorded.
ReponseDepart_SansVerdict(d) ==
  /\ Repondu(d, "start")
  /\ \E ouverte \in BOOLEAN :
       /\ serveur' = IF ouverte THEN serveur \cup {d} ELSE serveur
       /\ LET refusee == NonMarque \/ Incompatible(d)
          IN  \/ refusee /\ Reinitialiser(d)
              \/ ~refusee /\ Occupe /\ Aller(d, "fini") /\ UNCHANGED connecteur
              \/ ~refusee /\ ~Occupe /\ Demarrer(d)
  /\ UNCHANGED <<powerDivider, vise>>

\* handleResponseStartTransaction.  The server may have opened the transaction
\* that the station gives up.
ReponseDepart(d) ==
  /\ Repondu(d, "start")
  /\ \E ouverte \in BOOLEAN :
       /\ serveur' = IF ouverte THEN serveur \cup {d} ELSE serveur
       /\ LET refusee == NonMarque \/ Incompatible(d)
              acceptee == ouverte \/ forceTransactionOnInvalidIdToken
          IN  \/ refusee /\ Reinitialiser(d)
              \/ ~refusee /\ Occupe /\ Aller(d, "fini") /\ UNCHANGED connecteur
              \/ ~refusee /\ ~Occupe /\ acceptee /\ Demarrer(d)
              \/ ~refusee /\ ~Occupe /\ ~acceptee /\ Reinitialiser(d)
  /\ UNCHANGED <<powerDivider, vise>>

\* The meter values of the beginning were answered: status Charging.
DebutMesure(d) ==
  /\ Repondu(d, "begin")
  /\ Aller(d, "charging")
  /\ UNCHANGED <<connecteur, powerDivider, serveur, vise>>

\* Faulty variant: powerDivider is forgotten.
ChargeAnnoncee_SansPuissance(d) ==
  /\ Repondu(d, "charging")
  /\ status' = "Charging"
  /\ minuterie' = (minuterie \/ (transactionStarted /\ transactionId # Aucun))
  /\ perdues' = IF minuterie /\ minuterie' THEN perdues + 1 ELSE perdues
  /\ Aller(d, "fini")
  /\ UNCHANGED <<powerDivider, transactionStarted, transactionId, marques, serveur, vise>>

\* The status Charging was answered: powerDivider and the meter values, the
\* latter only for a transaction.
ChargeAnnoncee(d) ==
  /\ Repondu(d, "charging")
  /\ status' = "Charging"
  /\ powerDivider' = powerDivider + 1
  /\ IF transactionStarted /\ transactionId # Aucun
     THEN /\ minuterie' = TRUE
          /\ perdues' = IF minuterie THEN perdues + 1 ELSE perdues
     ELSE UNCHANGED <<minuterie, perdues>>
  /\ Aller(d, "fini")
  /\ UNCHANGED <<transactionStarted, transactionId, marques, serveur, vise>>

Restaure(d) ==
  /\ Repondu(d, "restore")
  /\ status' = "Available"
  /\ Aller(d, "fini")
  /\ UNCHANGED <<transactionStarted, transactionId, marques, minuterie, perdues>>
  /\ UNCHANGED <<powerDivider, serveur, vise>>

-----------------------------------------------------------------------------
(* Stopping a transaction.                                                  *)

ArretEnCours == \E a \in Arrets : etape[a] \notin Repos

\* stopTransactionOnConnector reads the transaction; it sends the meter values of the end
\* first when the station is set to.
EnvoyerArret(a) ==
  /\ vise' = [vise EXCEPT ![a] = transactionId]
  /\ Aller(a, IF beginEndMeterValues THEN "end" ELSE "stop")

\* A remote stop names the transaction; the others only need one.
DemanderArret(a) ==
  /\ etape[a] = "libre"
  /\ ArretSeul => ~ArretEnCours
  /\ \/ (transactionId # Aucun \/ (transactionStarted /\ status # "Finishing"))
        /\ Aller(a, "finishing") /\ UNCHANGED vise
     \/ transactionStarted /\ status = "Finishing" /\ EnvoyerArret(a)
  /\ UNCHANGED <<connecteur, powerDivider, serveur>>

Finissant(a) ==
  /\ Repondu(a, "finishing")
  /\ status' = "Finishing"
  /\ EnvoyerArret(a)
  /\ UNCHANGED <<transactionStarted, transactionId, marques, minuterie, perdues>>
  /\ UNCHANGED <<powerDivider, serveur>>

FinMesure(a) ==
  /\ Repondu(a, "end")
  /\ Aller(a, "stop")
  /\ UNCHANGED <<connecteur, powerDivider, serveur, vise>>

\* Faulty variant: powerDivider may go below zero.
decrementPowerDivider_SansGarde == powerDivider' = powerDivider - 1

decrementPowerDivider == powerDivider' = IF powerDivider > 0 THEN powerDivider - 1 ELSE 0

\* The beginning of the sleep of postTransactionDelay.
Patienter(a) ==
  /\ minuterie' = FALSE /\ transactionId' = Aucun
  /\ Aller(a, "sommeil")
  /\ UNCHANGED <<transactionStarted, marques, perdues>>

\* handleResponseStopTransaction, up to its first call or sleep.
ReponseArret(a) ==
  /\ Repondu(a, "stop")
  /\ serveur' = serveur \ {vise[a]}
  /\ \/ /\ vise[a] = Aucun \/ transactionId # vise[a]
        /\ Aller(a, "fini")
        /\ UNCHANGED <<connecteur, powerDivider>>
     \/ /\ vise[a] # Aucun /\ transactionId = vise[a] /\ ~Delai
        /\ Aller(a, "available")
        /\ UNCHANGED <<connecteur, powerDivider>>
     \/ /\ vise[a] # Aucun /\ transactionId = vise[a] /\ Delai
        /\ decrementPowerDivider
        /\ UNCHANGED status
        /\ IF status # "Finishing"
           THEN /\ Aller(a, "delai")
                /\ UNCHANGED <<transactionStarted, transactionId, marques, minuterie, perdues>>
           ELSE Patienter(a)
  /\ UNCHANGED vise

DelaiAnnonce(a) ==
  /\ Repondu(a, "delai")
  /\ status' = "Finishing"
  /\ Patienter(a)
  /\ UNCHANGED <<powerDivider, serveur, vise>>

\* The sleep ends.
FinDeDelai(a) ==
  /\ etape[a] = "sommeil"
  /\ resetConnectorStatus
  /\ Aller(a, "available")
  /\ UNCHANGED <<status, perdues, powerDivider, serveur, vise>>

\* The sleep ends on a station that was stopped: the connector stays as it is.
FinDeDelaiArretee(a) ==
  /\ Pannes /\ etape[a] = "sommeil"
  /\ Aller(a, "fini")
  /\ UNCHANGED <<connecteur, powerDivider, serveur, vise>>

\* Faulty variant: the connector keeps the transaction that was stopped.
Libere_SansRemise(a) ==
  /\ Repondu(a, "available")
  /\ status' = "Available"
  /\ IF Delai THEN UNCHANGED powerDivider ELSE decrementPowerDivider
  /\ Aller(a, "fini")
  /\ UNCHANGED <<transactionStarted, transactionId, marques, minuterie>>
  /\ UNCHANGED <<perdues, serveur, vise>>

\* The status Available was answered; without a delay the connector is reset
\* only now.
Libere(a) ==
  /\ Repondu(a, "available")
  /\ status' = "Available"
  /\ IF Delai
     THEN UNCHANGED <<transactionStarted, transactionId, marques, minuterie, powerDivider>>
     ELSE resetConnectorStatus /\ decrementPowerDivider
  /\ Aller(a, "fini")
  /\ UNCHANGED <<perdues, serveur, vise>>

-----------------------------------------------------------------------------

\* A call failed: its flow ends there.  The server may have served it.
Echouer(f) ==
  /\ Pannes
  /\ etape[f] \in Appels /\ Repondu(f, etape[f])
  /\ \/ serveur' = serveur
     \/ f \in Departs /\ etape[f] = "start" /\ serveur' = serveur \cup {f}
     \/ f \in Arrets /\ etape[f] = "stop" /\ serveur' = serveur \ {vise[f]}
  /\ Aller(f, "fini")
  /\ UNCHANGED <<connecteur, powerDivider, vise>>

Depart(d) ==
  \/ Demander(d) \/ AutoriserLocalement(d) \/ NonAutorise(d) \/ authorizeRemote(d)
  \/ ReponseAutorisation(d) \/ Preparer(d) \/ Prepare(d)
  \/ ReponseDepart(d) \/ DebutMesure(d) \/ ChargeAnnoncee(d) \/ Restaure(d)

Arret(a) ==
  \/ DemanderArret(a) \/ Finissant(a) \/ FinMesure(a) \/ ReponseArret(a)
  \/ DelaiAnnonce(a) \/ FinDeDelai(a) \/ FinDeDelaiArretee(a) \/ Libere(a)

Next ==
  \/ \E d \in Departs : Depart(d)
  \/ \E a \in Arrets : Arret(a)
  \/ \E f \in Flux : Echouer(f)

\* Calls are answered, well or not, and sleeps end.
Avance(f) ==
  /\ etape[f] # "libre"
  /\ (f \in Departs /\ Depart(f)) \/ (f \in Arrets /\ Arret(f)) \/ Echouer(f)

Spec == Init /\ [][Next]_vars /\ \A f \in Flux : WF_vars(Avance(f))

-----------------------------------------------------------------------------
(* Properties.                                                              *)

TypeOK ==
  /\ status \in {"Available", "Preparing", "Charging", "Finishing"}
  /\ transactionStarted \in BOOLEAN /\ minuterie \in BOOLEAN
  /\ {transactionId, localAuthorizeIdTag, authorizeIdTag} \subseteq Departs \cup {Aucun}
  /\ {idTagAuthorized, transactionRemoteStarted} \subseteq BOOLEAN
  /\ perdues \in Nat /\ powerDivider \in Nat
  /\ serveur \subseteq Departs
  /\ etape \in [Flux -> Appels \cup Repos \cup {"admis", "accepte", "sommeil"}]
  /\ vise \in [Arrets -> Departs \cup {Aucun}]
  /\ avant \subseteq Flux \X Flux

AuRepos == \A f \in Flux : etape[f] \in Repos

\* What the connector records exists at the server, unless a stop for it was
\* sent: no interleaving of starts makes the station charge on a transaction
\* the server does not know.  A station set to charge on a refused id tag does just that.
EnregistreeOuverte ==
  ~forceTransactionOnInvalidIdToken /\ transactionId # Aucun =>
    transactionId \in serveur \/ \E a \in Arrets : vise[a] = transactionId

\* The periodic meter values, which name the transaction of the connector, run
\* only while it has one.
MesuresDeTransaction == minuterie => transactionStarted /\ transactionId # Aucun

\* What the station charges and measures on is known to the server, in any order of the
\* answers.
TransactionConnue == EnregistreeOuverte /\ MesuresDeTransaction

\* A running transaction is never replaced by another, only ended.
JamaisRemplacee ==
  [][transactionId' # transactionId => Aucun \in {transactionId, transactionId'}]_vars

\* At rest the share of the power counts the transactions that run: with answers in order,
\* no failure, no overlapping stops and authorized starts that share the connector with no
\* other, or else a mismatch resets a connector that charges and its share is never returned.
PuissanceExacte ==
  AuRepos => powerDivider = Autres + (IF transactionStarted THEN 1 ELSE 0)

\* No interval of meter values is overwritten while it runs, as nothing could
\* clear it any more, and at rest one runs exactly for a running transaction, in the same conditions.
MesuresExactes == perdues = 0 /\ (AuRepos => (minuterie <=> transactionStarted))

\* A stop that names the transaction of the connector releases the connector.
ArretAboutit ==
  \A a \in Arrets, d \in Departs :
    vise[a] = d /\ etape[a] = "stop" ~> transactionId # d

\* What checkMeasurandPowerDivider demands (OCPPServiceUtils.ts line 1481), or
\* else throws at each meter value: while transactions run, powerDivider counts
\* at least one.
PuissanceUtilisable == Autres > 0 => powerDivider > 0

=============================================================================
