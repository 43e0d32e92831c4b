------------------------------- MODULE Station -------------------------------
(***************************************************************************)
(* The life of a simulated station (ChargingStation.ts): it is started,    *)
(* connects, registers, loses its connection and tries again, is stopped   *)
(* and is reset.  Each of these awaits something, and none of the flows    *)
(* that sleep is cancelled when the station moves on: a retry, a           *)
(* registration or a reset goes on with the station as it finds it.        *)
(*                                                                         *)
(* A socket that was replaced still delivers its events to the station.    *)
(* Sockets are used again once they are closed and the registration loop   *)
(* of their onOpen is over.  autoRegister is false.                        *)
(* The sequence of messages after the registration is in Tampon and        *)
(* Generateur; here it starts the intervals.                               *)
(***************************************************************************)
EXTENDS Integers, FiniteSets

CONSTANTS
  Sockets,           \* sockets, used again once they are closed
  Aucun,             \* no socket
  MaxEssais,         \* autoReconnectMaxRetries, -1 for no limit
  MaxInscriptions,   \* registrationMaxRetries, -1 for no limit
  MaxReprises,       \* bound: retries that sleep at the same time
  Remises            \* resets in progress

ASSUME StationAssumption ==
  /\ Aucun \notin Sockets
  /\ MaxEssais \in Nat \cup {-1} /\ MaxInscriptions \in Nat \cup {-1}
  /\ MaxReprises \in Nat \ {0}

VARIABLES
  started, stopping,        \* flags of the station
  readyState,               \* state of each socket
  wsConnection,             \* the socket the station writes to
  fin,                      \* history: what the close of wsConnection led to
  wsConnectionRetryCount,
  reprises,                 \* reconnect flows that sleep
  registration,             \* bootNotificationResponse.status
  ouverture,                \* the onOpen flow of each socket
  minuteries,               \* intervals that run
  rechargee,                \* history: a reload of the template started the intervals
  remise                    \* where each reset is

vie == <<started, stopping>>
connexion == <<readyState, wsConnection, fin>>
vars == <<vie, connexion, wsConnectionRetryCount, reprises, registration, ouverture,
          minuteries, rechargee, remise>>

Etats == {"CONNECTING", "OPEN", "CLOSING", "CLOSED"}
Statuts == {"Accepted", "Pending", "Rejected"}
Fini == [etat |-> "finie", via |-> Aucun, essais |-> 0]

Init ==
  /\ started = FALSE /\ stopping = FALSE
  /\ readyState = [s \in Sockets |-> "CLOSED"] /\ wsConnection = Aucun /\ fin = "aucune"
  /\ wsConnectionRetryCount = 0 /\ reprises = 0
  /\ registration = "None"
  /\ ouverture = [s \in Sockets |-> Fini]
  /\ minuteries = {} /\ rechargee = FALSE
  /\ remise = [r \in Remises |-> "repos"]

isWebSocketConnectionOpened == wsConnection # Aucun /\ readyState[wsConnection] = "OPEN"

\* The states of the sockets once closeWSConnection was called.
Ferme == IF isWebSocketConnectionOpened
         THEN [readyState EXCEPT ![wsConnection] = "CLOSING"] ELSE readyState

Libres == {s \in Sockets : readyState[s] = "CLOSED" /\ ouverture[s].etat = "finie"}

\* A new socket takes the place of wsConnection, whatever this one was.
Connecter(etats) ==
  \E s \in Libres :
    /\ readyState' = [etats EXCEPT ![s] = "CONNECTING"]
    /\ wsConnection' = s /\ fin' = "aucune"

\* openWSConnection of a station that is started or starting: an open socket is kept, unless
\* closeOpened closes it first.
Rouvrir(fermer) ==
  \/ ~fermer /\ isWebSocketConnectionOpened /\ UNCHANGED connexion
  \/ /\ fermer \/ ~isWebSocketConnectionOpened
     /\ Connecter(IF fermer THEN Ferme ELSE readyState)

-----------------------------------------------------------------------------
(* Start, stop and reset                                                    *)

\* start, which opens a connection before it returns, unless the socket of a stopped
\* station opened meanwhile
start ==
  IF started THEN UNCHANGED <<vie, connexion>>
  ELSE started' = TRUE /\ Rouvrir(FALSE) /\ UNCHANGED stopping

Demarrer ==
  /\ ~started /\ start
  /\ UNCHANGED <<wsConnectionRetryCount, reprises, registration, ouverture, minuteries,
                 rechargee, remise>>

internalStopMessageSequence == minuteries' = {} /\ rechargee' = FALSE

\* stop, up to what it awaits: the stops of the transactions and the notifications
stop ==
  /\ started /\ ~stopping /\ stopping' = TRUE
  /\ internalStopMessageSequence
  /\ UNCHANGED <<started, connexion, wsConnectionRetryCount, reprises, registration, ouverture>>

Arreter == stop /\ UNCHANGED remise

\* Faulty variant: stopping is not reset.
FinArret_SansRemise ==
  /\ stopping
  /\ readyState' = Ferme /\ registration' = "None"
  /\ started' = FALSE /\ UNCHANGED stopping
  /\ remise' = [r \in Remises |-> IF remise[r] = "arret" THEN "sommeil" ELSE remise[r]]
  /\ UNCHANGED <<wsConnection, fin, wsConnectionRetryCount, reprises, ouverture, minuteries,
                 rechargee>>

\* These are answered, fail, or time out after 30 seconds: the station is stopped.
FinArret ==
  /\ stopping
  /\ readyState' = Ferme /\ registration' = "None"
  /\ started' = FALSE /\ stopping' = FALSE
  /\ remise' = [r \in Remises |-> IF remise[r] = "arret" THEN "sommeil" ELSE remise[r]]
  /\ UNCHANGED <<wsConnection, fin, wsConnectionRetryCount, reprises, ouverture, minuteries,
                 rechargee>>

\* A reset that the server asks for; stop returns at once when the station is stopped or
\* another stop is in progress.
Remettre(r) ==
  /\ remise[r] = "repos"
  /\ \E s \in Sockets : readyState[s] = "OPEN"
  /\ registration \in {"Accepted", "Pending"}
  /\ \/ stop /\ remise' = [remise EXCEPT ![r] = "arret"]
     \/ /\ ~started \/ stopping
        /\ remise' = [remise EXCEPT ![r] = "sommeil"]
        /\ UNCHANGED <<vie, connexion, wsConnectionRetryCount, reprises, registration,
                       ouverture, minuteries, rechargee>>

\* The station wakes from its reset: initialize and start
FinRemise(r) ==
  /\ remise[r] = "sommeil" /\ start
  /\ remise' = [remise EXCEPT ![r] = "repos"]
  /\ UNCHANGED <<wsConnectionRetryCount, reprises, registration, ouverture, minuteries, rechargee>>

-----------------------------------------------------------------------------
(* The connection                                                           *)

\* Faulty variant: the state of the station is not looked at.
openWSConnection_SansControle(fermer) == Rouvrir(fermer)

openWSConnection(fermer) == IF started THEN Rouvrir(fermer) ELSE UNCHANGED connexion

\* The open connection and close connection commands of the user interface
OuvrirConnexion ==
  /\ openWSConnection(FALSE)
  /\ UNCHANGED <<vie, wsConnectionRetryCount, reprises, registration, ouverture, minuteries,
                 rechargee, remise>>

FermerConnexion ==
  /\ readyState' = Ferme
  /\ UNCHANGED <<vie, wsConnection, fin, wsConnectionRetryCount, reprises, registration,
                 ouverture, minuteries, rechargee, remise>>

\* The handshake of s succeeds: onOpen looks at wsConnection, which may be another socket.
onOpen(s) ==
  /\ readyState[s] = "CONNECTING"
  /\ readyState' = [readyState EXCEPT ![s] = "OPEN"]
  /\ LET ouverte == wsConnection = s \/ isWebSocketConnectionOpened
     IN  /\ minuteries' = IF ouverte THEN minuteries \cup {"ping"} ELSE minuteries
         /\ ouverture' = IF ouverte /\ registration # "Accepted"
              THEN [ouverture EXCEPT ![s] = [etat |-> "boot", via |-> wsConnection, essais |-> 0]]
              ELSE ouverture
  /\ UNCHANGED <<vie, wsConnection, fin, wsConnectionRetryCount, reprises, registration,
                 rechargee, remise>>

Borne(n, max) == IF max = -1 THEN 1 ELSE n + 1

\* Faulty variant: a retry is planned only for a station that was accepted.
reconnect_SiAcceptee ==
  IF registration = "Accepted" /\ (MaxEssais = -1 \/ wsConnectionRetryCount < MaxEssais)
  THEN /\ wsConnectionRetryCount' = Borne(wsConnectionRetryCount, MaxEssais)
       /\ reprises' = IF reprises < MaxReprises THEN reprises + 1 ELSE reprises
  ELSE UNCHANGED <<wsConnectionRetryCount, reprises>>

\* Faulty variant: -1 is not read as no limit.
reconnect_Compte ==
  IF wsConnectionRetryCount < MaxEssais
  THEN /\ wsConnectionRetryCount' = Borne(wsConnectionRetryCount, MaxEssais)
       /\ reprises' = IF reprises < MaxReprises THEN reprises + 1 ELSE reprises
  ELSE UNCHANGED <<wsConnectionRetryCount, reprises>>

\* reconnect up to its sleep; with no limit, the count matters only as being zero or not
reconnect ==
  IF MaxEssais = -1 \/ wsConnectionRetryCount < MaxEssais
  THEN /\ wsConnectionRetryCount' = Borne(wsConnectionRetryCount, MaxEssais)
       /\ reprises' = IF reprises < MaxReprises THEN reprises + 1 ELSE reprises
  ELSE UNCHANGED <<wsConnectionRetryCount, reprises>>

\* What the close of wsConnection leads to
Issue(normale) ==
  IF normale THEN "normale"
  ELSE IF ~started THEN "arretee"
  ELSE IF MaxEssais = -1 \/ wsConnectionRetryCount < MaxEssais THEN "reprise" ELSE "renonce"

\* Faulty variant: the close of a socket that was replaced is ignored.
onClose_SiCourante(s, normale) ==
  /\ IF s = wsConnection THEN internalStopMessageSequence ELSE UNCHANGED <<minuteries, rechargee>>
  /\ IF normale THEN wsConnectionRetryCount' = 0 /\ UNCHANGED reprises
     ELSE IF started THEN reconnect
     ELSE UNCHANGED <<wsConnectionRetryCount, reprises>>

\* onClose, on whatever socket it is called
onClose(s, normale) ==
  /\ internalStopMessageSequence
  /\ IF normale THEN wsConnectionRetryCount' = 0 /\ UNCHANGED reprises
     ELSE IF started THEN reconnect
     ELSE UNCHANGED <<wsConnectionRetryCount, reprises>>

\* A socket is closed by the other side, by the station, or because its handshake or the
\* network failed; the calls it carried are never answered.
Fermeture(s, normale) ==
  /\ readyState[s] # "CLOSED" /\ (normale => readyState[s] # "CONNECTING")
  /\ readyState' = [readyState EXCEPT ![s] = "CLOSED"]
  /\ ouverture' = [o \in Sockets |-> IF ouverture[o].via = s THEN Fini ELSE ouverture[o]]
  /\ fin' = IF s = wsConnection THEN Issue(normale) ELSE fin
  /\ onClose(s, normale)
  /\ UNCHANGED <<vie, wsConnection, registration, remise>>

\* A reconnect flow wakes.
Reconnecter ==
  /\ reprises > 0 /\ reprises' = reprises - 1
  /\ openWSConnection(TRUE)
  /\ UNCHANGED <<vie, wsConnectionRetryCount, registration, ouverture, minuteries, rechargee, remise>>

-----------------------------------------------------------------------------
(* The registration and the intervals                                       *)

\* handleResponseBootNotification, with the listeners of the events it emits
Inscrire(v) ==
  /\ registration' = v
  /\ minuteries' = IF v = "Accepted" THEN {"ping", "heartbeat"} ELSE minuteries
  /\ wsConnectionRetryCount' = IF v = "Pending" THEN wsConnectionRetryCount ELSE 0

\* The loop of onOpen once its call is over, accepted or not: it ends, or counts and sleeps.
Suite(s, accepte) ==
  IF accepte THEN Fini
  ELSE [etat |-> "attente", via |-> Aucun,
        essais |-> Borne(ouverture[s].essais, MaxInscriptions)]

\* The answer to the boot notification of onOpen
ReponseBoot(s, v) ==
  /\ ouverture[s].etat = "boot"
  /\ Inscrire(v)
  /\ ouverture' = [ouverture EXCEPT ![s] = Suite(s, v = "Accepted")]
  /\ UNCHANGED <<vie, connexion, reprises, rechargee, remise>>

\* It is answered with an error, or its sending fails: requestHandler returns all the same.
EchecBoot(s) ==
  /\ ouverture[s].etat = "boot"
  /\ ouverture' = [ouverture EXCEPT ![s] = Suite(s, registration = "Accepted")]
  /\ UNCHANGED <<vie, connexion, wsConnectionRetryCount, reprises, registration, minuteries,
                 rechargee, remise>>

\* The sleep of onOpen ends: another boot notification, unless the station was accepted
\* meanwhile or gives up.  Without a connection the call fails at once, and the loop counts
\* and sleeps again.
FinDAttente(s) ==
  /\ ouverture[s].etat = "attente"
  /\ ouverture' = [ouverture EXCEPT ![s] =
       IF registration = "Accepted" \/ (MaxInscriptions # -1 /\ @.essais > MaxInscriptions)
       THEN Fini
       ELSE IF isWebSocketConnectionOpened THEN [@ EXCEPT !.etat = "boot", !.via = wsConnection]
       ELSE Suite(s, FALSE)]
  /\ UNCHANGED <<vie, connexion, wsConnectionRetryCount, reprises, registration, minuteries,
                 rechargee, remise>>

\* A boot notification asked for by the user interface or the server
AutreBoot(v) ==
  /\ \E s \in Sockets : readyState[s] \in {"OPEN", "CLOSING"}
  /\ Inscrire(v)
  /\ UNCHANGED <<vie, connexion, reprises, ouverture, rechargee, remise>>

\* The template file changed: the watcher restarts the intervals.
Recharger ==
  /\ started
  /\ minuteries' = {"ping", "heartbeat"} /\ rechargee' = TRUE
  /\ UNCHANGED <<vie, connexion, wsConnectionRetryCount, reprises, registration, ouverture, remise>>

\* The server changes the interval of the heartbeat or of the ping.
ChangerIntervalle(i) ==
  /\ \E s \in Sockets : readyState[s] \in {"OPEN", "CLOSING"}
  /\ registration \in {"Accepted", "Pending"}
  /\ minuteries' = minuteries \cup {i}
  /\ UNCHANGED <<vie, connexion, wsConnectionRetryCount, reprises, registration, ouverture,
                 rechargee, remise>>

-----------------------------------------------------------------------------

Next ==
  \/ Demarrer \/ Arreter \/ FinArret
  \/ \E r \in Remises : Remettre(r) \/ FinRemise(r)
  \/ OuvrirConnexion \/ FermerConnexion \/ Reconnecter
  \/ \E s \in Sockets : onOpen(s) \/ EchecBoot(s) \/ FinDAttente(s)
  \/ \E s \in Sockets, normale \in BOOLEAN : Fermeture(s, normale)
  \/ \E s \in Sockets, v \in Statuts : ReponseBoot(s, v)
  \/ \E v \in Statuts : AutreBoot(v)
  \/ Recharger
  \/ \E i \in {"ping", "heartbeat"} : ChangerIntervalle(i)

\* Timers fire; of the handshakes of wsConnection that are tried again and again, one
\* succeeds; a handshake and a close end.
Equite ==
  /\ WF_vars(FinArret) /\ WF_vars(Reconnecter)
  /\ \A r \in Remises : WF_vars(FinRemise(r))
  /\ \A s \in Sockets :
       /\ WF_vars(FinDAttente(s))
       /\ SF_vars(wsConnection = s /\ onOpen(s))
       /\ WF_vars(readyState[s] = "CLOSING" /\ \E n \in BOOLEAN : Fermeture(s, n))

Spec == Init /\ [][Next]_vars /\ Equite

-----------------------------------------------------------------------------
(* Properties *)

TypeOK ==
  /\ started \in BOOLEAN /\ stopping \in BOOLEAN /\ (stopping => started)
  /\ readyState \in [Sockets -> Etats]
  /\ wsConnection \in Sockets \cup {Aucun}
  /\ fin \in {"aucune", "normale", "arretee", "reprise", "renonce"}
  /\ wsConnectionRetryCount \in Nat /\ reprises \in Nat
  /\ registration \in Statuts \cup {"None"}
  /\ ouverture \in [Sockets -> [etat: {"finie", "boot", "attente"},
                                via: Sockets \cup {Aucun}, essais: Nat]]
  /\ minuteries \subseteq {"ping", "heartbeat"} /\ rechargee \in BOOLEAN
  /\ remise \in [Remises -> {"repos", "arret", "sommeil"}]

\* A station that runs and is not connected has a retry that sleeps, unless its last
\* connection was closed normally or it gave up: no stop, reset or retry that overlaps
\* uses up the retry that was meant for the connection it has now.
RepriseAssuree ==
  started /\ wsConnection # Aucun /\ readyState[wsConnection] = "CLOSED" =>
    fin \in {"normale", "renonce"} \/ reprises > 0

\* The intervals stop with the last connection, even that of a stopped station or of a
\* socket that was replaced, except those a reload of the template started since.
SansSocketSansMinuterie ==
  (\A s \in Sockets : readyState[s] = "CLOSED") => minuteries = {} \/ rechargee

\* A stopped station opens no connection, whatever flow of its last life still sleeps.
ArreteeNeConnectePas ==
  [][~started /\ ~started' => wsConnection' = wsConnection]_vars

\* A connection that is lost is replaced, when there is no limit to the retries.
ReconnexionAboutit ==
  MaxEssais = -1 =>
    (started /\ fin = "reprise" ~> ~started \/ isWebSocketConnectionOpened)

=============================================================================
