---------------------------- MODULE CentralSystem ----------------------------
(***************************************************************************)
(* The OCPP 1.6-J central system (server.js, ocppHandlers.js): a Node      *)
(* process that holds the WebSockets of the charge points, relays to them  *)
(* the commands it gets from Laravel over HTTP and to Laravel what they    *)
(* report.  Each event handler runs alone up to its next await, so a step  *)
(* is what happens between two of them.                                    *)
(*                                                                         *)
(* A socket, a command and a CALL are used once; sockets are numbered in   *)
(* the order they are opened.  Commands are well formed and authenticated. *)
(***************************************************************************)
EXTENDS Integers, FiniteSets

CONSTANTS
  Bornes,      \* charge point identities
  Sockets,     \* WebSockets, in the order they are opened
  Commandes,   \* uniqueIds of the CALLs the central system initiates
  Appels       \* uniqueIds of the CALLs the charge points initiate

Aucune == 0

ASSUME HypCentral ==
  /\ Sockets \subseteq Nat \ {0}
  /\ Aucune \notin Bornes

VARIABLES
  connections,      \* connections: the socket of each charge point
  pendingCommands,  \* pendingCommands: the commands waiting for an answer
  minuteries,       \* the timeouts that are armed
  borneDe,          \* the charge point a socket was opened for
  readyState,       \* readyState of each socket ("CLOSED": 'close' was emitted)
  commande,         \* the HTTP request of each command, and how it was answered
  versBorne,        \* commands written to a socket and not received yet
  recue,            \* the charge point that received a command
  versCentral,      \* answers on their way to the central system
  appel,            \* the CALLs of the charge points
  disconnect,       \* the /disconnect post of each socket
  etatBorne         \* bornes.status as Laravel holds it

serveur == <<connections, pendingCommands, minuteries>>
prises == <<borneDe, readyState>>
transit == <<versBorne, recue, versCentral>>
vars == <<serveur, prises, commande, transit, appel, disconnect, etatBorne>>

Genres == {"BootNotification", "Heartbeat"}

Codes == {"200", "409", "504"}

Appel == [etat: {"a_venir", "emis", "ingestion", "ingere", "repondu", "perdu"},
          socket: Sockets \cup {Aucune}, genre: Genres]

Reponse == [socket: Sockets, commande: Commandes, type: {3, 4}]

TypeOK ==
  /\ connections \in [Bornes -> Sockets \cup {Aucune}]
  /\ pendingCommands \subseteq Commandes
  /\ minuteries \subseteq Commandes
  /\ borneDe \in [Sockets -> Bornes \cup {Aucune}]
  /\ readyState \in [Sockets -> {"CONNECTING", "OPEN", "CLOSING", "CLOSED"}]
  /\ commande \in [Commandes -> [etat: {"a_venir", "attente"} \cup Codes,
                                 borne: Bornes \cup {Aucune}]]
  /\ versBorne \in [Sockets -> SUBSET Commandes]
  /\ recue \in [Commandes -> Bornes \cup {Aucune}]
  /\ versCentral \subseteq Reponse
  /\ appel \in [Appels -> Appel]
  /\ disconnect \in [Sockets -> {"aucun", "envoye", "fini"}]
  /\ etatBorne \in [Bornes -> {"inconnue", "Disponible", "Deconnectee"}]

Init ==
  /\ connections = [b \in Bornes |-> Aucune]
  /\ pendingCommands = {}
  /\ minuteries = {}
  /\ borneDe = [s \in Sockets |-> Aucune]
  /\ readyState = [s \in Sockets |-> "CONNECTING"]
  /\ commande = [k \in Commandes |-> [etat |-> "a_venir", borne |-> Aucune]]
  /\ versBorne = [s \in Sockets |-> {}]
  /\ recue = [k \in Commandes |-> Aucune]
  /\ versCentral = {}
  /\ appel = [a \in Appels |->
       [etat |-> "a_venir", socket |-> Aucune, genre |-> "Heartbeat"]]
  /\ disconnect = [s \in Sockets |-> "aucun"]
  /\ etatBorne = [b \in Bornes |-> "inconnue"]

-----------------------------------------------------------------------------
(* Connections *)

\* wss.on('connection'): the new socket replaces the one the charge point had.
Connexion(s, b) ==
  /\ borneDe[s] = Aucune
  /\ \A t \in Sockets : t < s => borneDe[t] # Aucune
  /\ borneDe' = [borneDe EXCEPT ![s] = b]
  /\ readyState' = [readyState EXCEPT ![s] = "OPEN"]
  /\ connections' = [connections EXCEPT ![b] = s]
  /\ UNCHANGED <<pendingCommands, minuteries, commande, transit, appel, disconnect, etatBorne>>

\* The peer or the network ends a connection: what was on its way is lost.
Coupure(s) ==
  /\ readyState[s] = "OPEN"
  /\ readyState' = [readyState EXCEPT ![s] = "CLOSING"]
  /\ versBorne' = [versBorne EXCEPT ![s] = {}]
  /\ versCentral' = {m \in versCentral : m.socket # s}
  /\ appel' = [a \in Appels |->
       IF appel[a].etat = "emis" /\ appel[a].socket = s
       THEN [appel[a] EXCEPT !.etat = "perdu"] ELSE appel[a]]
  /\ UNCHANGED <<serveur, borneDe, commande, recue, disconnect, etatBorne>>

\* Faulty variant: the entry is deleted whatever socket it holds.
Oublier_Toujours(s) == [connections EXCEPT ![borneDe[s]] = Aucune]
Oublier(s) ==
  IF connections[borneDe[s]] = s THEN [connections EXCEPT ![borneDe[s]] = Aucune]
                                 ELSE connections

\* ws.on('close'): the entry goes if it is this socket's, Laravel is told anyway.
Fermeture(s) ==
  /\ readyState[s] = "CLOSING"
  /\ readyState' = [readyState EXCEPT ![s] = "CLOSED"]
  /\ connections' = Oublier(s)
  /\ disconnect' = [disconnect EXCEPT ![s] = "envoye"]
  /\ UNCHANGED <<pendingCommands, minuteries, borneDe, commande, transit, appel, etatBorne>>

-----------------------------------------------------------------------------
(* Commands of Laravel to a charge point *)

\* Faulty variant: the command is written to whichever socket is open.
SocketDe_Quelconque(b) ==
  LET ouvertes == {s \in Sockets : readyState[s] = "OPEN"}
  IN  IF ouvertes = {} THEN Aucune ELSE CHOOSE s \in ouvertes : TRUE
SocketDe(b) == connections[b]

Joignable(b) == SocketDe(b) # Aucune /\ readyState[SocketDe(b)] = "OPEN"

Armer_Omis(k) == minuteries   \* faulty variant: no timeout
Armer(k) == minuteries \cup {k}

\* sendCommand: the timeout is armed, the command kept and written to the socket.
Envoyer(k, b) ==
  /\ pendingCommands' = pendingCommands \cup {k}
  /\ minuteries' = Armer(k)
  /\ versBorne' = [versBorne EXCEPT ![SocketDe(b)] = @ \cup {k}]

\* POST /commands/:chargePointId, once its body was read.
Commander(k, b) ==
  /\ commande[k].etat = "a_venir"
  /\ \/ /\ Joignable(b)
        /\ Envoyer(k, b)
        /\ commande' = [commande EXCEPT ![k] = [etat |-> "attente", borne |-> b]]
     \/ /\ ~Joignable(b)
        /\ commande' = [commande EXCEPT ![k] = [etat |-> "409", borne |-> b]]
        /\ UNCHANGED <<pendingCommands, minuteries, versBorne>>
  /\ UNCHANGED <<connections, prises, recue, versCentral, appel, disconnect, etatBorne>>

\* Faulty variant: without the try, a failure gets the generic 500 answer.
Repondre_SansTry(k, code) ==
  commande' = [commande EXCEPT ![k].etat = IF code = "200" THEN code ELSE "500"]
Repondre(k, code) == commande' = [commande EXCEPT ![k].etat = code]

\* The timeout of a command fires: the HTTP request fails.
Delai(k) ==
  /\ k \in minuteries
  /\ minuteries' = minuteries \ {k}
  /\ pendingCommands' = pendingCommands \ {k}
  /\ Repondre(k, "504")
  /\ UNCHANGED <<connections, prises, transit, appel, disconnect, etatBorne>>

Desarmer_Omis(k) == minuteries   \* faulty variant: no clearTimeout
Desarmer(k) == minuteries \ {k}

\* A CALLRESULT (3) or a CALLERROR (4); it is ignored when nobody waits for it.
RecevoirReponse(m) ==
  /\ m \in versCentral
  /\ versCentral' = versCentral \ {m}
  /\ IF m.commande \in pendingCommands
     THEN /\ pendingCommands' = pendingCommands \ {m.commande}
          /\ minuteries' = Desarmer(m.commande)
          /\ Repondre(m.commande, IF m.type = 3 THEN "200" ELSE "504")
     ELSE UNCHANGED <<pendingCommands, minuteries, commande>>
  /\ UNCHANGED <<connections, prises, versBorne, recue, appel, disconnect, etatBorne>>

-----------------------------------------------------------------------------
(* The charge points, as OCPP lets them behave: they may answer late, on a   *)
(* later socket, or never.                                                   *)

RecevoirCommande(s, k) ==
  /\ k \in versBorne[s]
  /\ versBorne' = [versBorne EXCEPT ![s] = @ \ {k}]
  /\ recue' = [recue EXCEPT ![k] = borneDe[s]]
  /\ UNCHANGED <<serveur, prises, commande, versCentral, appel, disconnect, etatBorne>>

RepondreCommande(s, k, type) ==
  /\ recue[k] # Aucune /\ recue[k] = borneDe[s]
  /\ readyState[s] = "OPEN"
  /\ \A m \in versCentral : m.commande # k
  /\ versCentral' = versCentral \cup {[socket |-> s, commande |-> k, type |-> type]}
  /\ UNCHANGED <<serveur, prises, commande, versBorne, recue, appel, disconnect, etatBorne>>

Emettre(s, a, genre) ==
  /\ appel[a].etat = "a_venir"
  /\ readyState[s] = "OPEN"
  /\ appel' = [appel EXCEPT ![a] = [etat |-> "emis", socket |-> s, genre |-> genre]]
  /\ UNCHANGED <<serveur, prises, commande, transit, disconnect, etatBorne>>

-----------------------------------------------------------------------------
(* CALLs of the charge points, relayed to Laravel *)

\* ws.on('message') up to the await on Laravel; CALLs are not handled in turn.
TraiterAppel(a) ==
  /\ appel[a].etat = "emis"
  /\ appel' = [appel EXCEPT ![a].etat = "ingestion"]
  /\ UNCHANGED <<serveur, prises, commande, transit, disconnect, etatBorne>>

\* Laravel: bootNotification makes the charge point available; a heartbeat only
\* does so for one it did not know.
EtatApres(a) ==
  LET b == borneDe[appel[a].socket]
  IN  [etatBorne EXCEPT ![b] =
         IF appel[a].genre = "BootNotification" \/ @ = "inconnue" THEN "Disponible" ELSE @]

\* A post of a handler reaches Laravel, or fails: the handler only logs it.
Ingerer(a) ==
  /\ appel[a].etat = "ingestion"
  /\ appel' = [appel EXCEPT ![a].etat = "ingere"]
  /\ etatBorne' \in {EtatApres(a), etatBorne}
  /\ UNCHANGED <<serveur, prises, commande, transit, disconnect>>

\* The handler ends: its answer is written if the socket is still open.
Acquitter(a) ==
  /\ appel[a].etat = "ingere"
  /\ appel' = [appel EXCEPT ![a].etat =
       IF readyState[appel[a].socket] = "OPEN" THEN "repondu" ELSE "perdu"]
  /\ UNCHANGED <<serveur, prises, commande, transit, disconnect, etatBorne>>

\* Laravel handles /disconnect, or never gets it.
IngererDisconnect(s) ==
  /\ disconnect[s] = "envoye"
  /\ disconnect' = [disconnect EXCEPT ![s] = "fini"]
  /\ etatBorne' \in {etatBorne,
       [etatBorne EXCEPT ![borneDe[s]] = IF @ = "inconnue" THEN @ ELSE "Deconnectee"]}
  /\ UNCHANGED <<serveur, prises, commande, transit, appel>>

-----------------------------------------------------------------------------

\* Every socket and every command was used: the model stops here.
Epuise ==
  /\ \A s \in Sockets : disconnect[s] = "fini"
  /\ \A k \in Commandes : commande[k].etat # "a_venir"
  /\ UNCHANGED vars

Next ==
  \/ \E s \in Sockets, b \in Bornes : Connexion(s, b)
  \/ \E s \in Sockets : Coupure(s) \/ Fermeture(s) \/ IngererDisconnect(s)
  \/ \E k \in Commandes, b \in Bornes : Commander(k, b)
  \/ \E k \in Commandes : Delai(k)
  \/ \E m \in versCentral : RecevoirReponse(m)
  \/ \E s \in Sockets, k \in Commandes : RecevoirCommande(s, k)
  \/ \E s \in Sockets, k \in Commandes, type \in {3, 4} : RepondreCommande(s, k, type)
  \/ \E s \in Sockets, a \in Appels, genre \in Genres : Emettre(s, a, genre)
  \/ \E a \in Appels : TraiterAppel(a) \/ Ingerer(a) \/ Acquitter(a)
  \/ Epuise

\* Timeouts fire, handlers are run, and a post to Laravel ends, one way or the
\* other (fetch gives up); nothing is asked of the charge points.
Equite ==
  /\ \A k \in Commandes : WF_vars(Delai(k))
  /\ \A a \in Appels : /\ WF_vars(TraiterAppel(a))
                       /\ WF_vars(Ingerer(a))
                       /\ WF_vars(Acquitter(a))
Spec == Init /\ [][Next]_vars /\ Equite

-----------------------------------------------------------------------------
(* Properties *)

\* An HTTP request waits if and only if its command is still pending, and then its
\* timeout is armed (server.js:30-34, 104-117, 148-149): whatever the order of a late
\* answer, a timeout and a disconnection, none is left hanging or answered twice.
AttenteExacte ==
  /\ pendingCommands = {k \in Commandes : commande[k].etat = "attente"}
  /\ minuteries = pendingCommands

\* The socket commands are routed to is the last one its charge point opened, until
\* that one closes (server.js:25-28): the close of an older one does not unplug it.
DerniereConnexion ==
  \A b \in Bornes, s \in Sockets :
    (borneDe[s] = b /\ \A t \in Sockets : borneDe[t] = b => t <= s) =>
      connections[b] = IF readyState[s] = "CLOSED" THEN Aucune ELSE s

\* What Laravel may conclude from the answer to a command: it only ever reached the
\* charge point it was for; that one had it on 200, and nobody did on 409.
IssueFiable ==
  \A k \in Commandes :
    /\ recue[k] # Aucune => recue[k] = commande[k].borne
    /\ commande[k].etat = "200" => recue[k] # Aucune
    /\ commande[k].etat = "409" => recue[k] = Aucune

\* Every command of Laravel is answered, even if the charge point never does.
CommandeRepondue == \A k \in Commandes : (commande[k].etat = "attente") ~> (commande[k].etat \in Codes)

\* Every CALL of a charge point is answered, unless its socket is gone: a failure of
\* Laravel does not leave the charge point without an acknowledgement.
AppelAcquitte ==
  \A a \in Appels : (appel[a].etat = "emis") ~> (appel[a].etat \in {"repondu", "perdu"})

\* Neither side waits for the gateway for ever (server.js:108-113, 158-173).
ToutRepondu == CommandeRepondue /\ AppelAcquitte

=============================================================================
