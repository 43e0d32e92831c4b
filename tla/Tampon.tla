------------------------------- MODULE Tampon -------------------------------
(***************************************************************************)
(* How a simulated charging station sends an OCPP message                  *)
(* (OCPPRequestService.ts) and keeps in its buffer those it could not send *)
(* (messageQueue of ChargingStation.ts).                                   *)
(*                                                                         *)
(* ws.send answers by a callback, the server by a message, the timeout of  *)
(* a send by a timer, the flush by a chain of sleeps: each of them is a    *)
(* step of its own, and between two of them the socket may have closed.    *)
(* ws is the state of the current socket, wsConnection; a closing socket   *)
(* counts as closed, since both refuse a send through its callback.  A     *)
(* send of the flush may be called back, well or not, after its socket was *)
(* replaced.                                                               *)
(***************************************************************************)
EXTENDS Integers, Sequences, FiniteSets

CONSTANTS
  Appels,       \* CALLs buffered on error
  Declenches,   \* those sent with triggerMessage, which the server asks for
  Resultats,    \* CALLRESULTs, that nobody answers
  SansTampon,   \* CALLs sent with skipBufferingOnError: BootNotification
  ocppStrictCompliance,
  Boucles,      \* runs of sendMessageBuffer
  MaxCoupures   \* bound on the connections that are lost or closed

Aucun == "aucun"

ASSUME HypTampon ==
  /\ MaxCoupures \in Nat
  /\ Aucun \notin Appels \cup Resultats \cup SansTampon
  /\ Appels \cap Resultats = {} /\ SansTampon \cap (Appels \cup Resultats) = {}
  /\ Declenches \subseteq Appels /\ ocppStrictCompliance \in BOOLEAN

Messages == Appels \cup Resultats \cup SansTampon
Demandes == Appels \cup SansTampon

VARIABLES
  ws,            \* readyState of wsConnection
  registration,  \* bootNotificationResponse.status, "Unknown" without a response
  sequence,      \* a startMessageSequence has not reached its end
  remplaces,     \* runs of sendMessageBuffer whose send is on a socket that was replaced
  messageQueue,  \* messageQueue
  flushing,      \* flushingMessageBuffer
  intervalle,    \* flushMessageBufferSetInterval is set
  boucle,        \* where each run of sendMessageBuffer is
  enCours,       \* the message it took at the head of the queue
  ecriture,      \* the ws.send of internalSendMessage, and its timer
  promesse,      \* the promise internalSendMessage returned
  requests,      \* requests: the CALLs whose answer is expected
  traitement,    \* responseHandlers running for each CALL
  ecrits,        \* times each message was written to a socket
  repondus,      \* answers to it that came, or are lost
  expires,       \* messages whose send timed out
  coupures

connexion == <<ws, registration, sequence, remplaces, coupures>>
tampon == <<messageQueue, intervalle>>
vidage == <<flushing, boucle, enCours>>
envois == <<ecriture, expires>>
reponses == <<requests, promesse, traitement, repondus>>
vars == <<connexion, tampon, vidage, envois, reponses, ecrits>>

TypeOK ==
  /\ ws \in {"CONNECTING", "OPEN", "CLOSED"}
  /\ registration \in {"Unknown", "Pending", "Rejected", "Accepted"} /\ sequence \in BOOLEAN
  /\ remplaces \subseteq Boucles
  /\ flushing \in BOOLEAN /\ intervalle \in BOOLEAN
  /\ messageQueue \in Seq(Messages)
  /\ boucle \in [Boucles -> {"repos", "envoi", "pause", "morte"}]
  /\ enCours \in [Boucles -> Messages \cup {Aucun}]
  /\ ecriture \in [Messages -> {"a_venir", "en_cours", "expiree", "faite"}]
  /\ promesse \in [Messages -> {"aucune", "attente", "resolue", "rejetee"}]
  /\ requests \subseteq Demandes
  /\ traitement \in [Messages -> Nat]
  /\ ecrits \in [Messages -> Nat] /\ repondus \in [Messages -> Nat]
  /\ expires \subseteq Messages
  /\ coupures \in 0 .. MaxCoupures

Init ==
  /\ ws = "CLOSED" /\ registration = "Unknown" /\ sequence = FALSE
  /\ remplaces = {} /\ coupures = 0
  /\ messageQueue = <<>> /\ intervalle = FALSE
  /\ flushing = FALSE
  /\ boucle = [b \in Boucles |-> "repos"] /\ enCours = [b \in Boucles |-> Aucun]
  /\ ecriture = [m \in Messages |-> "a_venir"] /\ expires = {}
  /\ promesse = [m \in Messages |-> "aucune"]
  /\ requests = {}
  /\ traitement = [m \in Messages |-> 0]
  /\ ecrits = [m \in Messages |-> 0] /\ repondus = [m \in Messages |-> 0]

-----------------------------------------------------------------------------
(* The connection.                                                          *)

\* Bound: the sends of the messages are called back before their socket is replaced; those
\* of the flush are not.
RienEnEcriture == \A m \in Messages : ecriture[m] \notin {"en_cours", "expiree"}

\* openWSConnection, by start or by reconnect.  When it closes the open socket it finds
\* (closeOpened), this is the step that follows Fermer.
Connecter ==
  /\ ws = "CLOSED" /\ RienEnEcriture
  /\ ws' = "CONNECTING"
  /\ remplaces' = {b \in Boucles : boucle[b] = "envoi"}
  /\ UNCHANGED <<registration, sequence, coupures, tampon, vidage, envois, reponses, ecrits>>

Ouvrir ==
  /\ ws = "CONNECTING"
  /\ ws' = "OPEN"
  /\ UNCHANGED <<registration, sequence, remplaces, coupures, tampon, vidage, envois, reponses,
                 ecrits>>

\* The socket closes or its handshake fails, and the answers under way are
\* lost with it; stop also forgets the registration.
Fermer(arret) ==
  /\ ws # "CLOSED" /\ coupures < MaxCoupures
  /\ ws' = "CLOSED"
  /\ coupures' = coupures + 1
  /\ registration' = IF arret THEN "Unknown" ELSE registration
  /\ repondus' = ecrits
  /\ UNCHANGED <<sequence, remplaces, tampon, vidage, envois, requests, promesse, traitement,
                 ecrits>>

\* A BootNotification is answered: 'accepted' starts the message sequence.
Enregistrer(status) ==
  /\ ws = "OPEN" /\ registration # "Accepted"
  /\ registration' = status
  /\ sequence' = (sequence \/ status = "Accepted")
  /\ UNCHANGED <<ws, remplaces, coupures, tampon, vidage, envois, reponses, ecrits>>

-----------------------------------------------------------------------------
(* Sending a message.                                                       *)

bufferMessage(m) ==
  /\ messageQueue' = Append(messageQueue, m)
  /\ intervalle' = TRUE

Rejeter(m) == promesse' = [promesse EXCEPT ![m] = "rejetee"]

\* The promise keeps the outcome it has.
RejeterSiAttente(m) ==
  promesse' = [promesse EXCEPT ![m] = IF @ = "attente" THEN "rejetee" ELSE @]

\* Faulty variant: the answer to a CALLRESULT is expected too.
handleSendError_ToutAttendu(m) ==
  IF m \in SansTampon
  THEN requests' = requests \ {m} /\ UNCHANGED tampon
  ELSE bufferMessage(m) /\ requests' = requests \cup {m}

\* What becomes of a message that could not be sent.
handleSendError(m) ==
  IF m \in SansTampon
  THEN /\ requests' = requests \ {m}
       /\ UNCHANGED tampon
  ELSE /\ bufferMessage(m)
       /\ requests' = requests \cup ({m} \cap Appels)

\* The states in which the station may send m.
EnvoiPermis(m) ==
  \/ registration = "Accepted" \/ m \in SansTampon
  \/ registration = "Pending" /\ m \in Resultats \cup Declenches
  \/ registration = "Unknown" /\ ~ocppStrictCompliance

\* internalSendMessage on an open socket: ws.send, and a timer.
Envoyer(m) ==
  /\ ecriture[m] = "a_venir" /\ EnvoiPermis(m)
  /\ ws = "OPEN"
  /\ ecriture' = [ecriture EXCEPT ![m] = "en_cours"]
  /\ promesse' = [promesse EXCEPT ![m] = "attente"]
  /\ UNCHANGED <<connexion, tampon, vidage, expires, requests, traitement, repondus, ecrits>>

\* internalSendMessage on any other socket.
EnvoyerHorsLigne(m) ==
  /\ ecriture[m] = "a_venir" /\ EnvoiPermis(m)
  /\ ws # "OPEN"
  /\ ecriture' = [ecriture EXCEPT ![m] = "faite"]
  /\ Rejeter(m) /\ handleSendError(m)
  /\ UNCHANGED <<connexion, vidage, expires, traitement, repondus, ecrits>>

\* The timer of a send that was not called back; the send goes on.
DelaiDEnvoi(m) ==
  /\ ecriture[m] = "en_cours"
  /\ ecriture' = [ecriture EXCEPT ![m] = "expiree"]
  /\ expires' = expires \cup {m}
  /\ RejeterSiAttente(m) /\ handleSendError(m)
  /\ UNCHANGED <<connexion, vidage, traitement, repondus, ecrits>>

\* ws calls back: the message is on the wire, a CALL now waits for its answer.
EnvoiReussi(m) ==
  /\ ecriture[m] \in {"en_cours", "expiree"}
  /\ ecriture' = [ecriture EXCEPT ![m] = "faite"]
  /\ ecrits' = [ecrits EXCEPT ![m] = @ + 1]
  /\ requests' = requests \cup ({m} \cap Demandes)
  /\ promesse' = [promesse EXCEPT ![m] =
                    IF m \in Resultats /\ @ = "attente" THEN "resolue" ELSE @]
  /\ UNCHANGED <<connexion, tampon, vidage, expires, traitement, repondus>>

\* ws calls back with an error: the socket closed before the message left.
EnvoiEchoue(m) ==
  /\ ecriture[m] \in {"en_cours", "expiree"} /\ ws = "CLOSED"
  /\ ecriture' = [ecriture EXCEPT ![m] = "faite"]
  /\ RejeterSiAttente(m) /\ handleSendError(m)
  /\ UNCHANGED <<connexion, vidage, expires, traitement, repondus, ecrits>>

-----------------------------------------------------------------------------
(* The answers.                                                             *)

ReponseArrive(m) ==
  /\ ws = "OPEN" /\ m \in Demandes
  /\ repondus[m] < ecrits[m]
  /\ repondus' = [repondus EXCEPT ![m] = @ + 1]

\* handleResponseMessage: an answer nobody expects is only logged.
RecevoirResultat(m) ==
  /\ ReponseArrive(m)
  /\ traitement' = [traitement EXCEPT ![m] = IF m \in requests THEN @ + 1 ELSE @]
  /\ UNCHANGED <<connexion, tampon, vidage, envois, requests, promesse, ecrits>>

\* handleErrorMessage.
RecevoirErreur(m) ==
  /\ ReponseArrive(m)
  /\ IF m \in requests
     THEN RejeterSiAttente(m) /\ requests' = requests \ {m}
     ELSE UNCHANGED <<promesse, requests>>
  /\ UNCHANGED <<connexion, tampon, vidage, envois, traitement, ecrits>>

\* responseHandler is done, well or not: the request is forgotten.
FinDeTraitement(m) ==
  /\ traitement[m] > 0
  /\ traitement' = [traitement EXCEPT ![m] = @ - 1]
  /\ requests' = requests \ {m}
  /\ \E issue \in {"resolue", "rejetee"} :
       promesse' = [promesse EXCEPT ![m] = IF @ = "attente" THEN issue ELSE @]
  /\ UNCHANGED <<connexion, tampon, vidage, envois, repondus, ecrits>>

-----------------------------------------------------------------------------
(* The flush of the buffer.                                                 *)

\* Faulty variant: the end of a run does not clear flushingMessageBuffer.
sendMessageBuffer_SansFin(b) ==
  IF messageQueue = <<>>
  THEN /\ boucle' = [boucle EXCEPT ![b] = "repos"]
       /\ enCours' = [enCours EXCEPT ![b] = Aucun]
       /\ UNCHANGED flushing
  ELSE /\ boucle' = [boucle EXCEPT ![b] = IF ws = "CONNECTING" THEN "morte" ELSE "envoi"]
       /\ enCours' = [enCours EXCEPT ![b] = Head(messageQueue)]
       /\ flushing' = TRUE

\* One turn of sendMessageBuffer: the queue is empty and the run is over, or
\* its head is sent; ws throws when the socket is CONNECTING, and nothing
\* then ends the run.
sendMessageBuffer(b) ==
  IF messageQueue = <<>>
  THEN /\ boucle' = [boucle EXCEPT ![b] = "repos"]
       /\ enCours' = [enCours EXCEPT ![b] = Aucun]
       /\ flushing' = FALSE
  ELSE IF ws = "CONNECTING"
  THEN /\ boucle' = [boucle EXCEPT ![b] = "morte"]
       /\ flushing' = TRUE
       /\ UNCHANGED enCours
  ELSE /\ boucle' = [boucle EXCEPT ![b] = "envoi"]
       /\ enCours' = [enCours EXCEPT ![b] = Head(messageQueue)]
       /\ flushing' = TRUE

\* Faulty variant: a flush starts whether or not one is running.
flushMessageBuffer_SansGarde ==
  IF messageQueue # <<>>
  THEN \E b \in Boucles : boucle[b] = "repos" /\ sendMessageBuffer(b)
  ELSE UNCHANGED vidage

flushMessageBuffer ==
  IF ~flushing /\ messageQueue # <<>>
  THEN \E b \in Boucles : boucle[b] = "repos" /\ sendMessageBuffer(b)
  ELSE UNCHANGED vidage

\* The interval: it flushes, and clears itself when it has nothing to do.
Battement ==
  /\ intervalle
  /\ IF ws = "OPEN" /\ registration = "Accepted" THEN flushMessageBuffer ELSE UNCHANGED vidage
  /\ intervalle' = (ws = "OPEN" /\ messageQueue # <<>>)
  /\ UNCHANGED <<connexion, messageQueue, envois, reponses, ecrits>>

\* The end of startMessageSequence.
FinDeSequence ==
  /\ sequence
  /\ sequence' = FALSE
  /\ flushMessageBuffer
  /\ UNCHANGED <<ws, registration, remplaces, coupures, tampon, envois, reponses, ecrits>>

\* Faulty variant: the message that was written stays in the queue.
VidageReussi_SansRetrait(b) ==
  /\ boucle[b] = "envoi"
  /\ ecrits' = [ecrits EXCEPT ![enCours[b]] = @ + 1]
  /\ boucle' = [boucle EXCEPT ![b] = "pause"] /\ remplaces' = remplaces \ {b}
  /\ UNCHANGED <<ws, registration, sequence, coupures, tampon, flushing, enCours, envois,
                 reponses>>

\* ws calls back a buffered send: the head of the queue is removed.
VidageReussi(b) ==
  /\ boucle[b] = "envoi"
  /\ ecrits' = [ecrits EXCEPT ![enCours[b]] = @ + 1]
  /\ messageQueue' = IF messageQueue = <<>> THEN <<>> ELSE Tail(messageQueue)
  /\ boucle' = [boucle EXCEPT ![b] = "pause"] /\ remplaces' = remplaces \ {b}
  /\ UNCHANGED <<ws, registration, sequence, coupures, intervalle, flushing, enCours, envois,
                 reponses>>

\* Faulty variant: the message that was not written is removed.
VidageEchoue_Retire(b) ==
  /\ boucle[b] = "envoi" /\ (ws = "CLOSED" \/ b \in remplaces)
  /\ messageQueue # <<>>
  /\ messageQueue' = Tail(messageQueue)
  /\ boucle' = [boucle EXCEPT ![b] = "pause"] /\ remplaces' = remplaces \ {b}
  /\ UNCHANGED <<ws, registration, sequence, coupures, intervalle, flushing, enCours, envois,
                 reponses, ecrits>>

\* ws calls it back with an error: the message stays where it is.
VidageEchoue(b) ==
  /\ boucle[b] = "envoi" /\ (ws = "CLOSED" \/ b \in remplaces)
  /\ boucle' = [boucle EXCEPT ![b] = "pause"] /\ remplaces' = remplaces \ {b}
  /\ UNCHANGED <<ws, registration, sequence, coupures, tampon, flushing, enCours, envois,
                 reponses, ecrits>>

\* The sleep between two turns is over.
VidageReprend(b) ==
  /\ boucle[b] = "pause"
  /\ sendMessageBuffer(b)
  /\ UNCHANGED <<connexion, tampon, envois, reponses, ecrits>>

-----------------------------------------------------------------------------
(* Next.                                                                    *)

Reseau ==
  \/ Connecter \/ Ouvrir
  \/ \E arret \in BOOLEAN : Fermer(arret)
  \/ \E status \in {"Pending", "Rejected", "Accepted"} : Enregistrer(status)

Emission(m) ==
  \/ Envoyer(m) \/ EnvoyerHorsLigne(m) \/ DelaiDEnvoi(m)
  \/ EnvoiReussi(m) \/ EnvoiEchoue(m)

Reception(m) == RecevoirResultat(m) \/ RecevoirErreur(m) \/ FinDeTraitement(m)

Vidage(b) == VidageReussi(b) \/ VidageEchoue(b) \/ VidageReprend(b)

Next ==
  \/ Reseau \/ Battement \/ FinDeSequence
  \/ \E m \in Messages : Emission(m) \/ Reception(m)
  \/ \E b \in Boucles : Vidage(b)

\* Timers fire, callbacks come and a lost connection is tried again.
Equite ==
  /\ WF_vars(Connecter) /\ WF_vars(Ouvrir) /\ WF_vars(Enregistrer("Accepted"))
  /\ WF_vars(Battement) /\ WF_vars(FinDeSequence)
  /\ \A m \in Messages : WF_vars(EnvoiReussi(m) \/ EnvoiEchoue(m))
  /\ \A b \in Boucles : WF_vars(Vidage(b))

Spec == Init /\ [][Next]_vars /\ Equite

-----------------------------------------------------------------------------
(* Properties.                                                              *)

\* flushMessageBuffer runs sendMessageBuffer once at a time, and the run that
\* awaits the callback of a send still has its message at the head of the
\* queue: shift() removes that one and no other.
TeteEnCours ==
  \A b \in Boucles : boucle[b] # "repos" =>
    /\ flushing
    /\ \A autre \in Boucles \ {b} : boucle[autre] = "repos"
    /\ boucle[b] = "envoi" => messageQueue # <<>> /\ enCours[b] = Head(messageQueue)

DansTampon(q, m) == \E i \in 1 .. Len(q) : q[i] = m

\* A message whose sending was given up to the buffer is in the buffer or was
\* written, whatever closed in between.
RienDePerdu ==
  \A m \in Messages \ SansTampon : promesse[m] = "rejetee" =>
    DansTampon(messageQueue, m) \/ ecrits[m] > 0

\* The server sees a message twice only when its first send had timed out.
DoublonApresDelai ==
  \A m \in Messages : ecrits[m] <= IF m \in expires THEN 2 ELSE 1

\* A caller that still waits can still be answered: its message is being
\* written, or the answer to it will find its callbacks.
PromesseReglable ==
  \A m \in Messages : promesse[m] = "attente" =>
    ecriture[m] = "en_cours" \/ m \in requests

\* A message handed to the station is neither lost nor left without its caller being
\* answerable, whatever part of its path a cut or a second flush falls on.
TamponCoherent == TeteEnCours /\ RienDePerdu /\ PromesseReglable

\* A message leaves the buffer in its turn and because it was just written.
SeulLEcritSort ==
  [][messageQueue' # messageQueue =>
       \/ \E m \in Messages : messageQueue' = Append(messageQueue, m)
       \/ /\ messageQueue # <<>> /\ messageQueue' = Tail(messageQueue)
          /\ ecrits'[Head(messageQueue)] = ecrits[Head(messageQueue)] + 1]_vars

\* On a connection that stays open and accepted the buffer empties, unless its
\* interval was cleared or a run of the flush died.
VidageAboutit ==
  <>[](ws = "OPEN" /\ registration = "Accepted") =>
    []<>(messageQueue = <<>> \/ ~intervalle \/ \E b \in Boucles : boucle[b] = "morte")

=============================================================================
