---------------------------- MODULE TamponPreuves ----------------------------
(***************************************************************************)
(* Theorems about Tampon, for every set of messages and every number of    *)
(* lost connections.                                                       *)
(***************************************************************************)
EXTENDS Tampon, SequenceTheorems, FunctionTheorems, FiniteSetTheorems, TLAPS

\* push() keeps the messages of the buffer, adds one, and leaves a head.
LEMMA Ajout ==
  ASSUME NEW S, NEW q \in Seq(S), NEW m \in S
  PROVE  /\ Append(q, m) \in Seq(S) /\ Append(q, m) # <<>>
         /\ q # <<>> => Head(Append(q, m)) = Head(q)
         /\ DansTampon(Append(q, m), m)
         /\ \A n : DansTampon(q, n) => DansTampon(Append(q, m), n)
<1>1. /\ Append(q, m) \in Seq(S) /\ Append(q, m) # <<>>
      /\ Len(Append(q, m)) = Len(q) + 1 /\ Append(q, m)[Len(q) + 1] = m
      /\ \A i \in 1 .. Len(q) : Append(q, m)[i] = q[i]
  BY AppendProperties
<1>2. q # <<>> => Head(Append(q, m)) = Head(q)
  <2>1. SUFFICES ASSUME q # <<>> PROVE Append(q, m)[1] = q[1]
    BY <1>1
  <2>2. 1 \in 1 .. Len(q)
    BY <2>1, LenProperties, EmptySeq
  <2>. QED BY <1>1, <2>2
<1>3. DansTampon(Append(q, m), m)
  <2>1. Len(q) + 1 \in 1 .. Len(Append(q, m))
    BY <1>1, LenProperties
  <2>. QED BY <1>1, <2>1 DEF DansTampon
<1>4. ASSUME NEW n, DansTampon(q, n) PROVE DansTampon(Append(q, m), n)
  <2>1. PICK i \in 1 .. Len(q) : q[i] = n
    BY <1>4 DEF DansTampon
  <2>2. i \in 1 .. Len(Append(q, m)) /\ Append(q, m)[i] = n
    BY <1>1, <2>1, LenProperties
  <2>. QED BY <2>2 DEF DansTampon
<1>. QED BY <1>1, <1>2, <1>3, <1>4

\* shift() removes the head and keeps the others.
LEMMA Retrait ==
  ASSUME NEW S, NEW q \in Seq(S), q # <<>>
  PROVE  /\ Head(q) \in S /\ Tail(q) \in Seq(S) /\ Tail(q) # q
         /\ \A n : DansTampon(q, n) => n = Head(q) \/ DansTampon(Tail(q), n)
<1>1. /\ Head(q) \in S /\ Tail(q) \in Seq(S) /\ Len(Tail(q)) = Len(q) - 1
      /\ \A i \in 1 .. Len(Tail(q)) : Tail(q)[i] = q[i + 1]
  BY HeadTailProperties
<1>2. Tail(q) # q
  <2>1. Len(q) \in Nat
    BY LenProperties
  <2>2. SUFFICES ASSUME Tail(q) = q PROVE FALSE
    OBVIOUS
  <2>3. Len(q) = Len(q) - 1
    BY <1>1, <2>2
  <2>. QED BY <2>1, <2>3
<1>3. ASSUME NEW n, DansTampon(q, n) PROVE n = Head(q) \/ DansTampon(Tail(q), n)
  <2>1. PICK i \in 1 .. Len(q) : q[i] = n
    BY <1>3 DEF DansTampon
  <2>2. CASE i = 1
    BY <2>1, <2>2
  <2>3. CASE i # 1
    <3>1. i - 1 \in 1 .. Len(Tail(q)) /\ Tail(q)[i - 1] = n
      BY <1>1, <2>1, <2>3, LenProperties
    <3>. QED BY <3>1 DEF DansTampon
  <2>. QED BY <2>2, <2>3
<1>. QED BY <1>1, <1>2, <1>3

-----------------------------------------------------------------------------
(* Type correctness.                                                        *)

USE DEF Messages, Demandes

LEMMA TypeReseau == ASSUME TypeOK, Reseau PROVE TypeOK'
<1>1. CASE Connecter
  BY <1>1 DEF TypeOK, Connecter, tampon, vidage, envois, reponses
<1>2. CASE Ouvrir
  BY <1>2 DEF TypeOK, Ouvrir, tampon, vidage, envois, reponses
<1>3. ASSUME NEW arret \in BOOLEAN, Fermer(arret) PROVE TypeOK'
  BY <1>3, HypTampon DEF TypeOK, Fermer, tampon, vidage, envois
<1>4. ASSUME NEW status \in {"Pending", "Rejected", "Accepted"}, Enregistrer(status) PROVE TypeOK'
  BY <1>4 DEF TypeOK, Enregistrer, tampon, vidage, envois, reponses
<1>. QED BY <1>1, <1>2, <1>3, <1>4 DEF Reseau

\* What handleSendError leaves in the buffer and among the requests.
LEMMA TypeErreur ==
  ASSUME TypeOK, NEW m \in Messages, handleSendError(m)
  PROVE  /\ messageQueue' \in Seq(Messages) /\ intervalle' \in BOOLEAN
         /\ requests' \subseteq Demandes
<1>1. CASE m \in SansTampon
  BY <1>1 DEF TypeOK, handleSendError, tampon
<1>2. CASE m \notin SansTampon
  <2>1. messageQueue' = Append(messageQueue, m) /\ intervalle' = TRUE
        /\ requests' = requests \cup ({m} \cap Appels)
    BY <1>2 DEF handleSendError, bufferMessage
  <2>2. messageQueue \in Seq(Messages)
    BY DEF TypeOK
  <2>3. messageQueue' \in Seq(Messages)
    BY <2>1, <2>2, Ajout
  <2>. QED BY <2>1, <2>3 DEF TypeOK
<1>. QED BY <1>1, <1>2

LEMMA TypeEmission ==
  ASSUME TypeOK, NEW m \in Messages, Emission(m) PROVE TypeOK'
<1>1. CASE Envoyer(m)
  BY <1>1 DEF TypeOK, Envoyer, connexion, tampon, vidage
<1>2. CASE EnvoyerHorsLigne(m)
  <2>1. handleSendError(m)
    BY <1>2 DEF EnvoyerHorsLigne
  <2>. QED BY <1>2, <2>1, TypeErreur DEF TypeOK, EnvoyerHorsLigne, Rejeter, connexion, vidage
<1>3. CASE DelaiDEnvoi(m)
  <2>1. handleSendError(m)
    BY <1>3 DEF DelaiDEnvoi
  <2>. QED BY <1>3, <2>1, TypeErreur DEF TypeOK, DelaiDEnvoi, RejeterSiAttente, connexion, vidage
<1>4. CASE EnvoiReussi(m)
  BY <1>4 DEF TypeOK, EnvoiReussi, connexion, tampon, vidage
<1>5. CASE EnvoiEchoue(m)
  <2>1. handleSendError(m)
    BY <1>5 DEF EnvoiEchoue
  <2>. QED BY <1>5, <2>1, TypeErreur DEF TypeOK, EnvoiEchoue, RejeterSiAttente, connexion, vidage
<1>. QED BY <1>1, <1>2, <1>3, <1>4, <1>5 DEF Emission

LEMMA TypeReception ==
  ASSUME TypeOK, NEW m \in Messages, Reception(m) PROVE TypeOK'
<1>1. CASE RecevoirResultat(m)
  BY <1>1 DEF TypeOK, RecevoirResultat, ReponseArrive, connexion, tampon, vidage, envois
<1>2. CASE RecevoirErreur(m)
  <2>1. /\ requests' \subseteq Demandes
        /\ promesse' \in [Messages -> {"aucune", "attente", "resolue", "rejetee"}]
    <3>1. CASE m \in requests
      BY <1>2, <3>1 DEF TypeOK, RecevoirErreur, RejeterSiAttente
    <3>2. CASE m \notin requests
      BY <1>2, <3>2 DEF TypeOK, RecevoirErreur
    <3>. QED BY <3>1, <3>2
  <2>. QED BY <1>2, <2>1 DEF TypeOK, RecevoirErreur, ReponseArrive, connexion, tampon, vidage, envois
<1>3. CASE FinDeTraitement(m)
  BY <1>3 DEF TypeOK, FinDeTraitement, connexion, tampon, vidage, envois
<1>. QED BY <1>1, <1>2, <1>3 DEF Reception

\* A turn of sendMessageBuffer keeps the types of the flush.
LEMMA TypeTour ==
  ASSUME TypeOK, NEW b \in Boucles, sendMessageBuffer(b)
  PROVE  /\ flushing' \in BOOLEAN
         /\ boucle' \in [Boucles -> {"repos", "envoi", "pause", "morte"}]
         /\ enCours' \in [Boucles -> Messages \cup {Aucun}]
<1>1. messageQueue # <<>> => Head(messageQueue) \in Messages
  BY Retrait DEF TypeOK
<1>. QED BY <1>1 DEF TypeOK, sendMessageBuffer

LEMMA TypeFlush ==
  ASSUME TypeOK, flushMessageBuffer
  PROVE  /\ flushing' \in BOOLEAN
         /\ boucle' \in [Boucles -> {"repos", "envoi", "pause", "morte"}]
         /\ enCours' \in [Boucles -> Messages \cup {Aucun}]
BY TypeTour DEF TypeOK, flushMessageBuffer, vidage

LEMMA TypeFlushs ==
  ASSUME TypeOK, Battement \/ FinDeSequence PROVE TypeOK'
<1>1. CASE Battement
  <2>1. /\ flushing' \in BOOLEAN
        /\ boucle' \in [Boucles -> {"repos", "envoi", "pause", "morte"}]
        /\ enCours' \in [Boucles -> Messages \cup {Aucun}]
    <3>1. CASE flushMessageBuffer
      BY <3>1, TypeFlush
    <3>2. CASE UNCHANGED vidage
      BY <3>2 DEF TypeOK, vidage
    <3>. QED BY <1>1, <3>1, <3>2 DEF Battement
  <2>2. intervalle' = TRUE \/ intervalle' = FALSE
    BY <1>1 DEF Battement
  <2>3. /\ UNCHANGED <<ws, registration, sequence, remplaces, coupures, messageQueue, ecriture>>
        /\ UNCHANGED <<expires, requests, promesse, traitement, repondus, ecrits>>
    BY <1>1 DEF Battement, connexion, envois, reponses
  <2>. QED BY <2>1, <2>2, <2>3 DEF TypeOK
<1>2. CASE FinDeSequence
  <2>1. flushMessageBuffer
    BY <1>2 DEF FinDeSequence
  <2>. QED BY <1>2, <2>1, TypeFlush DEF TypeOK, FinDeSequence, tampon, envois, reponses
<1>. QED BY <1>1, <1>2

LEMMA TypeVidage ==
  ASSUME TypeOK, NEW b \in Boucles, Vidage(b) PROVE TypeOK'
<1>1. CASE VidageReussi(b)
  <2>1. messageQueue' \in Seq(Messages)
    BY <1>1, Retrait DEF TypeOK, VidageReussi
  <2>2. ecrits' \in [Messages -> Nat]
    <3>1. enCours[b] \in Messages => ecrits[enCours[b]] + 1 \in Nat
      BY DEF TypeOK
    <3>2. ecrits' = [ecrits EXCEPT ![enCours[b]] = ecrits[enCours[b]] + 1]
      BY <1>1 DEF VidageReussi
    <3>. QED BY <3>1, <3>2 DEF TypeOK
  <2>3. boucle' \in [Boucles -> {"repos", "envoi", "pause", "morte"}]
    BY <1>1 DEF TypeOK, VidageReussi
  <2>4. /\ UNCHANGED <<ws, registration, sequence, coupures, intervalle, flushing, enCours>>
        /\ UNCHANGED envois /\ UNCHANGED reponses
    BY <1>1 DEF VidageReussi
  <2>5. remplaces' \subseteq Boucles
    BY <1>1 DEF TypeOK, VidageReussi
  <2>. QED BY <2>1, <2>2, <2>3, <2>4, <2>5 DEF TypeOK, envois, reponses
<1>2. CASE VidageEchoue(b)
  <2>1. boucle' \in [Boucles -> {"repos", "envoi", "pause", "morte"}]
    BY <1>2 DEF TypeOK, VidageEchoue
  <2>. QED BY <1>2, <2>1 DEF TypeOK, VidageEchoue, tampon, envois, reponses
<1>3. CASE VidageReprend(b)
  <2>1. sendMessageBuffer(b)
    BY <1>3 DEF VidageReprend
  <2>. QED BY <1>3, <2>1, TypeTour DEF TypeOK, VidageReprend, connexion, tampon, envois, reponses
<1>. QED BY <1>1, <1>2, <1>3 DEF Vidage

LEMMA TypeNext == TypeOK /\ [Next]_vars => TypeOK'
<1>. SUFFICES ASSUME TypeOK, [Next]_vars PROVE TypeOK'
  OBVIOUS
<1>1. CASE UNCHANGED vars
  BY <1>1 DEF TypeOK, vars, connexion, tampon, vidage, envois, reponses
<1>2. CASE Next
  BY <1>2, TypeReseau, TypeEmission, TypeReception, TypeFlushs, TypeVidage DEF Next
<1>. QED BY <1>1, <1>2

\* Every variable keeps its type.
THEOREM TypeCorrecte == Spec => []TypeOK
<1>1. ASSUME Init PROVE TypeOK
  <2>1. messageQueue \in Seq(Messages) /\ coupures \in 0 .. MaxCoupures
    BY <1>1, EmptySeq, HypTampon DEF Init
  <2>. QED BY <1>1, <2>1 DEF Init, TypeOK
<1>. QED BY <1>1, TypeNext, PTL DEF Spec

-----------------------------------------------------------------------------
(* The run of the flush.                                                    *)

\* What a turn of sendMessageBuffer by the only run there may be leaves.
LEMMA TeteTour ==
  ASSUME TypeOK, TeteEnCours, NEW b \in Boucles, sendMessageBuffer(b),
         \A autre \in Boucles \ {b} : boucle[autre] = "repos", UNCHANGED messageQueue
  PROVE  TeteEnCours'
<1>. SUFFICES ASSUME NEW c \in Boucles, boucle'[c] # "repos"
     PROVE  /\ flushing' /\ \A autre \in Boucles \ {c} : boucle'[autre] = "repos"
            /\ boucle'[c] = "envoi" => messageQueue # <<>> /\ enCours'[c] = Head(messageQueue)
  BY DEF TeteEnCours
<1>1. messageQueue # <<>> /\ c = b
  BY DEF TypeOK, sendMessageBuffer
<1>. QED BY <1>1 DEF TypeOK, sendMessageBuffer

LEMMA TeteFlush ==
  ASSUME TypeOK, TeteEnCours, flushMessageBuffer, UNCHANGED messageQueue PROVE TeteEnCours'
<1>1. CASE ~flushing /\ messageQueue # <<>>
  <2>1. PICK b \in Boucles : sendMessageBuffer(b)
    BY <1>1 DEF flushMessageBuffer
  <2>2. \A autre \in Boucles : boucle[autre] = "repos"
    BY <1>1 DEF TeteEnCours
  <2>. QED BY <2>1, <2>2, TeteTour
<1>2. CASE UNCHANGED vidage
  BY <1>2 DEF TeteEnCours, vidage
<1>. QED BY <1>1, <1>2 DEF flushMessageBuffer

\* The steps that only add messages to the buffer.
LEMMA TeteAjout ==
  ASSUME TypeOK, TeteEnCours, UNCHANGED vidage,
         \/ UNCHANGED messageQueue
         \/ \E m \in Messages : messageQueue' = Append(messageQueue, m)
  PROVE  TeteEnCours'
<1>1. messageQueue # <<>> => messageQueue' # <<>> /\ Head(messageQueue') = Head(messageQueue)
  <2>1. ASSUME NEW m \in Messages, messageQueue' = Append(messageQueue, m)
        PROVE  messageQueue # <<>> => messageQueue' # <<>> /\ Head(messageQueue') = Head(messageQueue)
    BY <2>1, Ajout DEF TypeOK
  <2>. QED BY <2>1
<1>. QED BY <1>1 DEF TeteEnCours, vidage

\* Only the flush removes messages from the buffer.
LEMMA AjoutSeul ==
  ASSUME NEW m \in Messages, Emission(m) \/ Reception(m)
  PROVE  /\ UNCHANGED vidage
         /\ UNCHANGED messageQueue \/ messageQueue' = Append(messageQueue, m)
<1>1. handleSendError(m) =>
        UNCHANGED messageQueue \/ messageQueue' = Append(messageQueue, m)
  BY DEF handleSendError, bufferMessage, tampon
<1>2. CASE Emission(m)
  BY <1>1, <1>2 DEF Emission, Envoyer, EnvoyerHorsLigne, DelaiDEnvoi, EnvoiReussi, EnvoiEchoue, tampon
<1>3. CASE Reception(m)
  BY <1>3 DEF Reception, RecevoirResultat, RecevoirErreur, FinDeTraitement, tampon
<1>. QED BY <1>2, <1>3

LEMMA TeteVidage ==
  ASSUME TypeOK, TeteEnCours, NEW b \in Boucles, Vidage(b) PROVE TeteEnCours'
<1>1. \A autre \in Boucles \ {b} : boucle[autre] = "repos"
  BY DEF TeteEnCours, Vidage, VidageReussi, VidageEchoue, VidageReprend
<1>2. CASE VidageReussi(b) \/ VidageEchoue(b)
  <2>1. boucle' = [boucle EXCEPT ![b] = "pause"] /\ flushing' = flushing /\ boucle[b] = "envoi"
    BY <1>2 DEF VidageReussi, VidageEchoue
  <2>2. flushing
    BY <2>1 DEF TeteEnCours
  <2>. QED BY <1>1, <2>1, <2>2 DEF TypeOK, TeteEnCours
<1>3. CASE VidageReprend(b)
  <2>1. sendMessageBuffer(b) /\ UNCHANGED messageQueue
    BY <1>3 DEF VidageReprend, tampon
  <2>. QED BY <1>1, <2>1, TeteTour
<1>. QED BY <1>2, <1>3 DEF Vidage

LEMMA TeteNext == TypeOK /\ TeteEnCours /\ [Next]_vars => TeteEnCours'
<1>. SUFFICES ASSUME TypeOK, TeteEnCours, [Next]_vars PROVE TeteEnCours'
  OBVIOUS
<1>1. CASE UNCHANGED vars \/ Reseau
  <2>1. UNCHANGED vidage /\ UNCHANGED messageQueue
    BY <1>1 DEF Reseau, Connecter, Ouvrir, Fermer, Enregistrer, vars, tampon
  <2>. QED BY <2>1, TeteAjout
<1>2. CASE Battement
  <2>1. UNCHANGED messageQueue /\ (flushMessageBuffer \/ UNCHANGED vidage)
    BY <1>2 DEF Battement
  <2>. QED BY <2>1, TeteFlush, TeteAjout
<1>3. CASE FinDeSequence
  <2>1. UNCHANGED messageQueue /\ flushMessageBuffer
    BY <1>3 DEF FinDeSequence, tampon
  <2>. QED BY <2>1, TeteFlush
<1>4. ASSUME NEW m \in Messages, Emission(m) \/ Reception(m) PROVE TeteEnCours'
  BY <1>4, AjoutSeul, TeteAjout
<1>5. ASSUME NEW b \in Boucles, Vidage(b) PROVE TeteEnCours'
  BY <1>5, TeteVidage
<1>. QED BY <1>1, <1>2, <1>3, <1>4, <1>5 DEF Next

\* The run that awaits a send has its message at the head of the buffer, and
\* there is one run at a time.
THEOREM TeteCorrecte == Spec => []TeteEnCours
<1>1. Init => TeteEnCours
  BY DEF Init, TeteEnCours
<1>. QED BY <1>1, TypeCorrecte, TeteNext, PTL DEF Spec

\* The buffer loses a message only in its turn, and because it was written.
THEOREM EcritSort == Spec => SeulLEcritSort
<1>. DEFINE Sortie ==
       messageQueue' # messageQueue =>
         \/ \E m \in Messages : messageQueue' = Append(messageQueue, m)
         \/ /\ messageQueue # <<>> /\ messageQueue' = Tail(messageQueue)
            /\ ecrits'[Head(messageQueue)] = ecrits[Head(messageQueue)] + 1
<1>1. TypeOK /\ TeteEnCours /\ [Next]_vars => [Sortie]_vars
  <2>. SUFFICES ASSUME TypeOK, TeteEnCours, Next, messageQueue' # messageQueue
       PROVE  \/ \E m \in Messages : messageQueue' = Append(messageQueue, m)
              \/ /\ messageQueue # <<>> /\ messageQueue' = Tail(messageQueue)
                 /\ ecrits'[Head(messageQueue)] = ecrits[Head(messageQueue)] + 1
    OBVIOUS
  <2>1. CASE Reseau \/ Battement \/ FinDeSequence
    BY <2>1 DEF Reseau, Connecter, Ouvrir, Fermer, Enregistrer, Battement, FinDeSequence, tampon
  <2>2. ASSUME NEW m \in Messages, Emission(m) \/ Reception(m)
        PROVE  messageQueue' = Append(messageQueue, m)
    BY <2>2, AjoutSeul
  <2>3. ASSUME NEW b \in Boucles, Vidage(b)
        PROVE  /\ messageQueue # <<>> /\ messageQueue' = Tail(messageQueue)
               /\ ecrits'[Head(messageQueue)] = ecrits[Head(messageQueue)] + 1
    <3>1. VidageReussi(b)
      BY <2>3 DEF Vidage, VidageEchoue, VidageReprend, tampon
    <3>2. messageQueue # <<>> /\ enCours[b] = Head(messageQueue)
      BY <3>1 DEF TeteEnCours, VidageReussi
    <3>3. Head(messageQueue) \in Messages
      BY <3>2, Retrait DEF TypeOK
    <3>. QED BY <3>1, <3>2, <3>3 DEF TypeOK, VidageReussi
  <2>. QED BY <2>1, <2>2, <2>3 DEF Next
<1>. QED BY <1>1, TypeCorrecte, TeteCorrecte, PTL DEF Spec, SeulLEcritSort

-----------------------------------------------------------------------------
(* Nothing is lost, and every caller can be answered.                       *)

\* A response handler runs only for a message that was written.
TraiteEcrit == \A m \in Messages : traitement[m] > 0 => ecrits[m] > 0

\* Writing is counted, never forgotten.
LEMMA EcritsCroissent ==
  ASSUME TypeOK, [Next]_vars
  PROVE  \A m \in Messages : ecrits[m] > 0 => ecrits'[m] > 0
<1>. SUFFICES ASSUME NEW n \in Messages, ecrits[n] > 0 PROVE ecrits'[n] > 0
  OBVIOUS
<1>1. CASE UNCHANGED ecrits
  BY <1>1
<1>2. ASSUME NEW m \in Messages, EnvoiReussi(m) PROVE ecrits'[n] > 0
  BY <1>2 DEF TypeOK, EnvoiReussi
<1>3. ASSUME NEW b \in Boucles, VidageReussi(b) PROVE ecrits'[n] > 0
  BY <1>3 DEF TypeOK, VidageReussi
<1>. QED
  BY <1>1, <1>2, <1>3 DEF Next, Reseau, Connecter, Ouvrir, Fermer, Enregistrer, Battement,
     FinDeSequence, Emission, Envoyer, EnvoyerHorsLigne, DelaiDEnvoi, EnvoiEchoue, Reception,
     RecevoirResultat, RecevoirErreur, FinDeTraitement, Vidage, VidageEchoue, VidageReprend, vars

LEMMA TraiteNext == TypeOK /\ TraiteEcrit /\ [Next]_vars => TraiteEcrit'
<1>. SUFFICES ASSUME TypeOK, TraiteEcrit, [Next]_vars, NEW n \in Messages, traitement'[n] > 0
     PROVE  ecrits'[n] > 0
  BY DEF TraiteEcrit
<1>1. CASE traitement[n] > 0
  BY <1>1, EcritsCroissent DEF TraiteEcrit
<1>2. CASE ~(traitement[n] > 0)
  <2>1. RecevoirResultat(n)
    BY <1>2 DEF TypeOK, Next, Reseau, Connecter, Ouvrir, Fermer, Enregistrer, Battement,
       FinDeSequence, Emission, Envoyer, EnvoyerHorsLigne, DelaiDEnvoi, EnvoiReussi, EnvoiEchoue,
       Reception, RecevoirResultat, RecevoirErreur, FinDeTraitement, Vidage, VidageReussi,
       VidageEchoue, VidageReprend, vars, reponses
  <2>. QED BY <2>1 DEF TypeOK, RecevoirResultat, ReponseArrive
<1>. QED BY <1>1, <1>2

\* A message stays in the buffer until it is written.
LEMMA ResteDansTampon ==
  ASSUME TypeOK, TeteEnCours, [Next]_vars, NEW m \in Messages, DansTampon(messageQueue, m)
  PROVE  DansTampon(messageQueue', m) \/ ecrits'[m] > 0
<1>1. CASE UNCHANGED messageQueue
  BY <1>1
<1>2. ASSUME NEW n \in Messages, messageQueue' = Append(messageQueue, n)
      PROVE  DansTampon(messageQueue', m)
  BY <1>2, Ajout DEF TypeOK
<1>3. ASSUME NEW b \in Boucles, VidageReussi(b)
      PROVE  DansTampon(messageQueue', m) \/ ecrits'[m] > 0
  <2>1. messageQueue # <<>> /\ enCours[b] = Head(messageQueue)
    BY <1>3 DEF TeteEnCours, VidageReussi
  <2>2. messageQueue' = Tail(messageQueue)
    BY <1>3, <2>1 DEF VidageReussi
  <2>3. m = Head(messageQueue) \/ DansTampon(messageQueue', m)
    BY <2>1, <2>2, Retrait DEF TypeOK
  <2>4. enCours[b] = m => ecrits'[m] > 0
    BY <1>3 DEF TypeOK, VidageReussi
  <2>. QED BY <2>1, <2>3, <2>4
<1>4. ASSUME NEW n \in Messages, Emission(n) \/ Reception(n)
      PROVE  DansTampon(messageQueue', m)
  <2>1. UNCHANGED messageQueue \/ messageQueue' = Append(messageQueue, n)
    BY <1>4, AjoutSeul
  <2>. QED BY <1>2, <2>1
<1>5. CASE UNCHANGED vars \/ Reseau \/ Battement \/ FinDeSequence
  <2>1. UNCHANGED messageQueue
    BY <1>5 DEF Reseau, Connecter, Ouvrir, Fermer, Enregistrer, Battement, FinDeSequence, vars, tampon
  <2>. QED BY <1>1, <2>1
<1>6. ASSUME NEW b \in Boucles, VidageEchoue(b) \/ VidageReprend(b) PROVE UNCHANGED messageQueue
  BY <1>6 DEF VidageEchoue, VidageReprend, tampon
<1>. QED BY <1>1, <1>3, <1>4, <1>5, <1>6 DEF Next, Vidage

LEMMA PerduNext ==
  TypeOK /\ TeteEnCours /\ TraiteEcrit /\ RienDePerdu /\ [Next]_vars => RienDePerdu'
<1>. SUFFICES ASSUME TypeOK, TeteEnCours, TraiteEcrit, RienDePerdu, [Next]_vars,
                     NEW n \in Messages \ SansTampon, promesse'[n] = "rejetee"
     PROVE  DansTampon(messageQueue', n) \/ ecrits'[n] > 0
  BY DEF RienDePerdu
<1>1. CASE promesse[n] = "rejetee" \/ ecrits[n] > 0
  BY <1>1, ResteDansTampon, EcritsCroissent DEF RienDePerdu
<1>2. CASE handleSendError(n)
  <2>1. messageQueue' = Append(messageQueue, n)
    BY <1>2 DEF handleSendError, bufferMessage
  <2>. QED BY <2>1, Ajout DEF TypeOK
<1>3. promesse[n] # "rejetee" =>
        handleSendError(n) \/ RecevoirErreur(n) \/ FinDeTraitement(n)
  BY DEF TypeOK, Next, Reseau, Connecter, Ouvrir, Fermer, Enregistrer, Battement, FinDeSequence,
     Emission, Envoyer, EnvoyerHorsLigne, DelaiDEnvoi, EnvoiReussi, EnvoiEchoue, Rejeter,
     RejeterSiAttente, Reception, RecevoirResultat, RecevoirErreur, FinDeTraitement, Vidage,
     VidageReussi, VidageEchoue, VidageReprend, vars, reponses
<1>4. RecevoirErreur(n) \/ FinDeTraitement(n) => ecrits[n] > 0
  BY DEF TypeOK, TraiteEcrit, RecevoirErreur, FinDeTraitement, ReponseArrive
<1>. QED BY <1>1, <1>2, <1>3, <1>4

\* A message given up to the buffer stays there until it is written.
THEOREM RienNEstPerdu == Spec => []RienDePerdu
<1>1. Init => TraiteEcrit /\ RienDePerdu
  BY DEF Init, TraiteEcrit, RienDePerdu
<1>. QED BY <1>1, TypeCorrecte, TeteCorrecte, TraiteNext, PerduNext, PTL DEF Spec

LEMMA ReglableNext == TypeOK /\ PromesseReglable /\ [Next]_vars => PromesseReglable'
<1>. SUFFICES ASSUME TypeOK, PromesseReglable, [Next]_vars,
                     NEW n \in Messages, promesse'[n] = "attente"
     PROVE  ecriture'[n] = "en_cours" \/ n \in requests'
  BY DEF PromesseReglable
<1>1. CASE promesse[n] # "attente"
  <2>1. Envoyer(n)
    BY <1>1 DEF TypeOK, Next, Reseau, Connecter, Ouvrir, Fermer, Enregistrer, Battement,
       FinDeSequence, Emission, Envoyer, EnvoyerHorsLigne, DelaiDEnvoi, EnvoiReussi, EnvoiEchoue,
       Rejeter, RejeterSiAttente, Reception, RecevoirResultat, RecevoirErreur, FinDeTraitement,
       Vidage, VidageReussi, VidageEchoue, VidageReprend, vars, reponses
  <2>. QED BY <2>1 DEF TypeOK, Envoyer
<1>2. CASE promesse[n] = "attente"
  <2>1. ecriture[n] = "en_cours" \/ n \in requests
    BY <1>2 DEF PromesseReglable
  <2>2. CASE UNCHANGED <<ecriture, requests>>
    BY <2>1, <2>2
  <2>3. ASSUME NEW m \in Messages, Emission(m)
        PROVE  ecriture'[n] = "en_cours" \/ n \in requests'
    <3>1. handleSendError(m) => m = n \/ (n \in requests => n \in requests')
      BY DEF handleSendError
    <3>2. CASE Envoyer(m)
      BY <2>1, <3>2 DEF TypeOK, Envoyer
    <3>3. CASE EnvoyerHorsLigne(m)
      BY <1>2, <2>1, <3>1, <3>3 DEF TypeOK, EnvoyerHorsLigne, Rejeter
    <3>4. CASE DelaiDEnvoi(m)
      BY <1>2, <2>1, <3>1, <3>4 DEF TypeOK, DelaiDEnvoi, RejeterSiAttente
    <3>5. CASE EnvoiReussi(m)
      BY <1>2, <2>1, <3>5, HypTampon DEF TypeOK, EnvoiReussi
    <3>6. CASE EnvoiEchoue(m)
      BY <1>2, <2>1, <3>1, <3>6 DEF TypeOK, EnvoiEchoue, RejeterSiAttente
    <3>. QED BY <2>3, <3>2, <3>3, <3>4, <3>5, <3>6 DEF Emission
  <2>4. ASSUME NEW m \in Messages, Reception(m)
        PROVE  ecriture'[n] = "en_cours" \/ n \in requests'
    BY <1>2, <2>1, <2>4 DEF TypeOK, Reception, RecevoirResultat, RecevoirErreur, FinDeTraitement,
       RejeterSiAttente, envois
  <2>5. CASE Reseau \/ Battement \/ FinDeSequence \/ UNCHANGED vars
    BY <2>2, <2>5 DEF Reseau, Connecter, Ouvrir, Fermer, Enregistrer, Battement, FinDeSequence,
       vars, envois, reponses
  <2>6. ASSUME NEW b \in Boucles, Vidage(b) PROVE UNCHANGED <<ecriture, requests>>
    BY <2>6 DEF Vidage, VidageReussi, VidageEchoue, VidageReprend, envois, reponses
  <2>. QED BY <2>2, <2>3, <2>4, <2>5, <2>6 DEF Next
<1>. QED BY <1>1, <1>2

\* A caller that waits is never left without the callbacks of its message.
THEOREM ToutAppelReglable == Spec => []PromesseReglable
<1>1. Init => PromesseReglable
  BY DEF Init, PromesseReglable
<1>. QED BY <1>1, TypeCorrecte, ReglableNext, PTL DEF Spec

\* The head of the queue, what is given up to the buffer and the callers stay right
\* together (TamponCoherent).
THEOREM TamponToujoursCoherent == Spec => []TamponCoherent
<1>1. TeteEnCours /\ RienDePerdu /\ PromesseReglable => TamponCoherent
  BY DEF TamponCoherent
<1>. QED BY <1>1, TeteCorrecte, RienNEstPerdu, ToutAppelReglable, PTL

-----------------------------------------------------------------------------
(* How often a message can be written.                                      *)

\* The places of m in the buffer q, and how many they are.
Places(q, m) == {i \in 1 .. Len(q) : q[i] = m}
Copies(q, m) == Cardinality(Places(q, m))

LEMMA CopiesType ==
  ASSUME NEW S, NEW q \in Seq(S), NEW n
  PROVE  IsFiniteSet(Places(q, n)) /\ Copies(q, n) \in Nat
<1>1. IsFiniteSet(1 .. Len(q))
  BY LenProperties, FS_Interval
<1>2. Places(q, n) \in SUBSET (1 .. Len(q))
  BY DEF Places
<1>3. IsFiniteSet(Places(q, n))
  BY <1>1, <1>2, FS_Subset
<1>. QED BY <1>3, FS_CardinalityType DEF Copies

\* push() adds one copy of its message and of no other.
LEMMA CopiesAjout ==
  ASSUME NEW S, NEW q \in Seq(S), NEW m \in S, NEW n
  PROVE  Copies(Append(q, m), n) = IF n = m THEN Copies(q, n) + 1 ELSE Copies(q, n)
<1>1. /\ Len(Append(q, m)) = Len(q) + 1 /\ Append(q, m)[Len(q) + 1] = m
      /\ \A i \in 1 .. Len(q) : Append(q, m)[i] = q[i]
  BY AppendProperties
<1>2. Len(q) \in Nat
  BY LenProperties
<1>3. CASE n = m
  <2>1. Places(Append(q, m), n) = Places(q, n) \cup {Len(q) + 1}
    BY <1>1, <1>2, <1>3 DEF Places
  <2>2. Len(q) + 1 \notin Places(q, n)
    BY <1>2 DEF Places
  <2>3. IsFiniteSet(Places(q, n))
    BY CopiesType
  <2>. QED BY <1>3, <2>1, <2>2, <2>3, FS_AddElement DEF Copies
<1>4. CASE n # m
  <2>1. Places(Append(q, m), n) = Places(q, n)
    BY <1>1, <1>2, <1>4 DEF Places
  <2>. QED BY <1>4, <2>1 DEF Copies
<1>. QED BY <1>3, <1>4

\* shift() takes one copy of the head and of no other.
LEMMA CopiesRetrait ==
  ASSUME NEW S, NEW q \in Seq(S), q # <<>>, NEW n
  PROVE  Copies(q, n) = IF n = Head(q) THEN Copies(Tail(q), n) + 1 ELSE Copies(Tail(q), n)
<1>1. /\ Tail(q) \in Seq(S) /\ Len(Tail(q)) = Len(q) - 1
      /\ \A i \in 1 .. Len(Tail(q)) : Tail(q)[i] = q[i + 1]
  BY HeadTailProperties
<1>2. Len(q) \in Nat /\ Len(q) # 0 /\ Head(q) = q[1]
  BY LenProperties, EmptySeq
<1>. DEFINE T == Places(Tail(q), n)
            R == Places(q, n) \ {1}
            f == [i \in T |-> i + 1]
<1>3. f \in Bijection(T, R)
  <2>1. f \in [T -> R]
    BY <1>1, <1>2 DEF Places
  <2>2. \A a, b \in T : f[a] = f[b] => a = b
    BY DEF Places
  <2>3. \A r \in R : \E a \in T : f[a] = r
    <3>. TAKE r \in R
    <3>1. r \in 1 .. Len(q) /\ r # 1 /\ q[r] = n
      BY DEF Places
    <3>2. r - 1 \in 1 .. Len(Tail(q)) /\ Tail(q)[r - 1] = q[r - 1 + 1]
      BY <1>1, <1>2, <3>1
    <3>3. r - 1 \in T
      BY <3>1, <3>2 DEF Places
    <3>. QED BY <3>1, <3>3
  <2>. QED BY <2>1, <2>2, <2>3, Fun_IsBij
<1>4. IsFiniteSet(T) /\ IsFiniteSet(Places(q, n)) /\ Copies(q, n) \in Nat
  BY <1>1, CopiesType
<1>5. Cardinality(R) = Cardinality(T)
  BY <1>3, <1>4, FS_Bijection DEF ExistsBijection
<1>6. Cardinality(R) = IF 1 \in Places(q, n) THEN Copies(q, n) - 1 ELSE Copies(q, n)
  BY <1>4, FS_RemoveElement DEF Copies
<1>7. 1 \in Places(q, n) <=> n = Head(q)
  BY <1>2 DEF Places
<1>. QED BY <1>4, <1>5, <1>6, <1>7 DEF Copies

\* The send of m has not called back yet.
EnVol(m) == ecriture[m] \in {"a_venir", "en_cours", "expiree"}

\* What is written, what the buffer still holds and what the first send may still
\* write: one in all, two once that send timed out, which is when it is buffered
\* and goes on.
Budget ==
  \A m \in Messages :
    /\ ecriture[m] = "expiree" => m \in expires
    /\ m \in expires => ecriture[m] \in {"expiree", "faite"}
    /\ ecrits[m] + Copies(messageQueue, m) + (IF EnVol(m) THEN 1 ELSE 0)
         <= IF m \in expires THEN 2 ELSE 1

\* What handleSendError leaves of the copies in the buffer: one more of m at most.
LEMMA CopiesErreur ==
  ASSUME TypeOK, NEW m \in Messages, handleSendError(m)
  PROVE  /\ Copies(messageQueue', m) \in Nat
         /\ Copies(messageQueue', m) <= Copies(messageQueue, m) + 1
         /\ \A n \in Messages \ {m} : Copies(messageQueue', n) = Copies(messageQueue, n)
<1>1. messageQueue \in Seq(Messages)
  BY DEF TypeOK
<1>2. Copies(messageQueue, m) \in Nat
  BY <1>1, CopiesType
<1>3. CASE UNCHANGED messageQueue
  BY <1>2, <1>3
<1>4. CASE messageQueue' = Append(messageQueue, m)
  <2>1. Copies(messageQueue', m) = Copies(messageQueue, m) + 1
    BY <1>1, <1>4, CopiesAjout
  <2>2. \A n \in Messages \ {m} : Copies(messageQueue', n) = Copies(messageQueue, n)
    BY <1>1, <1>4, CopiesAjout
  <2>. QED BY <1>2, <2>1, <2>2
<1>. QED BY <1>3, <1>4 DEF handleSendError, bufferMessage, tampon

LEMMA BudgetEmission ==
  ASSUME TypeOK, Budget, NEW m \in Messages, Emission(m) PROVE Budget'
<1>. SUFFICES ASSUME NEW n \in Messages
     PROVE  /\ ecriture'[n] = "expiree" => n \in expires'
            /\ n \in expires' => ecriture'[n] \in {"expiree", "faite"}
            /\ ecrits'[n] + Copies(messageQueue', n)
                 + (IF ecriture'[n] \in {"a_venir", "en_cours", "expiree"} THEN 1 ELSE 0)
                 <= IF n \in expires' THEN 2 ELSE 1
  BY DEF Budget, EnVol
<1>1. /\ ecriture[n] = "expiree" => n \in expires
      /\ n \in expires => ecriture[n] \in {"expiree", "faite"}
      /\ ecrits[n] + Copies(messageQueue, n)
           + (IF ecriture[n] \in {"a_venir", "en_cours", "expiree"} THEN 1 ELSE 0)
           <= IF n \in expires THEN 2 ELSE 1
  BY DEF Budget, EnVol
<1>2. Copies(messageQueue, n) \in Nat /\ ecrits[n] \in Nat
  BY CopiesType DEF TypeOK
<1>3. CASE Envoyer(m)
  BY <1>1, <1>2, <1>3 DEF TypeOK, Envoyer, tampon
<1>4. CASE EnvoiReussi(m)
  BY <1>1, <1>2, <1>4 DEF TypeOK, EnvoiReussi, tampon
<1>5. CASE EnvoyerHorsLigne(m) \/ EnvoiEchoue(m)
  <2>1. /\ handleSendError(m) /\ UNCHANGED <<expires, ecrits>>
        /\ ecriture[m] \in {"a_venir", "en_cours", "expiree"}
        /\ ecriture' = [ecriture EXCEPT ![m] = "faite"]
    BY <1>5 DEF EnvoyerHorsLigne, EnvoiEchoue
  <2>2. CASE n = m
    BY <1>1, <1>2, <2>1, <2>2, CopiesErreur DEF TypeOK
  <2>3. CASE n # m
    BY <1>1, <1>2, <2>1, <2>3, CopiesErreur DEF TypeOK
  <2>. QED BY <2>2, <2>3
<1>6. CASE DelaiDEnvoi(m)
  <2>1. /\ handleSendError(m) /\ UNCHANGED ecrits /\ expires' = expires \cup {m}
        /\ ecriture[m] = "en_cours" /\ ecriture' = [ecriture EXCEPT ![m] = "expiree"]
    BY <1>6 DEF DelaiDEnvoi
  <2>2. CASE n = m
    BY <1>1, <1>2, <2>1, <2>2, CopiesErreur DEF TypeOK
  <2>3. CASE n # m
    BY <1>1, <1>2, <2>1, <2>3, CopiesErreur DEF TypeOK
  <2>. QED BY <2>2, <2>3
<1>. QED BY <1>3, <1>4, <1>5, <1>6 DEF Emission

\* The flush writes the message it takes out: the sum stays what it was.
LEMMA BudgetVidage ==
  ASSUME TypeOK, TeteEnCours, Budget, NEW b \in Boucles, VidageReussi(b) PROVE Budget'
<1>1. messageQueue # <<>> /\ enCours[b] = Head(messageQueue)
  BY DEF TeteEnCours, VidageReussi
<1>2. /\ messageQueue' = Tail(messageQueue) /\ UNCHANGED <<ecriture, expires>>
      /\ ecrits' = [ecrits EXCEPT ![enCours[b]] = ecrits[enCours[b]] + 1]
  BY <1>1 DEF VidageReussi, envois
<1>3. messageQueue \in Seq(Messages) /\ Head(messageQueue) \in Messages
  BY <1>1, Retrait DEF TypeOK
<1>4. ASSUME NEW n \in Messages
      PROVE  ecrits'[n] + Copies(messageQueue', n) = ecrits[n] + Copies(messageQueue, n)
  <2>1. Copies(messageQueue, n) \in Nat /\ Copies(messageQueue', n) \in Nat
    BY <1>1, <1>2, <1>3, CopiesType, Retrait
  <2>2. ecrits[n] \in Nat /\ ecrits'[n] = IF n = Head(messageQueue) THEN ecrits[n] + 1 ELSE ecrits[n]
    BY <1>1, <1>2, <1>3 DEF TypeOK
  <2>3. Copies(messageQueue, n) = IF n = Head(messageQueue) THEN Copies(messageQueue', n) + 1
                                                            ELSE Copies(messageQueue', n)
    BY <1>1, <1>2, <1>3, CopiesRetrait
  <2>. QED BY <2>1, <2>2, <2>3
<1>. QED BY <1>2, <1>4 DEF Budget, EnVol

LEMMA BudgetNext == TypeOK /\ TeteEnCours /\ Budget /\ [Next]_vars => Budget'
<1>. SUFFICES ASSUME TypeOK, TeteEnCours, Budget, [Next]_vars PROVE Budget'
  OBVIOUS
<1>1. CASE UNCHANGED <<messageQueue, ecriture, expires, ecrits>>
  BY <1>1 DEF Budget, EnVol
<1>2. CASE UNCHANGED vars \/ Reseau \/ Battement \/ FinDeSequence
  BY <1>1, <1>2 DEF Reseau, Connecter, Ouvrir, Fermer, Enregistrer, Battement, FinDeSequence,
     vars, tampon, envois
<1>3. ASSUME NEW m \in Messages, Reception(m) PROVE Budget'
  BY <1>1, <1>3 DEF Reception, RecevoirResultat, RecevoirErreur, FinDeTraitement, tampon, envois
<1>4. ASSUME NEW b \in Boucles, VidageEchoue(b) \/ VidageReprend(b) PROVE Budget'
  BY <1>1, <1>4 DEF VidageEchoue, VidageReprend, tampon, envois
<1>. QED BY <1>2, <1>3, <1>4, BudgetEmission, BudgetVidage DEF Next, Vidage

\* The server sees a message twice only when its first send had timed out, and never
\* three times (DoublonApresDelai).
THEOREM DoublonToujoursExplique == Spec => []DoublonApresDelai
<1>1. Init => Budget
  <2>. SUFFICES ASSUME Init, NEW m \in Messages
       PROVE  /\ ecriture[m] = "a_venir" /\ expires = {} /\ ecrits[m] = 0
              /\ Copies(messageQueue, m) = 0
    BY DEF Budget, EnVol
  <2>1. Places(<<>>, m) = {}
    BY DEF Places
  <2>2. Copies(<<>>, m) = 0
    BY <2>1, FS_EmptySet DEF Copies
  <2>. QED BY <2>2 DEF Init
<1>2. TypeOK /\ Budget => DoublonApresDelai
  <2>. SUFFICES ASSUME TypeOK, Budget, NEW m \in Messages
       PROVE  ecrits[m] <= IF m \in expires THEN 2 ELSE 1
    BY DEF DoublonApresDelai
  <2>1. Copies(messageQueue, m) \in Nat /\ ecrits[m] \in Nat
    BY CopiesType DEF TypeOK
  <2>2. ecrits[m] + Copies(messageQueue, m) + (IF EnVol(m) THEN 1 ELSE 0)
          <= IF m \in expires THEN 2 ELSE 1
    BY DEF Budget
  <2>. QED BY <2>1, <2>2
<1>. QED BY <1>1, <1>2, TypeCorrecte, TeteCorrecte, BudgetNext, PTL DEF Spec

=============================================================================
