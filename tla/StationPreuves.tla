--------------------------- MODULE StationPreuves ---------------------------
(***************************************************************************)
(* The safety properties of the life of a station, for any sockets, any    *)
(* limits of the retries and any resets.                                   *)
(***************************************************************************)
EXTENDS Station, TLAPS

\* A call of a registration waits only on a socket that can still bring its answer.
AppelPortable ==
  \A s \in Sockets : ouverture[s].etat = "boot" =>
    /\ ouverture[s].via \in Sockets
    /\ readyState[ouverture[s].via] \in {"OPEN", "CLOSING"}

\* The inductive invariant of the connection.
Inv == RepriseAssuree /\ AppelPortable /\ SansSocketSansMinuterie

\* What a new connection may change of the sockets: it comes first in CONNECTING, and no
\* call loses its socket.
Remplacee ==
  /\ readyState' \in [Sockets -> Etats] /\ wsConnection' \in Sockets
  /\ readyState'[wsConnection'] = "CONNECTING" /\ fin' = "aucune"
  /\ \A o \in Sockets : readyState[o] \in {"OPEN", "CLOSING"}
                          => readyState'[o] \in {"OPEN", "CLOSING"}

-----------------------------------------------------------------------------
(* The pieces of code the actions share.                                    *)

LEMMA EtatsFermes ==
  ASSUME TypeOK
  PROVE  /\ Ferme \in [Sockets -> Etats]
         /\ \A o \in Sockets : Ferme[o] = "CLOSED" <=> readyState[o] = "CLOSED"
         /\ \A o \in Sockets : readyState[o] \in {"OPEN", "CLOSING"}
                                 => Ferme[o] \in {"OPEN", "CLOSING"}
<1>1. CASE isWebSocketConnectionOpened
  <2>1. wsConnection \in Sockets /\ readyState[wsConnection] = "OPEN"
    BY <1>1 DEF isWebSocketConnectionOpened, TypeOK
  <2> QED
    BY <1>1, <2>1 DEF Ferme, TypeOK, Etats
<1>2. CASE ~isWebSocketConnectionOpened
  BY <1>2 DEF Ferme, TypeOK
<1> QED
  BY <1>1, <1>2

LEMMA Connectee ==
  ASSUME TypeOK, NEW etats \in [Sockets -> Etats], Connecter(etats),
         \A o \in Sockets : readyState[o] \in {"OPEN", "CLOSING"}
                              => etats[o] \in {"OPEN", "CLOSING"}
  PROVE  Remplacee
<1>1. PICK s \in Libres : /\ readyState' = [etats EXCEPT ![s] = "CONNECTING"]
                          /\ wsConnection' = s /\ fin' = "aucune"
  BY DEF Connecter
<1>2. s \in Sockets /\ readyState[s] = "CLOSED"
  BY DEF Libres
<1> QED
  BY <1>1, <1>2 DEF Remplacee, Etats

LEMMA Reouverte ==
  ASSUME TypeOK, NEW fermer \in BOOLEAN, Rouvrir(fermer)
  PROVE  \/ ~fermer /\ isWebSocketConnectionOpened /\ UNCHANGED connexion
         \/ Remplacee
<1>1. CASE ~fermer /\ isWebSocketConnectionOpened /\ UNCHANGED connexion
  BY <1>1
<1>2. CASE Connecter(IF fermer THEN Ferme ELSE readyState)
  <2>1. CASE fermer
    <3>1. Connecter(Ferme)
      BY <1>2, <2>1
    <3> QED
      BY <3>1, Connectee, EtatsFermes
  <2>2. CASE ~fermer
    <3>1. Connecter(readyState)
      BY <1>2, <2>2
    <3> QED
      BY <3>1, Connectee DEF TypeOK
  <2> QED
    BY <2>1, <2>2
<1> QED
  BY <1>1, <1>2 DEF Rouvrir

LEMMA Demarree ==
  ASSUME TypeOK, start
  PROVE  \/ started /\ UNCHANGED <<vie, connexion>>
         \/ /\ ~started /\ started' = TRUE /\ stopping' = stopping
            /\ (isWebSocketConnectionOpened /\ UNCHANGED connexion) \/ Remplacee
<1>1. CASE started
  BY <1>1 DEF start
<1>2. CASE ~started
  <2>1. started' = TRUE /\ Rouvrir(FALSE) /\ UNCHANGED stopping
    BY <1>2 DEF start
  <2> QED
    BY <1>2, <2>1, Reouverte
<1> QED
  BY <1>1, <1>2

LEMMA Rouverte ==
  ASSUME TypeOK, NEW fermer \in BOOLEAN, openWSConnection(fermer)
  PROVE  \/ (~started \/ (~fermer /\ isWebSocketConnectionOpened)) /\ UNCHANGED connexion
         \/ started /\ Remplacee
  BY Reouverte DEF openWSConnection

LEMMA SuiteTypee ==
  ASSUME TypeOK, NEW s \in Sockets, NEW accepte \in BOOLEAN
  PROVE  /\ Suite(s, accepte) \in [etat: {"finie", "boot", "attente"},
                                   via: Sockets \cup {Aucun}, essais: Nat]
         /\ Suite(s, accepte).etat # "boot"
<1>1. ouverture[s].essais \in Nat
  BY DEF TypeOK
<1>2. Borne(ouverture[s].essais, MaxInscriptions) \in Nat
  BY <1>1 DEF Borne
<1> QED
  BY <1>2 DEF Suite, Fini

LEMMA Planifiee ==
  ASSUME TypeOK, reconnect
  PROVE  /\ wsConnectionRetryCount' \in Nat /\ reprises' \in Nat /\ reprises' >= reprises
         /\ MaxEssais = -1 \/ wsConnectionRetryCount < MaxEssais => reprises' > 0
<1>1. CASE MaxEssais = -1 \/ wsConnectionRetryCount < MaxEssais
  BY <1>1, StationAssumption DEF TypeOK, reconnect, Borne
<1>2. CASE ~(MaxEssais = -1 \/ wsConnectionRetryCount < MaxEssais)
  BY <1>2 DEF TypeOK, reconnect
<1> QED
  BY <1>1, <1>2

-----------------------------------------------------------------------------
(* Type correctness.                                                        *)

\* The actions that start, connect and stop the station.
LEMMA TypeVie ==
  ASSUME TypeOK, \/ Demarrer \/ Arreter \/ FinArret
                 \/ OuvrirConnexion \/ FermerConnexion \/ Reconnecter
  PROVE  TypeOK'
<1>1. CASE Demarrer
  BY <1>1, Demarree DEF Demarrer, TypeOK, Remplacee, connexion
<1>2. CASE Arreter
  BY <1>2 DEF Arreter, stop, internalStopMessageSequence, TypeOK, connexion
<1>3. CASE FinArret
  <2>1. remise' \in [Remises -> {"repos", "arret", "sommeil"}]
    BY <1>3 DEF FinArret, TypeOK
  <2> QED
    BY <1>3, <2>1, EtatsFermes DEF FinArret, TypeOK
<1>4. CASE OuvrirConnexion
  BY <1>4, Rouverte DEF OuvrirConnexion, TypeOK, Remplacee, vie, connexion
<1>5. CASE FermerConnexion
  BY <1>5, EtatsFermes DEF FermerConnexion, TypeOK, vie
<1>6. CASE Reconnecter
  <2>1. reprises' \in Nat
    BY <1>6 DEF Reconnecter, TypeOK
  <2>2. \/ UNCHANGED connexion
        \/ Remplacee
    BY <1>6, Rouverte DEF Reconnecter
  <2> QED
    BY <1>6, <2>1, <2>2 DEF Reconnecter, TypeOK, Remplacee, vie, connexion
<1> QED
  BY <1>1, <1>2, <1>3, <1>4, <1>5, <1>6

\* The actions of a reset.
LEMMA TypeRemise ==
  ASSUME TypeOK, NEW r \in Remises, Remettre(r) \/ FinRemise(r)
  PROVE  TypeOK'
<1>1. CASE Remettre(r) /\ stop
  BY <1>1 DEF Remettre, stop, internalStopMessageSequence, TypeOK, connexion
<1>2. CASE /\ remise' = [remise EXCEPT ![r] = "sommeil"]
           /\ UNCHANGED <<vie, connexion, wsConnectionRetryCount, reprises, registration,
                          ouverture, minuteries, rechargee>>
  BY <1>2 DEF TypeOK, vie, connexion
<1>3. CASE FinRemise(r)
  <2>1. remise' \in [Remises -> {"repos", "arret", "sommeil"}]
    BY <1>3 DEF FinRemise, TypeOK
  <2> QED
    BY <1>3, <2>1, Demarree DEF FinRemise, TypeOK, Remplacee, vie, connexion
<1> QED
  BY <1>1, <1>2, <1>3 DEF Remettre

\* The events of a socket.
LEMMA TypeSocket ==
  ASSUME TypeOK, NEW s \in Sockets,
         onOpen(s) \/ EchecBoot(s) \/ FinDAttente(s)
           \/ \E normale \in BOOLEAN : Fermeture(s, normale)
  PROVE  TypeOK'
<1>1. CASE onOpen(s)
  <2> DEFINE ouverte == wsConnection = s \/ isWebSocketConnectionOpened
  <2>1. readyState' \in [Sockets -> Etats]
    BY <1>1 DEF onOpen, TypeOK, Etats
  <2>2. minuteries' \subseteq {"ping", "heartbeat"}
    BY <1>1 DEF onOpen, TypeOK
  <2>3. ouverture' \in [Sockets -> [etat: {"finie", "boot", "attente"},
                                    via: Sockets \cup {Aucun}, essais: Nat]]
    <3>1. CASE ouverture' = ouverture
      BY <3>1 DEF TypeOK
    <3>2. CASE ouverture' =
                 [ouverture EXCEPT ![s] = [etat |-> "boot", via |-> wsConnection, essais |-> 0]]
      BY <3>2 DEF TypeOK
    <3> QED
      BY <1>1, <3>1, <3>2 DEF onOpen
  <2> QED
    BY <1>1, <2>1, <2>2, <2>3 DEF onOpen, TypeOK, vie
<1>2. CASE FinDAttente(s)
  <2>1. ouverture' \in [Sockets -> [etat: {"finie", "boot", "attente"},
                                    via: Sockets \cup {Aucun}, essais: Nat]]
    <3>1. CASE ouverture' = [ouverture EXCEPT ![s] = Fini]
      BY <3>1 DEF TypeOK, Fini
    <3>2. CASE ouverture' =
                 [ouverture EXCEPT ![s] = [@ EXCEPT !.etat = "boot", !.via = wsConnection]]
      BY <3>2 DEF TypeOK
    <3>3. CASE ouverture' = [ouverture EXCEPT ![s] = Suite(s, FALSE)]
      BY <3>3, SuiteTypee DEF TypeOK
    <3> QED
      BY <1>2, <3>1, <3>2, <3>3 DEF FinDAttente
  <2> QED
    BY <1>2, <2>1 DEF FinDAttente, TypeOK, vie, connexion
<1>3. ASSUME NEW normale \in BOOLEAN, Fermeture(s, normale)
      PROVE  TypeOK'
  <2>1. readyState' \in [Sockets -> Etats]
    BY <1>3 DEF Fermeture, TypeOK, Etats
  <2>2. ouverture' \in [Sockets -> [etat: {"finie", "boot", "attente"},
                                    via: Sockets \cup {Aucun}, essais: Nat]]
    BY <1>3 DEF Fermeture, TypeOK, Fini
  <2>3. fin' \in {"aucune", "normale", "arretee", "reprise", "renonce"}
    BY <1>3 DEF Fermeture, TypeOK, Issue
  <2>4. minuteries' = {} /\ rechargee' = FALSE
    BY <1>3 DEF Fermeture, onClose, internalStopMessageSequence
  <2>5. wsConnectionRetryCount' \in Nat /\ reprises' \in Nat
    BY <1>3, Planifiee DEF Fermeture, onClose, TypeOK
  <2> QED
    BY <1>3, <2>1, <2>2, <2>3, <2>4, <2>5 DEF Fermeture, TypeOK, vie
<1>4. CASE EchecBoot(s)
  <2>1. ouverture' \in [Sockets -> [etat: {"finie", "boot", "attente"},
                                    via: Sockets \cup {Aucun}, essais: Nat]]
    BY <1>4, SuiteTypee DEF EchecBoot, TypeOK
  <2> QED
    BY <1>4, <2>1 DEF EchecBoot, TypeOK, vie, connexion
<1> QED
  BY <1>1, <1>2, <1>3, <1>4

\* The registration and the intervals.
LEMMA TypeInscription ==
  ASSUME TypeOK,
         \/ \E s \in Sockets, v \in Statuts : ReponseBoot(s, v)
         \/ \E v \in Statuts : AutreBoot(v)
         \/ Recharger
         \/ \E i \in {"ping", "heartbeat"} : ChangerIntervalle(i)
  PROVE  TypeOK'
<1>1. ASSUME NEW v \in Statuts, Inscrire(v)
      PROVE  /\ registration' \in Statuts \cup {"None"}
             /\ minuteries' \subseteq {"ping", "heartbeat"}
             /\ wsConnectionRetryCount' \in Nat
  BY <1>1 DEF Inscrire, TypeOK
<1>2. ASSUME NEW s \in Sockets, NEW v \in Statuts, ReponseBoot(s, v)
      PROVE  TypeOK'
  <2>1. ouverture' \in [Sockets -> [etat: {"finie", "boot", "attente"},
                                    via: Sockets \cup {Aucun}, essais: Nat]]
    BY <1>2, SuiteTypee DEF ReponseBoot, TypeOK
  <2> QED
    BY <1>1, <1>2, <2>1 DEF ReponseBoot, TypeOK, vie, connexion
<1>3. ASSUME NEW v \in Statuts, AutreBoot(v)
      PROVE  TypeOK'
  BY <1>1, <1>3 DEF AutreBoot, TypeOK, vie, connexion
<1>4. CASE Recharger
  BY <1>4 DEF Recharger, TypeOK, vie, connexion
<1>5. ASSUME NEW i \in {"ping", "heartbeat"}, ChangerIntervalle(i)
      PROVE  TypeOK'
  BY <1>5 DEF ChangerIntervalle, TypeOK, vie, connexion
<1> QED
  BY <1>2, <1>3, <1>4, <1>5

\* Every variable keeps its type, and only a station that runs is being stopped, for any
\* sockets, limits and resets (TypeOK).
THEOREM TypeCorrecte == Spec => []TypeOK
<1>1. Init => TypeOK
  <2> SUFFICES ASSUME Init
               PROVE  TypeOK
    OBVIOUS
  <2>1. ouverture \in [Sockets -> [etat: {"finie", "boot", "attente"},
                                   via: Sockets \cup {Aucun}, essais: Nat]]
    BY DEF Init, Fini
  <2>2. /\ readyState \in [Sockets -> Etats]
        /\ remise \in [Remises -> {"repos", "arret", "sommeil"}]
    BY DEF Init, Etats
  <2> QED
    BY <2>1, <2>2 DEF Init, TypeOK
<1>2. TypeOK /\ [Next]_vars => TypeOK'
  <2> SUFFICES ASSUME TypeOK, [Next]_vars
               PROVE  TypeOK'
    OBVIOUS
  <2>1. CASE Next
    BY <2>1, TypeVie, TypeRemise, TypeSocket, TypeInscription DEF Next
  <2>2. CASE UNCHANGED vars
    BY <2>2 DEF TypeOK, vars, vie, connexion
  <2> QED
    BY <2>1, <2>2
<1> QED
  BY <1>1, <1>2, PTL DEF Spec

-----------------------------------------------------------------------------
(* The retry, the intervals and the calls of the registration.              *)

\* A step that takes a new connection, or keeps it with its retries, and keeps the rest.
LEMMA InvRemplacee ==
  ASSUME TypeOK, Inv, UNCHANGED <<ouverture, minuteries, rechargee>>,
         \/ Remplacee
         \/ isWebSocketConnectionOpened /\ UNCHANGED connexion
         \/ UNCHANGED <<vie, connexion>> /\ reprises' \in Nat /\ reprises' >= reprises
  PROVE  Inv'
<1>1. CASE Remplacee
  <2>1. wsConnection' \in Sockets /\ readyState'[wsConnection'] = "CONNECTING"
    BY <1>1 DEF Remplacee
  <2>2. RepriseAssuree' /\ SansSocketSansMinuterie'
    BY <2>1 DEF RepriseAssuree, SansSocketSansMinuterie
  <2>3. AppelPortable'
    BY <1>1 DEF Inv, AppelPortable, Remplacee
  <2> QED
    BY <2>2, <2>3 DEF Inv
<1>2. CASE UNCHANGED <<vie, connexion>> /\ reprises' \in Nat /\ reprises' >= reprises
  <2>1. RepriseAssuree'
    BY <1>2 DEF Inv, RepriseAssuree, vie, connexion, TypeOK
  <2>2. AppelPortable' /\ SansSocketSansMinuterie'
    BY <1>2 DEF Inv, AppelPortable, SansSocketSansMinuterie, connexion
  <2> QED
    BY <2>1, <2>2 DEF Inv
<1>3. CASE isWebSocketConnectionOpened /\ UNCHANGED connexion
  <2>1. RepriseAssuree'
    BY <1>3 DEF RepriseAssuree, isWebSocketConnectionOpened, connexion
  <2>2. AppelPortable' /\ SansSocketSansMinuterie'
    BY <1>3 DEF Inv, AppelPortable, SansSocketSansMinuterie, connexion
  <2> QED
    BY <2>1, <2>2 DEF Inv
<1> QED
  BY <1>1, <1>2, <1>3

LEMMA InvVie ==
  ASSUME TypeOK, Inv, \/ Demarrer \/ Arreter \/ FinArret
                      \/ OuvrirConnexion \/ FermerConnexion \/ Reconnecter
  PROVE  Inv'
<1>1. CASE Demarrer
  BY <1>1, Demarree, InvRemplacee DEF Demarrer
<1>2. CASE Arreter
  BY <1>2 DEF Arreter, stop, internalStopMessageSequence, connexion,
              Inv, RepriseAssuree, AppelPortable, SansSocketSansMinuterie
<1>3. CASE FinArret
  <2>1. RepriseAssuree'
    BY <1>3 DEF FinArret, RepriseAssuree
  <2>2. AppelPortable' /\ SansSocketSansMinuterie'
    BY <1>3, EtatsFermes DEF FinArret, Inv, AppelPortable, SansSocketSansMinuterie
  <2> QED
    BY <2>1, <2>2 DEF Inv
<1>4. CASE OuvrirConnexion
  <2>1. UNCHANGED <<vie, ouverture, minuteries, rechargee, reprises>>
    BY <1>4 DEF OuvrirConnexion
  <2>2. Remplacee \/ UNCHANGED connexion
    BY <1>4, Rouverte DEF OuvrirConnexion
  <2>3. reprises' \in Nat /\ reprises' >= reprises
    BY <2>1 DEF TypeOK
  <2> QED
    BY <2>1, <2>2, <2>3, InvRemplacee
<1>5. CASE FermerConnexion
  <2>1. RepriseAssuree'
    BY <1>5, EtatsFermes DEF FermerConnexion, Inv, RepriseAssuree, vie, TypeOK
  <2>2. AppelPortable' /\ SansSocketSansMinuterie'
    BY <1>5, EtatsFermes DEF FermerConnexion, Inv, AppelPortable, SansSocketSansMinuterie
  <2> QED
    BY <2>1, <2>2 DEF Inv
<1>6. CASE Reconnecter
  <2>1. UNCHANGED <<vie, ouverture, minuteries, rechargee>>
    BY <1>6 DEF Reconnecter
  <2>2. CASE started
    <3>1. Remplacee
      BY <1>6, <2>2, Rouverte DEF Reconnecter
    <3> QED
      BY <2>1, <3>1, InvRemplacee
  <2>3. CASE ~started
    <3>1. UNCHANGED connexion
      BY <1>6, <2>3, Rouverte DEF Reconnecter
    <3>2. RepriseAssuree'
      BY <2>1, <2>3 DEF RepriseAssuree, vie
    <3>3. AppelPortable' /\ SansSocketSansMinuterie'
      BY <2>1, <3>1 DEF Inv, AppelPortable, SansSocketSansMinuterie, connexion
    <3> QED
      BY <3>2, <3>3 DEF Inv
  <2> QED
    BY <2>2, <2>3
<1> QED
  BY <1>1, <1>2, <1>3, <1>4, <1>5, <1>6

LEMMA InvRemise ==
  ASSUME TypeOK, Inv, NEW r \in Remises, Remettre(r) \/ FinRemise(r)
  PROVE  Inv'
<1>1. CASE Remettre(r) /\ stop
  BY <1>1 DEF stop, internalStopMessageSequence, connexion,
              Inv, RepriseAssuree, AppelPortable, SansSocketSansMinuterie
<1>2. CASE UNCHANGED <<vie, connexion, wsConnectionRetryCount, reprises, registration,
                       ouverture, minuteries, rechargee>>
  <2>1. reprises' \in Nat /\ reprises' >= reprises
    BY <1>2 DEF TypeOK
  <2> QED
    BY <1>2, <2>1, InvRemplacee
<1>3. CASE FinRemise(r)
  <2>1. reprises' \in Nat /\ reprises' >= reprises
    BY <1>3 DEF FinRemise, TypeOK
  <2> QED
    BY <1>3, <2>1, Demarree, InvRemplacee DEF FinRemise
<1> QED
  BY <1>1, <1>2, <1>3 DEF Remettre

LEMMA InvOuverture ==
  ASSUME TypeOK, Inv, NEW s \in Sockets, onOpen(s)
  PROVE  Inv'
<1>1. /\ readyState[s] = "CONNECTING" /\ readyState' = [readyState EXCEPT ![s] = "OPEN"]
      /\ UNCHANGED <<vie, wsConnection, fin, reprises, rechargee>>
  BY DEF onOpen
<1>2. \A o \in Sockets : readyState[o] \in {"OPEN", "CLOSING"}
                           => readyState'[o] \in {"OPEN", "CLOSING"}
  BY <1>1 DEF TypeOK
<1>3. RepriseAssuree'
  BY <1>1 DEF Inv, RepriseAssuree, vie, TypeOK
<1>4. SansSocketSansMinuterie'
  <2>1. readyState'[s] = "OPEN"
    BY <1>1 DEF TypeOK
  <2> QED
    BY <2>1 DEF SansSocketSansMinuterie
<1>5. AppelPortable'
  <2>1. CASE ouverture' = ouverture
    BY <1>2, <2>1 DEF Inv, AppelPortable
  <2>2. CASE /\ wsConnection = s \/ isWebSocketConnectionOpened
             /\ ouverture' = [ouverture EXCEPT
                  ![s] = [etat |-> "boot", via |-> wsConnection, essais |-> 0]]
    <3>1. wsConnection \in Sockets /\ readyState'[wsConnection] = "OPEN"
      BY <1>1, <2>2 DEF isWebSocketConnectionOpened, TypeOK
    <3> QED
      BY <1>2, <2>2, <3>1 DEF Inv, AppelPortable, TypeOK
  <2> QED
    BY <2>1, <2>2 DEF onOpen
<1> QED
  BY <1>3, <1>4, <1>5 DEF Inv

LEMMA InvAttente ==
  ASSUME TypeOK, Inv, NEW s \in Sockets, EchecBoot(s) \/ FinDAttente(s)
  PROVE  Inv'
<1>1. UNCHANGED <<vie, connexion, reprises, minuteries, rechargee>>
  BY DEF EchecBoot, FinDAttente
<1>2. RepriseAssuree' /\ SansSocketSansMinuterie'
  BY <1>1 DEF Inv, RepriseAssuree, SansSocketSansMinuterie, vie, connexion
<1>3. AppelPortable'
  <2>1. CASE ouverture' = [ouverture EXCEPT ![s] = Fini]
    BY <1>1, <2>1 DEF Inv, AppelPortable, TypeOK, Fini, connexion
  <2>2. CASE /\ isWebSocketConnectionOpened
             /\ ouverture' =
                  [ouverture EXCEPT ![s] = [@ EXCEPT !.etat = "boot", !.via = wsConnection]]
    <3>1. wsConnection \in Sockets /\ readyState[wsConnection] = "OPEN"
      BY <2>2 DEF isWebSocketConnectionOpened, TypeOK
    <3>2. ouverture'[s].via = wsConnection
      BY <2>2 DEF TypeOK
    <3>3. \A o \in Sockets \ {s} : ouverture'[o] = ouverture[o]
      BY <2>2 DEF TypeOK
    <3> QED
      BY <1>1, <3>1, <3>2, <3>3 DEF Inv, AppelPortable, connexion
  <2>3. ASSUME NEW accepte \in BOOLEAN, ouverture' = [ouverture EXCEPT ![s] = Suite(s, accepte)]
        PROVE  AppelPortable'
    <3>1. ouverture'[s].etat # "boot"
      BY <2>3, SuiteTypee DEF TypeOK
    <3>2. \A o \in Sockets \ {s} : ouverture'[o] = ouverture[o]
      BY <2>3 DEF TypeOK
    <3> QED
      BY <1>1, <3>1, <3>2 DEF Inv, AppelPortable, connexion
  <2> QED
    BY <2>1, <2>2, <2>3 DEF EchecBoot, FinDAttente
<1> QED
  BY <1>2, <1>3 DEF Inv

LEMMA InvFermeture ==
  ASSUME TypeOK, Inv, NEW s \in Sockets, NEW normale \in BOOLEAN, Fermeture(s, normale)
  PROVE  Inv'
<1>1. /\ readyState' = [readyState EXCEPT ![s] = "CLOSED"]
      /\ fin' = IF s = wsConnection THEN Issue(normale) ELSE fin
      /\ onClose(s, normale)
      /\ UNCHANGED <<vie, wsConnection>>
  BY DEF Fermeture
<1>2. minuteries' = {}
  BY <1>1 DEF onClose, internalStopMessageSequence
<1>3. reprises' \in Nat /\ reprises' >= reprises
  BY <1>1, Planifiee DEF onClose, TypeOK
<1>4. RepriseAssuree'
  <2>1. CASE s = wsConnection /\ started /\ fin' = "reprise"
    <3>1. ~normale /\ (MaxEssais = -1 \/ wsConnectionRetryCount < MaxEssais)
      BY <1>1, <2>1 DEF Issue
    <3>2. reprises' > 0
      BY <1>1, <2>1, <3>1, Planifiee DEF onClose
    <3> QED
      BY <3>2 DEF RepriseAssuree
  <2>2. CASE s = wsConnection /\ started /\ fin' # "reprise"
    BY <1>1, <2>2 DEF Issue, RepriseAssuree
  <2>3. CASE ~started
    BY <1>1, <2>3 DEF RepriseAssuree, vie
  <2>4. CASE s # wsConnection
    BY <1>1, <1>3, <2>4 DEF Inv, RepriseAssuree, vie, TypeOK
  <2> QED
    BY <2>1, <2>2, <2>3, <2>4
<1>5. AppelPortable'
  <2>1. ouverture' = [o \in Sockets |-> IF ouverture[o].via = s THEN Fini ELSE ouverture[o]]
    BY DEF Fermeture
  <2> QED
    BY <1>1, <2>1 DEF Inv, AppelPortable, TypeOK, Fini
<1> QED
  BY <1>2, <1>4, <1>5 DEF Inv, SansSocketSansMinuterie

LEMMA InvInscription ==
  ASSUME TypeOK, Inv,
         \/ \E s \in Sockets, v \in Statuts : ReponseBoot(s, v)
         \/ \E v \in Statuts : AutreBoot(v)
         \/ Recharger
         \/ \E i \in {"ping", "heartbeat"} : ChangerIntervalle(i)
  PROVE  Inv'
<1>1. ASSUME NEW s \in Sockets, NEW v \in Statuts, ReponseBoot(s, v)
      PROVE  Inv'
  <2>1. UNCHANGED <<vie, connexion, reprises, rechargee>>
    BY <1>1 DEF ReponseBoot
  <2>2. ouverture[s].via \in Sockets /\ readyState[ouverture[s].via] # "CLOSED"
    BY <1>1 DEF ReponseBoot, Inv, AppelPortable
  <2>3. SansSocketSansMinuterie'
    BY <2>1, <2>2 DEF SansSocketSansMinuterie, connexion
  <2>4. RepriseAssuree'
    BY <2>1 DEF Inv, RepriseAssuree, vie, connexion
  <2>5. AppelPortable'
    <3>1. ouverture'[s].etat # "boot"
      BY <1>1, SuiteTypee DEF ReponseBoot, TypeOK
    <3>2. \A o \in Sockets \ {s} : ouverture'[o] = ouverture[o]
      BY <1>1 DEF ReponseBoot, TypeOK
    <3> QED
      BY <2>1, <3>1, <3>2 DEF Inv, AppelPortable, connexion
  <2> QED
    BY <2>3, <2>4, <2>5 DEF Inv
<1>2. ASSUME \E s \in Sockets : readyState[s] \in {"OPEN", "CLOSING"},
             UNCHANGED <<vie, connexion, reprises, ouverture>>
      PROVE  Inv'
  BY <1>2 DEF Inv, RepriseAssuree, AppelPortable, SansSocketSansMinuterie, vie, connexion
<1>3. ASSUME NEW v \in Statuts, AutreBoot(v)
      PROVE  Inv'
  BY <1>2, <1>3 DEF AutreBoot
<1>4. CASE Recharger
  BY <1>4 DEF Recharger, Inv, RepriseAssuree, AppelPortable, SansSocketSansMinuterie,
              vie, connexion
<1>5. ASSUME NEW i \in {"ping", "heartbeat"}, ChangerIntervalle(i)
      PROVE  Inv'
  BY <1>2, <1>5 DEF ChangerIntervalle
<1> QED
  BY <1>1, <1>3, <1>4, <1>5

LEMMA InvToujours == Spec => []Inv
<1>1. Init => Inv
  BY DEF Init, Inv, RepriseAssuree, AppelPortable, SansSocketSansMinuterie, Fini
<1>2. TypeOK /\ Inv /\ [Next]_vars => Inv'
  <2> SUFFICES ASSUME TypeOK, Inv, [Next]_vars
               PROVE  Inv'
    OBVIOUS
  <2>1. CASE Next
    BY <2>1, InvVie, InvRemise, InvOuverture, InvAttente, InvFermeture, InvInscription
       DEF Next
  <2>2. CASE UNCHANGED vars
    BY <2>2 DEF vars, vie, connexion, Inv, RepriseAssuree, AppelPortable,
                SansSocketSansMinuterie
  <2> QED
    BY <2>1, <2>2
<1> QED
  BY <1>1, <1>2, TypeCorrecte, PTL DEF Spec

\* No stop, reset or retry that overlaps uses up the retry that the connection of a
\* running station was promised when it was lost (RepriseAssuree).
THEOREM RepriseToujoursAssuree == Spec => []RepriseAssuree
<1>1. Inv => RepriseAssuree
  BY DEF Inv
<1> QED
  BY <1>1, InvToujours, PTL

\* Whatever socket is closed last, the ping and the heartbeat stop with it
\* (SansSocketSansMinuterie).
THEOREM MinuteriesArretees == Spec => []SansSocketSansMinuterie
<1>1. Inv => SansSocketSansMinuterie
  BY DEF Inv
<1> QED
  BY <1>1, InvToujours, PTL

\* A flow that wakes in a station that was stopped meanwhile opens no connection
\* (ArreteeNeConnectePas).
THEOREM ArreteeJamaisConnectee == Spec => ArreteeNeConnectePas
<1>1. TypeOK /\ [Next]_vars => [~started /\ ~started' => wsConnection' = wsConnection]_vars
  <2> SUFFICES ASSUME TypeOK, Next, ~started, ~started'
               PROVE  wsConnection' = wsConnection
    OBVIOUS
  <2>1. CASE Demarrer
    BY <2>1, Demarree DEF Demarrer
  <2>2. CASE OuvrirConnexion
    BY <2>2, Rouverte DEF OuvrirConnexion, connexion
  <2>3. CASE Reconnecter
    BY <2>3, Rouverte DEF Reconnecter, connexion
  <2>4. ASSUME NEW r \in Remises, Remettre(r) \/ FinRemise(r)
        PROVE  wsConnection' = wsConnection
    BY <2>4, Demarree DEF Remettre, FinRemise, stop, connexion
  <2>5. ASSUME NEW s \in Sockets, onOpen(s) \/ EchecBoot(s) \/ FinDAttente(s)
                                    \/ \E normale \in BOOLEAN : Fermeture(s, normale)
        PROVE  wsConnection' = wsConnection
    BY <2>5 DEF onOpen, EchecBoot, FinDAttente, Fermeture, connexion
  <2>6. CASE Arreter \/ FinArret \/ FermerConnexion \/ Recharger
    BY <2>6 DEF Arreter, stop, FinArret, FermerConnexion, Recharger, connexion
  <2>7. ASSUME NEW s \in Sockets, NEW v \in Statuts, ReponseBoot(s, v)
        PROVE  wsConnection' = wsConnection
    BY <2>7 DEF ReponseBoot, connexion
  <2>8. ASSUME \/ \E v \in Statuts : AutreBoot(v)
               \/ \E i \in {"ping", "heartbeat"} : ChangerIntervalle(i)
        PROVE  wsConnection' = wsConnection
    BY <2>8 DEF AutreBoot, ChangerIntervalle, connexion
  <2> QED
    BY <2>1, <2>2, <2>3, <2>4, <2>5, <2>6, <2>7, <2>8 DEF Next
<1> QED
  BY <1>1, TypeCorrecte, PTL DEF Spec, ArreteeNeConnectePas

=============================================================================
