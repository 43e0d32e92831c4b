------------------------- MODULE CentralSystemPreuves -------------------------
(***************************************************************************)
(* Proofs about CentralSystem, for any number of charge points, sockets,   *)
(* commands and CALLs.                                                     *)
(***************************************************************************)
EXTENDS CentralSystem, TLAPS

\* A socket that was opened has a charge point, and so have all the earlier ones.
PrisesOuvertes ==
  /\ \A s \in Sockets : borneDe[s] = Aucune <=> readyState[s] = "CONNECTING"
  /\ \A s, t \in Sockets : t < s /\ borneDe[s] # Aucune => borneDe[t] # Aucune

\* A charge point is only routed to a socket of its own.
Connexions ==
  \A b \in Bornes : connections[b] # Aucune => borneDe[connections[b]] = b

\* A command is only on a wire, or in a charge point, if it was sent, and to the
\* charge point it is for; an answer only comes from one that received it.
Envoyee(k, b) ==
  /\ commande[k].etat \notin {"a_venir", "409"}
  /\ commande[k].borne = b

Routage ==
  /\ \A s \in Sockets : \A k \in versBorne[s] : Envoyee(k, borneDe[s]) /\ borneDe[s] # Aucune
  /\ \A k \in Commandes : recue[k] # Aucune => Envoyee(k, recue[k])
  /\ \A m \in versCentral : recue[m.commande] # Aucune
  /\ \A k \in Commandes : commande[k].etat = "200" => recue[k] # Aucune

IInv ==
  /\ TypeOK
  /\ PrisesOuvertes
  /\ Connexions
  /\ DerniereConnexion
  /\ AttenteExacte
  /\ Routage

LEMMA InitInv == Init => IInv
<1> SUFFICES ASSUME Init
             PROVE  IInv
  OBVIOUS
<1>1. TypeOK
  BY DEF Init, TypeOK, Genres, Appel
<1>2. PrisesOuvertes /\ Connexions /\ Routage
  BY DEF Init, PrisesOuvertes, Connexions, Routage
<1>3. DerniereConnexion
  BY HypCentral DEF Init, DerniereConnexion
<1>4. AttenteExacte
  BY DEF Init, AttenteExacte
<1>. QED  BY <1>1, <1>2, <1>3, <1>4 DEF IInv

\* What does not touch the tables an invariant reads keeps it.
LEMMA CommandesIntactes ==
  ASSUME IInv, UNCHANGED <<serveur, prises, commande, transit>>
  PROVE  PrisesOuvertes' /\ Connexions' /\ DerniereConnexion' /\ AttenteExacte' /\ Routage'
BY DEF IInv, PrisesOuvertes, Connexions, DerniereConnexion, AttenteExacte, Routage, Envoyee,
       serveur, prises, transit

LEMMA PrisesIntactes ==
  ASSUME IInv, UNCHANGED <<connections, prises>>
  PROVE  PrisesOuvertes' /\ Connexions' /\ DerniereConnexion'
BY DEF IInv, PrisesOuvertes, Connexions, DerniereConnexion, prises

LEMMA AttenteIntacte ==
  ASSUME IInv, UNCHANGED <<pendingCommands, minuteries, commande>>
  PROVE  AttenteExacte'
BY DEF IInv, AttenteExacte

LEMMA ConnexionInv ==
  ASSUME IInv, NEW s \in Sockets, NEW b \in Bornes, Connexion(s, b)
  PROVE  IInv'
<1>1. /\ borneDe[s] = Aucune /\ b # Aucune
      /\ borneDe' = [borneDe EXCEPT ![s] = b]
      /\ readyState' = [readyState EXCEPT ![s] = "OPEN"]
      /\ connections' = [connections EXCEPT ![b] = s]
  BY HypCentral DEF Connexion
<1>2. \A t \in Sockets : borneDe[t] # Aucune => t < s
  <2>1. \A t \in Sockets : t \in Nat /\ s \in Nat
    BY HypCentral
  <2>. QED  BY <1>1, <2>1 DEF IInv, PrisesOuvertes
<1>3. TypeOK'
  BY <1>1 DEF Connexion, IInv, TypeOK, transit
<1>4. PrisesOuvertes'
  BY <1>1 DEF IInv, TypeOK, PrisesOuvertes, Connexion
<1>5. Connexions'
  BY <1>1, HypCentral DEF IInv, TypeOK, Connexions
<1>6. DerniereConnexion'
  <2> SUFFICES ASSUME NEW c \in Bornes, NEW t \in Sockets, borneDe'[t] = c,
                      \A u \in Sockets : borneDe'[u] = c => u <= t
               PROVE  connections'[c] = IF readyState'[t] = "CLOSED" THEN Aucune ELSE t
    BY DEF DerniereConnexion
  <2>0. s \in Nat /\ t \in Nat
    BY HypCentral
  <2>1. CASE c = b
    <3>1. t = s
      BY <1>1, <1>2, <2>0, <2>1, HypCentral DEF IInv, TypeOK
    <3>. QED  BY <1>1, <2>1, <3>1 DEF IInv, TypeOK
  <2>2. CASE c # b
    <3>1. /\ t # s /\ borneDe[t] = c /\ readyState'[t] = readyState[t]
          /\ connections'[c] = connections[c]
      BY <1>1, <2>2 DEF IInv, TypeOK
    <3>2. \A u \in Sockets : borneDe[u] = c => u <= t
      BY <1>1, <2>2, HypCentral DEF IInv, TypeOK
    <3>. QED  BY <3>1, <3>2 DEF IInv, DerniereConnexion
  <2>. QED  BY <2>1, <2>2
<1>7. AttenteExacte'
  BY AttenteIntacte DEF Connexion
<1>8. Routage'
  <2>1. /\ UNCHANGED <<commande, versBorne, recue, versCentral>>
        /\ \A t \in Sockets : borneDe[t] # Aucune => borneDe'[t] = borneDe[t]
    BY <1>1 DEF Connexion, transit, IInv, TypeOK
  <2>. QED  BY <2>1 DEF IInv, Routage, Envoyee
<1>. QED  BY <1>3, <1>4, <1>5, <1>6, <1>7, <1>8 DEF IInv

LEMMA CoupureInv ==
  ASSUME IInv, NEW s \in Sockets, Coupure(s)
  PROVE  IInv'
<1>1. /\ readyState[s] = "OPEN"
      /\ readyState' = [readyState EXCEPT ![s] = "CLOSING"]
      /\ UNCHANGED <<connections, pendingCommands, minuteries, borneDe, commande, recue>>
  BY DEF Coupure, serveur
<1>2. TypeOK'
  <2>1. appel' \in [Appels -> Appel]
    <3>1. appel' = [a \in Appels |->
            IF appel[a].etat = "emis" /\ appel[a].socket = s
            THEN [appel[a] EXCEPT !.etat = "perdu"] ELSE appel[a]]
      BY DEF Coupure
    <3>. QED  BY <3>1 DEF IInv, TypeOK, Appel
  <2>2. versBorne' \in [Sockets -> SUBSET Commandes] /\ versCentral' \subseteq Reponse
    BY DEF Coupure, IInv, TypeOK
  <2>3. disconnect' = disconnect /\ etatBorne' = etatBorne
    BY DEF Coupure
  <2>. QED  BY <1>1, <2>1, <2>2, <2>3 DEF IInv, TypeOK
<1>3. PrisesOuvertes' /\ Connexions'
  BY <1>1 DEF IInv, TypeOK, PrisesOuvertes, Connexions
<1>4. DerniereConnexion'
  BY <1>1 DEF IInv, TypeOK, DerniereConnexion
<1>5. AttenteExacte'
  BY <1>1, AttenteIntacte
<1>6. Routage'
  <2>1. /\ \A t \in Sockets : versBorne'[t] \subseteq versBorne[t]
        /\ versCentral' \subseteq versCentral
    BY DEF Coupure, IInv, TypeOK
  <2>. QED  BY <1>1, <2>1 DEF IInv, Routage, Envoyee
<1>. QED  BY <1>2, <1>3, <1>4, <1>5, <1>6 DEF IInv

LEMMA FermetureInv ==
  ASSUME IInv, NEW s \in Sockets, Fermeture(s)
  PROVE  IInv'
<1>1. /\ readyState[s] = "CLOSING"
      /\ readyState' = [readyState EXCEPT ![s] = "CLOSED"]
      /\ connections' = Oublier(s)
      /\ UNCHANGED <<pendingCommands, minuteries, borneDe, commande, versBorne, recue, versCentral>>
  BY DEF Fermeture, transit
<1>2. borneDe[s] \in Bornes /\ s # Aucune
  BY <1>1, HypCentral DEF IInv, TypeOK, PrisesOuvertes, Aucune
<1>3. \A b \in Bornes :
        connections'[b] = IF b = borneDe[s] /\ connections[b] = s THEN Aucune ELSE connections[b]
  BY <1>1, <1>2 DEF Oublier, IInv, TypeOK
<1>4. TypeOK'
  BY <1>1, <1>2 DEF Fermeture, Oublier, IInv, TypeOK
<1>5. PrisesOuvertes' /\ Connexions'
  BY <1>1, <1>3 DEF IInv, TypeOK, PrisesOuvertes, Connexions
<1>6. DerniereConnexion'
  <2> SUFFICES ASSUME NEW b \in Bornes, NEW t \in Sockets, borneDe[t] = b,
                      \A u \in Sockets : borneDe[u] = b => u <= t
               PROVE  connections'[b] = IF readyState'[t] = "CLOSED" THEN Aucune ELSE t
    BY <1>1 DEF DerniereConnexion
  <2>1. connections[b] = IF readyState[t] = "CLOSED" THEN Aucune ELSE t
    BY DEF IInv, DerniereConnexion
  <2>2. CASE t = s
    BY <1>1, <1>3, <2>1, <2>2 DEF IInv, TypeOK
  <2>3. CASE t # s
    <3>1. readyState'[t] = readyState[t]
      BY <1>1, <2>3 DEF IInv, TypeOK
    <3>. QED  BY <1>2, <1>3, <2>1, <2>3, <3>1
  <2>. QED  BY <2>2, <2>3
<1>7. AttenteExacte'
  BY <1>1, AttenteIntacte
<1>8. Routage'
  BY <1>1 DEF IInv, Routage, Envoyee
<1>. QED  BY <1>4, <1>5, <1>6, <1>7, <1>8 DEF IInv

LEMMA CommanderInv ==
  ASSUME IInv, NEW k \in Commandes, NEW b \in Bornes, Commander(k, b)
  PROVE  IInv'
<1>1. /\ commande[k].etat = "a_venir"
      /\ UNCHANGED <<connections, borneDe, readyState, recue, versCentral, appel, disconnect, etatBorne>>
  BY DEF Commander, prises
<1>2. PrisesOuvertes' /\ Connexions' /\ DerniereConnexion'
  BY <1>1, PrisesIntactes DEF prises
<1>3. recue[k] = Aucune /\ \A s \in Sockets : k \notin versBorne[s]
  BY <1>1 DEF IInv, Routage, Envoyee
<1>4. PICK e \in {"attente", "409"} : commande' = [commande EXCEPT ![k] = [etat |-> e, borne |-> b]]
  BY DEF Commander
<1>5. CASE Joignable(b) /\ Envoyer(k, b)
           /\ commande' = [commande EXCEPT ![k] = [etat |-> "attente", borne |-> b]]
  <2>1. PICK s \in Sockets : s = connections[b] /\ borneDe[s] = b
    BY <1>5 DEF Joignable, SocketDe, IInv, TypeOK, Connexions
  <2>2. /\ pendingCommands' = pendingCommands \cup {k}
        /\ minuteries' = minuteries \cup {k}
        /\ versBorne' = [versBorne EXCEPT ![s] = versBorne[s] \cup {k}]
    BY <1>5, <2>1 DEF Envoyer, SocketDe, Armer
  <2>3. TypeOK'
    BY <1>1, <1>5, <2>2 DEF IInv, TypeOK
  <2>4. AttenteExacte'
    BY <1>5, <2>2 DEF IInv, TypeOK, AttenteExacte
  <2>5. Routage'
    BY <1>1, <1>3, <1>5, <2>1, <2>2, HypCentral DEF IInv, TypeOK, Routage, Envoyee
  <2>. QED  BY <1>2, <2>3, <2>4, <2>5 DEF IInv
<1>6. CASE UNCHANGED <<pendingCommands, minuteries, versBorne>>
           /\ commande' = [commande EXCEPT ![k] = [etat |-> "409", borne |-> b]]
  <2>1. TypeOK'
    BY <1>1, <1>6 DEF IInv, TypeOK, Codes
  <2>2. AttenteExacte'
    BY <1>1, <1>6 DEF IInv, TypeOK, AttenteExacte
  <2>3. Routage'
    BY <1>1, <1>3, <1>6 DEF IInv, TypeOK, Routage, Envoyee
  <2>. QED  BY <1>2, <2>1, <2>2, <2>3 DEF IInv
<1>. QED  BY <1>5, <1>6 DEF Commander

\* The end of a command that was waiting
LEMMA ReponseInv ==
  ASSUME IInv, NEW k \in Commandes, NEW code \in {"200", "504"},
         commande[k].etat = "attente", code = "200" => recue[k] # Aucune,
         Repondre(k, code),
         pendingCommands' = pendingCommands \ {k}, minuteries' = minuteries \ {k},
         versCentral' \subseteq versCentral,
         UNCHANGED <<connections, prises, versBorne, recue, appel, disconnect, etatBorne>>
  PROVE  IInv'
<1>1. PrisesOuvertes' /\ Connexions' /\ DerniereConnexion'
  BY PrisesIntactes
<1>2. commande' = [commande EXCEPT ![k].etat = code]
  BY DEF Repondre
<1>3. TypeOK'
  BY <1>2 DEF IInv, TypeOK, Codes, prises
<1>4. AttenteExacte'
  BY <1>2 DEF IInv, TypeOK, AttenteExacte
<1>5. \A j \in Commandes :
        /\ commande'[j].borne = commande[j].borne
        /\ j # k => commande'[j].etat = commande[j].etat
        /\ commande'[k].etat = code
  BY <1>2 DEF IInv, TypeOK
<1>6. Routage'
  <2>0. UNCHANGED <<borneDe, versBorne, recue>>
    BY DEF prises
  <2>1. \A j \in Commandes : \A b : Envoyee(j, b) => Envoyee(j, b)'
    BY <1>5 DEF Envoyee
  <2>2. \A s \in Sockets : \A j \in versBorne[s] : Envoyee(j, borneDe[s])' /\ borneDe[s] # Aucune
    BY <2>0, <2>1 DEF IInv, TypeOK, Routage, Envoyee
  <2>3. \A j \in Commandes : recue[j] # Aucune => Envoyee(j, recue[j])'
    BY <2>0, <2>1 DEF IInv, Routage, Envoyee
  <2>4. \A j \in Commandes : commande'[j].etat = "200" => recue[j] # Aucune
    BY <1>5 DEF IInv, Routage
  <2>. QED  BY <2>0, <2>2, <2>3, <2>4 DEF IInv, Routage, Envoyee
<1>. QED  BY <1>1, <1>3, <1>4, <1>6 DEF IInv

LEMMA DelaiInv ==
  ASSUME IInv, NEW k \in Commandes, Delai(k)
  PROVE  IInv'
<1>1. commande[k].etat = "attente"
  BY DEF Delai, IInv, AttenteExacte
<1>2. UNCHANGED <<versBorne, recue, versCentral>>
  BY DEF Delai, transit
<1>. QED  BY <1>1, <1>2, ReponseInv DEF Delai

LEMMA RecevoirReponseInv ==
  ASSUME IInv, NEW m \in versCentral, RecevoirReponse(m)
  PROVE  IInv'
<1>1. PICK k \in Commandes : k = m.commande
  BY DEF IInv, TypeOK, Reponse
<1>2. recue[k] # Aucune
  BY <1>1 DEF IInv, Routage
<1>3. versCentral' \subseteq versCentral
  BY DEF RecevoirReponse
<1>4. CASE k \in pendingCommands
  <2>1. commande[k].etat = "attente"
    BY <1>4 DEF IInv, AttenteExacte
  <2>2. \E code \in {"200", "504"} : Repondre(k, code)
    BY <1>1, <1>4 DEF RecevoirReponse
  <2>3. pendingCommands' = pendingCommands \ {k} /\ minuteries' = minuteries \ {k}
    BY <1>1, <1>4 DEF RecevoirReponse, Desarmer
  <2>. QED  BY <1>2, <1>3, <2>1, <2>2, <2>3, ReponseInv DEF RecevoirReponse
<1>5. CASE k \notin pendingCommands
  <2>1. UNCHANGED <<pendingCommands, minuteries, commande, connections, prises, versBorne, recue,
                    appel, disconnect, etatBorne>>
    BY <1>1, <1>5 DEF RecevoirReponse
  <2>2. TypeOK'
    BY <1>3, <2>1 DEF IInv, TypeOK, prises
  <2>3. PrisesOuvertes' /\ Connexions' /\ DerniereConnexion' /\ AttenteExacte'
    BY <2>1, PrisesIntactes, AttenteIntacte
  <2>4. Routage'
    BY <1>3, <2>1 DEF IInv, Routage, Envoyee, prises
  <2>. QED  BY <2>2, <2>3, <2>4 DEF IInv
<1>. QED  BY <1>4, <1>5

LEMMA BorneInv ==
  ASSUME IInv, NEW s \in Sockets, NEW k \in Commandes, NEW type \in {3, 4},
         RecevoirCommande(s, k) \/ RepondreCommande(s, k, type)
  PROVE  IInv'
<1>1. /\ UNCHANGED <<connections, pendingCommands, minuteries, prises, commande, appel, disconnect,
                     etatBorne>>
      /\ PrisesOuvertes' /\ Connexions' /\ DerniereConnexion' /\ AttenteExacte'
  BY PrisesIntactes, AttenteIntacte DEF RecevoirCommande, RepondreCommande, serveur
<1>2. CASE RecevoirCommande(s, k)
  <2>1. TypeOK'
    BY <1>1, <1>2 DEF RecevoirCommande, IInv, TypeOK, prises
  <2>2. Envoyee(k, borneDe[s]) /\ borneDe[s] # Aucune
    BY <1>2 DEF RecevoirCommande, IInv, Routage
  <2>3. /\ \A t \in Sockets : versBorne'[t] \subseteq versBorne[t]
        /\ \A j \in Commandes : recue'[j] = IF j = k THEN borneDe[s] ELSE recue[j]
        /\ versCentral' = versCentral
    BY <1>2 DEF RecevoirCommande, IInv, TypeOK
  <2>4. Routage'
    BY <1>1, <2>2, <2>3 DEF IInv, TypeOK, Routage, Envoyee, prises, Reponse
  <2>. QED  BY <1>1, <2>1, <2>4 DEF IInv
<1>3. CASE RepondreCommande(s, k, type)
  <2>1. TypeOK'
    BY <1>1, <1>3 DEF RepondreCommande, IInv, TypeOK, prises, Reponse
  <2>2. Routage'
    BY <1>1, <1>3 DEF RepondreCommande, IInv, Routage, Envoyee, prises
  <2>. QED  BY <1>1, <2>1, <2>2 DEF IInv
<1>. QED  BY <1>2, <1>3

LEMMA AppelsInv ==
  ASSUME IInv,
         \/ \E s \in Sockets, a \in Appels, genre \in Genres : Emettre(s, a, genre)
         \/ \E a \in Appels : TraiterAppel(a) \/ Ingerer(a) \/ Acquitter(a)
         \/ \E s \in Sockets : IngererDisconnect(s)
  PROVE  IInv'
<1>1. UNCHANGED <<serveur, prises, commande, transit>>
  BY DEF Emettre, TraiterAppel, Ingerer, Acquitter, IngererDisconnect
<1>2. PrisesOuvertes' /\ Connexions' /\ DerniereConnexion' /\ AttenteExacte' /\ Routage'
  BY <1>1, CommandesIntactes
<1> DEFINE Tables == /\ appel' \in [Appels -> Appel]
                     /\ disconnect' \in [Sockets -> {"aucun", "envoye", "fini"}]
                     /\ etatBorne' \in [Bornes -> {"inconnue", "Disponible", "Deconnectee"}]
<1>3. ASSUME NEW s \in Sockets, NEW a \in Appels, NEW genre \in Genres, Emettre(s, a, genre)
      PROVE  Tables
  <2>1. PICK e \in Appel : e = [etat |-> "emis", socket |-> s, genre |-> genre]
    BY DEF Appel
  <2>. QED  BY <1>3, <2>1 DEF Emettre, IInv, TypeOK
<1>4. ASSUME NEW a \in Appels, TraiterAppel(a) \/ Acquitter(a)
      PROVE  Tables
  <2>1. PICK e \in {"ingestion", "repondu", "perdu"} : appel' = [appel EXCEPT ![a].etat = e]
    BY <1>4 DEF TraiterAppel, Acquitter
  <2>2. appel' \in [Appels -> Appel]
    BY <2>1 DEF IInv, TypeOK, Appel
  <2>. QED  BY <1>4, <2>2 DEF TraiterAppel, Acquitter, IInv, TypeOK
<1>5. ASSUME NEW a \in Appels, Ingerer(a)
      PROVE  Tables
  <2>1. appel' \in [Appels -> Appel]
    BY <1>5 DEF Ingerer, IInv, TypeOK, Appel
  <2>. QED  BY <1>5, <2>1 DEF Ingerer, EtatApres, IInv, TypeOK
<1>6. ASSUME NEW s \in Sockets, IngererDisconnect(s)
      PROVE  Tables
  BY <1>6 DEF IngererDisconnect, IInv, TypeOK
<1>7. Tables
  BY <1>3, <1>4, <1>5, <1>6
<1>8. TypeOK'
  BY <1>1, <1>7 DEF IInv, TypeOK, serveur, prises, transit
<1>. QED  BY <1>2, <1>8 DEF IInv

LEMMA PasInv == IInv /\ [Next]_vars => IInv'
<1> SUFFICES ASSUME IInv, [Next]_vars
             PROVE  IInv'
  OBVIOUS
<1>1. CASE UNCHANGED vars
  <2>1. PrisesOuvertes' /\ Connexions' /\ DerniereConnexion' /\ AttenteExacte' /\ Routage'
    BY <1>1, CommandesIntactes DEF vars
  <2>2. TypeOK'
    BY <1>1 DEF vars, serveur, prises, transit, IInv, TypeOK
  <2>. QED  BY <2>1, <2>2 DEF IInv
<1>2. CASE \E k \in Commandes : Delai(k)
  BY <1>2, DelaiInv
<1>3. CASE \E m \in versCentral : RecevoirReponse(m)
  BY <1>3, RecevoirReponseInv
<1>4. CASE \/ \E s \in Sockets, k \in Commandes : RecevoirCommande(s, k)
           \/ \E s \in Sockets, k \in Commandes, type \in {3, 4} : RepondreCommande(s, k, type)
  BY <1>4, BorneInv
<1>. QED  BY <1>1, <1>2, <1>3, <1>4, ConnexionInv, CoupureInv, FermetureInv, CommanderInv, AppelsInv
          DEF Next, Epuise

THEOREM Invariant == Spec => []IInv
BY InitInv, PasInv, PTL DEF Spec

-----------------------------------------------------------------------------
(* Results *)

\* The server's tables stay well formed.
THEOREM TypeCorrect == Spec => []TypeOK
BY Invariant, PTL DEF IInv

\* An HTTP request waits exactly as long as its command is pending under a timeout,
\* whatever answers, timeouts, reconnections and closes interleave.
THEOREM AttenteToujoursExacte == Spec => []AttenteExacte
BY Invariant, PTL DEF IInv

\* Commands are always routed to the newest socket of a charge point that is not
\* closed: the late close of an older one never unplugs it.
THEOREM DerniereToujoursConnectee == Spec => []DerniereConnexion
BY Invariant, PTL DEF IInv

\* The HTTP status of a command always tells whether its charge point had it.
THEOREM IssueToujoursFiable == Spec => []IssueFiable
<1>1. IInv => IssueFiable
  BY DEF IInv, TypeOK, Routage, Envoyee, IssueFiable
<1>. QED  BY <1>1, Invariant, PTL

=============================================================================
