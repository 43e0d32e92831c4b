------------------------- MODULE TransactionsPreuves -------------------------
(***************************************************************************)
(* What holds of the transactions of a connector whatever the number of    *)
(* flows, the order of the answers and the calls that fail.                *)
(***************************************************************************)
EXTENDS Transactions, TLAPS

Etapes == Appels \cup Repos \cup {"admis", "accepte", "sommeil"}

-----------------------------------------------------------------------------
(* Type correctness.                                                        *)

LEMMA TypeAller ==
  ASSUME TypeOK, NEW f \in Flux, NEW e \in Etapes, Aller(f, e)
  PROVE  etape' \in [Flux -> Appels \cup Repos \cup {"admis", "accepte", "sommeil"}]
         /\ avant' \subseteq Flux \X Flux
<1>1. etape' \in [Flux -> Appels \cup Repos \cup {"admis", "accepte", "sommeil"}]
  BY DEF TypeOK, Aller, Etapes
<1>2. avant' \subseteq Flux \X Flux
  BY DEF TypeOK, Aller, EnAttente
<1> QED
  BY <1>1, <1>2

LEMMA TypeDepart ==
  ASSUME TypeOK, NEW d \in Departs, Depart(d)
  PROVE  TypeOK'
<1>0. d \in Flux
  BY DEF Flux
<1>1. CASE Demander(d) \/ NonAutorise(d) \/ DebutMesure(d)
  <2>1. PICK e \in Etapes : Aller(d, e)
    BY <1>1 DEF Demander, NonAutorise, DebutMesure, Etapes, Appels, Repos
  <2> QED
    BY <1>0, <1>1, <2>1, TypeAller
       DEF TypeOK, Demander, NonAutorise, DebutMesure, connecteur, marques
<1>2. CASE AutoriserLocalement(d) \/ authorizeRemote(d) \/ Preparer(d)
  <2>1. PICK e \in Etapes : Aller(d, e)
    BY <1>2 DEF AutoriserLocalement, authorizeRemote, Preparer, Etapes, Appels
  <2> QED
    BY <1>0, <1>2, <2>1, TypeAller DEF TypeOK, AutoriserLocalement, authorizeRemote, Preparer
<1>6. CASE ReponseAutorisation(d)
  <2>1. PICK e \in Etapes : Aller(d, e)
    BY <1>6 DEF ReponseAutorisation, Etapes, Repos
  <2>2. authorizeIdTag' \in Departs \cup {Aucun} /\ idTagAuthorized' \in BOOLEAN
    BY <1>6 DEF TypeOK, ReponseAutorisation
  <2> QED
    BY <1>0, <1>6, <2>1, <2>2, TypeAller DEF TypeOK, ReponseAutorisation
<1>3. CASE Prepare(d) \/ Restaure(d)
  BY <1>0, <1>3, TypeAller DEF TypeOK, Prepare, Restaure, Etapes, Appels, Repos, marques
<1>4. CASE ReponseDepart(d)
  <2>1. serveur' \subseteq Departs
    BY <1>4 DEF ReponseDepart, TypeOK
  <2>2. CASE Reinitialiser(d)
    <3>1. PICK e \in Etapes : Aller(d, e)
      BY <2>2 DEF Reinitialiser, Etapes, Appels, Repos
    <3> QED
      BY <1>0, <1>4, <2>1, <2>2, <3>1, TypeAller
         DEF TypeOK, Reinitialiser, resetConnectorStatus, EffacerMarques, ReponseDepart
  <2>3. CASE Aller(d, "fini") /\ UNCHANGED connecteur
    BY <1>0, <1>4, <2>1, <2>3, TypeAller DEF TypeOK, ReponseDepart, Etapes, Repos, connecteur, marques
  <2>4. CASE Demarrer(d)
    <3>1. PICK e \in Etapes : Aller(d, e)
      BY <2>4 DEF Demarrer, Etapes, Appels
    <3> QED
      BY <1>0, <1>4, <2>1, <2>4, <3>1, TypeAller DEF TypeOK, Demarrer, ReponseDepart, marques
  <2> QED
    BY <1>4, <2>2, <2>3, <2>4 DEF ReponseDepart
<1>5. CASE ChargeAnnoncee(d)
  <2>1. minuterie' \in BOOLEAN /\ perdues' \in Nat
    <3>1. CASE transactionStarted /\ transactionId # Aucun
      BY <1>5, <3>1 DEF ChargeAnnoncee, TypeOK
    <3>2. CASE ~(transactionStarted /\ transactionId # Aucun)
      BY <1>5, <3>2 DEF ChargeAnnoncee, TypeOK
    <3> QED
      BY <3>1, <3>2
  <2> QED
    BY <1>0, <1>5, <2>1, TypeAller DEF TypeOK, ChargeAnnoncee, Etapes, Repos, marques
<1> QED
  BY <1>1, <1>2, <1>3, <1>4, <1>5, <1>6 DEF Depart

LEMMA TypePatienter ==
  ASSUME TypeOK, NEW a \in Arrets, Patienter(a), status' \in {status, "Finishing"},
         powerDivider' \in Nat, serveur' \subseteq Departs, UNCHANGED vise
  PROVE  TypeOK'
<1>1. a \in Flux /\ "sommeil" \in Etapes /\ Aller(a, "sommeil")
  BY DEF Flux, Etapes, Patienter
<1> QED
  BY <1>1, TypeAller DEF TypeOK, Patienter, marques

LEMMA TypeArret ==
  ASSUME TypeOK, NEW a \in Arrets, Arret(a)
  PROVE  TypeOK'
<1>0. a \in Flux
  BY DEF Flux
<1>7. ASSUME EnvoyerArret(a), UNCHANGED <<transactionStarted, transactionId, marques, minuterie,
             perdues, powerDivider, serveur>>, status' \in {status, "Finishing"}
      PROVE  TypeOK'
  <2>1. PICK e \in Etapes : Aller(a, e)
    BY <1>7 DEF EnvoyerArret, Etapes, Appels
  <2> QED
    BY <1>0, <1>7, <2>1, TypeAller DEF TypeOK, EnvoyerArret, marques
<1>1. CASE DemanderArret(a)
  <2>1. CASE Aller(a, "finishing") /\ UNCHANGED vise
    BY <1>0, <1>1, <2>1, TypeAller DEF TypeOK, DemanderArret, Etapes, Appels, connecteur, marques
  <2>2. CASE EnvoyerArret(a)
    BY <1>1, <1>7, <2>2 DEF DemanderArret, connecteur
  <2> QED
    BY <1>1, <2>1, <2>2 DEF DemanderArret
<1>2. CASE Finissant(a)
  BY <1>2, <1>7 DEF Finissant
<1>3. CASE ReponseArret(a)
  <2>1. serveur' \subseteq Departs /\ UNCHANGED vise
    BY <1>3 DEF ReponseArret, TypeOK
  <2>2. CASE UNCHANGED <<connecteur, powerDivider>> /\ (Aller(a, "fini") \/ Aller(a, "available"))
    <3>1. PICK e \in Etapes : Aller(a, e)
      BY <2>2 DEF Etapes, Appels, Repos
    <3> QED
      BY <1>0, <2>1, <2>2, <3>1, TypeAller DEF TypeOK, connecteur, marques
  <2>3. CASE decrementPowerDivider /\ UNCHANGED status /\ Patienter(a)
    <3>1. powerDivider' \in Nat
      BY <2>3 DEF decrementPowerDivider, TypeOK
    <3> QED
      BY <2>1, <2>3, <3>1, TypePatienter
  <2>4. CASE /\ decrementPowerDivider /\ UNCHANGED status /\ Aller(a, "delai")
             /\ UNCHANGED <<transactionStarted, transactionId, marques, minuterie, perdues>>
    <3>1. powerDivider' \in Nat
      BY <2>4 DEF decrementPowerDivider, TypeOK
    <3> QED
      BY <1>0, <2>1, <2>4, <3>1, TypeAller DEF TypeOK, Etapes, Appels, marques
  <2>5. CASE status = "Finishing"
    BY <1>3, <2>2, <2>3, <2>5 DEF ReponseArret
  <2>6. CASE status # "Finishing"
    BY <1>3, <2>2, <2>4, <2>6 DEF ReponseArret
  <2> QED
    BY <2>5, <2>6
<1>4. CASE DelaiAnnonce(a)
  BY <1>4, TypePatienter DEF TypeOK, DelaiAnnonce
<1>5. CASE FinDeDelai(a)
  BY <1>0, <1>5, TypeAller
     DEF TypeOK, FinDeDelai, resetConnectorStatus, EffacerMarques, Etapes, Appels
<1>8. CASE FinMesure(a) \/ FinDeDelaiArretee(a)
  <2>1. PICK e \in Etapes : Aller(a, e)
    BY <1>8 DEF FinMesure, FinDeDelaiArretee, Etapes, Appels, Repos
  <2> QED
    BY <1>0, <1>8, <2>1, TypeAller DEF TypeOK, FinMesure, FinDeDelaiArretee, connecteur, marques
<1>6. CASE Libere(a)
  <2>1. /\ powerDivider' \in Nat /\ transactionStarted' \in BOOLEAN /\ minuterie' \in BOOLEAN
        /\ {transactionId', localAuthorizeIdTag', authorizeIdTag'} \subseteq Departs \cup {Aucun}
        /\ {idTagAuthorized', transactionRemoteStarted'} \subseteq BOOLEAN
    <3>1. CASE Delai
      BY <1>6, <3>1 DEF Libere, TypeOK, marques
    <3>2. CASE ~Delai
      <4>1. powerDivider' \in Nat
        BY <1>6, <3>2 DEF Libere, decrementPowerDivider, TypeOK
      <4> QED
        BY <1>6, <3>2, <4>1 DEF Libere, resetConnectorStatus, EffacerMarques
    <3> QED
      BY <3>1, <3>2
  <2> QED
    BY <1>0, <1>6, <2>1, TypeAller DEF TypeOK, Libere, Etapes, Repos
<1> QED
  BY <1>1, <1>2, <1>3, <1>4, <1>5, <1>6, <1>8 DEF Arret

LEMMA TypeEchouer ==
  ASSUME TypeOK, NEW f \in Flux, Echouer(f)
  PROVE  TypeOK'
<1>1. Aller(f, "fini") /\ "fini" \in Etapes
  BY DEF Echouer, Etapes, Repos
<1>2. UNCHANGED <<connecteur, powerDivider, vise>>
  BY DEF Echouer
<1>3. serveur' \subseteq Departs
  BY DEF Echouer, TypeOK
<1> QED
  BY <1>1, <1>2, <1>3, TypeAller DEF TypeOK, connecteur, marques

\* Every variable keeps its type: in particular powerDivider is never negative.
THEOREM TypeCorrecte == Spec => []TypeOK
<1>1. Init => TypeOK
  <2> SUFFICES ASSUME Init PROVE TypeOK
    OBVIOUS
  <2>1. etape \in [Flux -> Appels \cup Repos \cup {"admis", "accepte", "sommeil"}]
    BY DEF Init, Repos
  <2>2. powerDivider \in Nat /\ perdues \in Nat
    BY AutresAssumption DEF Init
  <2> QED
    BY <2>1, <2>2 DEF Init, TypeOK
<1>2. TypeOK /\ [Next]_vars => TypeOK'
  <2>1. ASSUME TypeOK, Next PROVE TypeOK'
    BY <2>1, TypeDepart, TypeArret, TypeEchouer DEF Next
  <2>2. ASSUME TypeOK, UNCHANGED vars PROVE TypeOK'
    BY <2>2 DEF TypeOK, vars, connecteur, marques, flux
  <2> QED
    BY <2>1, <2>2
<1> QED
  BY <1>1, <1>2, PTL DEF Spec

-----------------------------------------------------------------------------
(* The record of the connector.  JamaisRemplacee needs that a connector      *)
(* with a transaction id has a transaction started, which the responses to a *)
(* start check.                                                             *)

Enregistrement ==
  /\ EnregistreeOuverte
  /\ MesuresDeTransaction
  /\ transactionId # Aucun => transactionStarted

\* Steps that change neither the record nor what stands behind it.
LEMMA EnregistrementInchange ==
  ASSUME Enregistrement, UNCHANGED <<transactionStarted, transactionId, minuterie, vise>>,
         serveur \subseteq serveur'
  PROVE  Enregistrement'
BY DEF Enregistrement, EnregistreeOuverte, MesuresDeTransaction

\* Steps that clear the record.
LEMMA EnregistrementVide ==
  ASSUME Enregistrement, transactionId' = Aucun, minuterie' = FALSE
  PROVE  Enregistrement'
BY DEF Enregistrement, EnregistreeOuverte, MesuresDeTransaction

\* Steps in which a stop reads the record, or the server closes what a stop named.
LEMMA EnregistrementVise ==
  ASSUME TypeOK, Enregistrement, UNCHANGED <<transactionStarted, transactionId, minuterie>>,
         NEW a \in Arrets,
         \/ vise' = [vise EXCEPT ![a] = transactionId] /\ UNCHANGED serveur
         \/ vise' = vise /\ serveur' = serveur \ {vise[a]}
  PROVE  Enregistrement'
<1>1. EnregistreeOuverte'
  <2> SUFFICES ASSUME ~forceTransactionOnInvalidIdToken,
                      transactionId # Aucun, transactionId \notin serveur'
               PROVE  \E c \in Arrets : vise'[c] = transactionId
    BY DEF EnregistreeOuverte
  <2>1. CASE vise' = [vise EXCEPT ![a] = transactionId] /\ UNCHANGED serveur
    BY <2>1 DEF TypeOK
  <2>2. CASE vise' = vise /\ serveur' = serveur \ {vise[a]}
    BY <2>2 DEF Enregistrement, EnregistreeOuverte
  <2> QED
    BY <2>1, <2>2
<1> QED
  BY <1>1 DEF Enregistrement, MesuresDeTransaction

LEMMA EnregistrementDepart ==
  ASSUME TypeOK, Enregistrement, NEW d \in Departs, Depart(d)
  PROVE  Enregistrement' /\ (transactionId' # transactionId => Aucun \in {transactionId, transactionId'})
<1>1. CASE ~ReponseDepart(d) /\ ~ChargeAnnoncee(d)
  <2>1. /\ UNCHANGED <<transactionStarted, transactionId, minuterie, vise>>
        /\ serveur \subseteq serveur'
    BY <1>1 DEF Depart, Demander, AutoriserLocalement, NonAutorise, authorizeRemote,
                ReponseAutorisation, Preparer, Prepare, DebutMesure, Restaure, connecteur
  <2> QED
    BY <2>1, EnregistrementInchange
<1>2. CASE ReponseDepart(d)
  <2>1. serveur \subseteq serveur' /\ UNCHANGED vise
    BY <1>2 DEF ReponseDepart
  <2>2. CASE Reinitialiser(d)
    BY <2>2, EnregistrementVide DEF Reinitialiser, resetConnectorStatus
  <2>3. CASE UNCHANGED connecteur
    BY <2>1, <2>3, EnregistrementInchange DEF connecteur
  <2>4. CASE /\ ~Occupe /\ (d \in serveur' \/ forceTransactionOnInvalidIdToken)
             /\ transactionStarted' = TRUE /\ transactionId' = d
    <3>1. transactionId = Aucun
      BY <2>4 DEF Occupe, Enregistrement
    <3>2. Enregistrement'
      BY <2>4, FluxAssumption
         DEF Enregistrement, EnregistreeOuverte, MesuresDeTransaction
    <3> QED
      BY <3>1, <3>2
  <2> QED
    BY <1>2, <2>2, <2>3, <2>4 DEF ReponseDepart, Demarrer
<1>3. CASE ChargeAnnoncee(d)
  <2>1. UNCHANGED <<transactionStarted, transactionId, serveur, vise>>
    BY <1>3 DEF ChargeAnnoncee
  <2>2. minuterie' => transactionStarted /\ transactionId # Aucun
    <3>1. CASE transactionStarted /\ transactionId # Aucun
      BY <3>1
    <3>2. CASE ~(transactionStarted /\ transactionId # Aucun)
      BY <1>3, <3>2 DEF ChargeAnnoncee, Enregistrement, MesuresDeTransaction
    <3> QED
      BY <3>1, <3>2
  <2> QED
    BY <2>1, <2>2 DEF Enregistrement, EnregistreeOuverte, MesuresDeTransaction
<1> QED
  BY <1>1, <1>2, <1>3

LEMMA EnregistrementArret ==
  ASSUME TypeOK, Enregistrement, NEW a \in Arrets, Arret(a)
  PROVE  Enregistrement' /\ (transactionId' # transactionId => Aucun \in {transactionId, transactionId'})
<1>1. CASE DemanderArret(a)
  <2>1. CASE UNCHANGED vise
    BY <1>1, <2>1, EnregistrementInchange DEF DemanderArret, connecteur
  <2>2. CASE EnvoyerArret(a)
    BY <1>1, <2>2, EnregistrementVise DEF DemanderArret, EnvoyerArret, connecteur
  <2> QED
    BY <1>1, <2>1, <2>2 DEF DemanderArret
<1>2. CASE Finissant(a)
  BY <1>2, EnregistrementVise DEF Finissant, EnvoyerArret
<1>3. CASE ReponseArret(a)
  <2>1. serveur' = serveur \ {vise[a]} /\ UNCHANGED vise
    BY <1>3 DEF ReponseArret
  <2>2. CASE UNCHANGED <<transactionStarted, transactionId, minuterie>>
    BY <2>1, <2>2, EnregistrementVise
  <2>3. CASE Patienter(a)
    BY <2>3, EnregistrementVide DEF Patienter
  <2>4. CASE status = "Finishing"
    BY <1>3, <2>2, <2>3, <2>4 DEF ReponseArret, connecteur
  <2>5. CASE status # "Finishing"
    BY <1>3, <2>2, <2>3, <2>5 DEF ReponseArret, connecteur
  <2> QED
    BY <2>4, <2>5
<1>4. CASE DelaiAnnonce(a)
  BY <1>4, EnregistrementVide DEF DelaiAnnonce, Patienter
<1>5. CASE FinDeDelai(a)
  BY <1>5, EnregistrementVide DEF FinDeDelai, resetConnectorStatus
<1>7. CASE FinMesure(a) \/ FinDeDelaiArretee(a)
  BY <1>7, EnregistrementInchange DEF FinMesure, FinDeDelaiArretee, connecteur
<1>6. CASE Libere(a)
  <2>1. CASE Delai
    BY <1>6, <2>1, EnregistrementInchange DEF Libere
  <2>2. CASE ~Delai
    BY <1>6, <2>2, EnregistrementVide DEF Libere, resetConnectorStatus
  <2> QED
    BY <2>1, <2>2
<1> QED
  BY <1>1, <1>2, <1>3, <1>4, <1>5, <1>6, <1>7 DEF Arret

LEMMA EnregistrementEchouer ==
  ASSUME TypeOK, Enregistrement, NEW f \in Flux, Echouer(f)
  PROVE  Enregistrement' /\ UNCHANGED transactionId
<1>1. UNCHANGED <<transactionStarted, transactionId, minuterie, vise>>
  BY DEF Echouer, connecteur
<1>2. CASE serveur \subseteq serveur'
  BY <1>1, <1>2, EnregistrementInchange
<1>3. CASE f \in Arrets /\ serveur' = serveur \ {vise[f]}
  BY <1>1, <1>3, EnregistrementVise
<1> QED
  BY <1>1, <1>2, <1>3 DEF Echouer

LEMMA EnregistrementSuivant ==
  ASSUME TypeOK, Enregistrement, [Next]_vars
  PROVE  Enregistrement' /\ (transactionId' # transactionId => Aucun \in {transactionId, transactionId'})
<1>1. CASE Next
  BY <1>1, EnregistrementDepart, EnregistrementArret, EnregistrementEchouer DEF Next
<1>2. CASE UNCHANGED vars
  BY <1>2, EnregistrementInchange DEF vars, connecteur, flux
<1> QED
  BY <1>1, <1>2

THEOREM EnregistrementInvariant == Spec => []Enregistrement
<1>1. Init => Enregistrement
  BY DEF Init, Enregistrement, EnregistreeOuverte, MesuresDeTransaction
<1>2. TypeOK /\ Enregistrement /\ [Next]_vars => Enregistrement'
  BY EnregistrementSuivant
<1> QED
  BY <1>1, <1>2, TypeCorrecte, PTL DEF Spec

\* The transaction of a connector is open at the server or a stop named it.
THEOREM ToujoursOuverte == Spec => []EnregistreeOuverte
<1>1. Enregistrement => EnregistreeOuverte
  BY DEF Enregistrement
<1> QED
  BY <1>1, EnregistrementInvariant, PTL

\* The periodic meter values run only during a transaction.
THEOREM MesuresToujoursDeTransaction == Spec => []MesuresDeTransaction
<1>1. Enregistrement => MesuresDeTransaction
  BY DEF Enregistrement
<1> QED
  BY <1>1, EnregistrementInvariant, PTL

\* The transaction of the connector is known to the server and the meter values are of it
\* (TransactionConnue).
THEOREM TransactionToujoursConnue == Spec => []TransactionConnue
<1>1. EnregistreeOuverte /\ MesuresDeTransaction => TransactionConnue
  BY DEF TransactionConnue
<1> QED
  BY <1>1, ToujoursOuverte, MesuresToujoursDeTransaction, PTL

\* No start, whatever its flow knew, takes the place of a running transaction.
THEOREM TransactionJamaisRemplacee == Spec => JamaisRemplacee
<1>1. TypeOK /\ Enregistrement /\ [Next]_vars
        => [transactionId' # transactionId => Aucun \in {transactionId, transactionId'}]_vars
  BY EnregistrementSuivant
<1> QED
  BY <1>1, TypeCorrecte, EnregistrementInvariant, PTL DEF Spec, JamaisRemplacee


-----------------------------------------------------------------------------
(* The power and the meter values, at a server that answers in order.       *)

\* Calls are answered in the order they were sent, none fails and the station is not
\* stopped, stops do not overlap, and a start whose id tag is authorized, by the station or
\* by the server, shares the connector with no other, or no id tag is authorized at all.
Paisible == Ordonne /\ ~Pannes /\ ArretSeul /\ (DepartSeul \/ Autorises = {})

\* While an authorization marks the connector, a start that is under way is alone and the
\* connector has no transaction: a reset for a mismatch ends nothing.
DepartJuste ==
  /\ \A d \in Departs : etape[d] \in {"admis", "authorize"} => d \in Autorises
  /\ \/ ~Marque
     \/ /\ Autorises # {}
        /\ \A d \in Departs :
             EnCours(d) => ~transactionStarted /\ \A c \in Departs : EnCours(c) => c = d

\* The starts that still have to announce that they charge
EnCharge == {d \in Departs : etape[d] \in {"begin", "charging"}}

\* The stops that returned their share of the power and wait to reset the connector
EnDelai == {a \in Arrets : etape[a] \in {"delai", "sommeil"}}

\* A start that is announcing its charge counts nowhere yet; by the order of the
\* answers it is done before a stop of its transaction gets as far as StopTransaction.
Ordonnees ==
  /\ transactionStarted <=> (transactionId # Aucun \/ \E a \in Arrets : etape[a] = "sommeil")
  /\ \A d \in EnCharge : transactionId = d /\ (etape[d] = "begin" => beginEndMeterValues)
  /\ status = "Finishing" =>
       \E a \in Arrets : etape[a] \in {"end", "stop", "delai", "sommeil", "available"}
  /\ powerDivider =
       Autres + (IF transactionStarted /\ EnCharge = {} /\ EnDelai = {} THEN 1 ELSE 0)
  /\ minuterie <=> (transactionId # Aucun /\ EnCharge = {})
  /\ perdues = 0

\* One stop at most, of the transaction of the connector until its delay begins.  The start
\* is one call ahead of it.
ArretJuste ==
  /\ \A a, b \in Arrets : etape[a] \notin Repos /\ etape[b] \notin Repos => a = b
  /\ \A a \in Arrets :
       /\ etape[a] \in {"finishing", "end", "stop", "delai", "sommeil", "available"} \cup Repos
       /\ etape[a] = "finishing" =>
            /\ transactionId # Aucun
            /\ \A d \in EnCharge :
                 <<d, a>> \in avant \/ (etape[d] = "charging" /\ beginEndMeterValues)
       /\ etape[a] = "end" =>
            /\ vise[a] = transactionId /\ transactionId # Aucun
            /\ \A d \in EnCharge : <<d, a>> \in avant /\ etape[d] = "charging"
       /\ etape[a] \in {"stop", "delai"} \/ (etape[a] = "available" /\ ~Delai) =>
            EnCharge = {} /\ vise[a] = transactionId /\ transactionId # Aucun
       /\ etape[a] = "sommeil" => transactionId = Aucun
       /\ etape[a] \in {"delai", "sommeil"} => Delai

LEMMA EtapesApres ==
  ASSUME TypeOK, NEW f \in Flux, NEW e, Aller(f, e)
  PROVE  /\ etape'[f] = e
         /\ \A g \in Flux : g # f => etape'[g] = etape[g]
         /\ \A g, h \in Flux : g # f /\ h # f /\ <<g, h>> \in avant => <<g, h>> \in avant'
         /\ e \in Appels => \A g \in Flux : g # f /\ etape[g] \in Appels => <<g, f>> \in avant'
<1>1. /\ etape' = [etape EXCEPT ![f] = e]
      /\ avant' = {p \in avant : f \notin {p[1], p[2]}}
                  \cup (IF e \in Appels THEN (EnAttente \ {f}) \X {f} ELSE {})
  BY DEF Aller
<1>2. ASSUME e \in Appels, NEW g \in Flux, g # f, etape[g] \in Appels
      PROVE  <<g, f>> \in avant'
  BY <1>1, <1>2 DEF EnAttente
<1>3. ASSUME NEW g \in Flux, NEW h \in Flux, g # f, h # f, <<g, h>> \in avant
      PROVE  <<g, h>> \in avant'
  BY <1>1, <1>3
<1> QED
  BY <1>1, <1>2, <1>3 DEF TypeOK

\* A step of a start that leaves the connector and the set of announcements alone
LEMMA ArretsIntacts ==
  ASSUME TypeOK, ArretJuste, NEW d \in Departs, NEW e, Aller(d, e),
         UNCHANGED <<transactionId, vise>>, EnCharge' \subseteq EnCharge, d \notin EnCharge'
  PROVE  ArretJuste'
<1>0. d \in Flux /\ \A a \in Arrets : a \in Flux /\ a # d
  BY FluxAssumption DEF Flux
<1>1. \A a \in Arrets : etape'[a] = etape[a]
  BY <1>0, EtapesApres
<1>2. ASSUME NEW c \in EnCharge'
      PROVE  /\ c \in EnCharge /\ etape'[c] = etape[c]
             /\ \A a \in Arrets : <<c, a>> \in avant => <<c, a>> \in avant'
  <2>1. c \in EnCharge /\ c # d /\ c \in Flux
    BY DEF EnCharge, Flux
  <2> QED
    BY <1>0, <2>1, EtapesApres
<1>3. ASSUME NEW a \in Arrets, etape[a] = "finishing", NEW c \in EnCharge'
      PROVE  <<c, a>> \in avant' \/ (etape'[c] = "charging" /\ beginEndMeterValues)
  BY <1>2, <1>3 DEF ArretJuste
<1>4. ASSUME NEW a \in Arrets, etape[a] = "end", NEW c \in EnCharge'
      PROVE  <<c, a>> \in avant' /\ etape'[c] = "charging"
  BY <1>2, <1>4 DEF ArretJuste
<1> QED
  BY <1>1, <1>3, <1>4 DEF ArretJuste

\* Steps that neither leave a mark where there was none nor admit a start
LEMMA DepartJusteGarde ==
  ASSUME DepartJuste, Marque' => Marque, transactionStarted' => transactionStarted,
         \A c \in Departs : EnCours(c)' => EnCours(c),
         \A c \in Departs : etape'[c] \in {"admis", "authorize"} => c \in Autorises
  PROVE  DepartJuste'
BY DEF DepartJuste

LEMMA EnCoursApres ==
  ASSUME TypeOK, NEW f \in Flux, NEW e, Aller(f, e)
  PROVE  /\ \A c \in Departs : c # f => (EnCours(c)' <=> EnCours(c)) /\ etape'[c] = etape[c]
         /\ f \in Departs => (EnCours(f)' <=> e \in {"admis", "authorize", "accepte", "preparing", "start"})
         /\ etape'[f] = e
<1>1. etape'[f] = e /\ \A c \in Departs : c # f => etape'[c] = etape[c]
  BY EtapesApres DEF Flux
<1> QED
  BY <1>1 DEF EnCours

\* Steps that clear the marks or leave them, and admit no start
LEMMA DepartJusteSansMarque ==
  ASSUME TypeOK, DepartJuste, NEW f \in Flux, NEW e, Aller(f, e),
         f \in Departs => e \notin {"admis", "authorize"} /\ (EnCours(f) \/ ~EnCours(f)'),
         EffacerMarques \/ UNCHANGED marques, transactionStarted' => transactionStarted
  PROVE  DepartJuste'
<1>1. \A c \in Departs : EnCours(c)' => EnCours(c)
  BY EnCoursApres
<1>2. \A c \in Departs : etape'[c] \in {"admis", "authorize"} => c \in Autorises
  BY EnCoursApres DEF DepartJuste
<1>3. Marque' => Marque
  BY <1>1, AutorisesAssumption DEF Marque, EffacerMarques, marques
<1> QED
  BY <1>1, <1>2, <1>3, DepartJusteGarde

LEMMA DepartJusteDepart ==
  ASSUME Paisible, TypeOK, DepartJuste, NEW d \in Departs, Depart(d)
  PROVE  DepartJuste'
<1>0. d \in Flux
  BY DEF Flux
<1>1. CASE Demander(d)
  <2>1. /\ UNCHANGED <<transactionStarted, marques>> /\ (DepartSeul => Seul(d))
        /\ Aller(d, IF d \in Autorises THEN "admis" ELSE "accepte")
    BY <1>1 DEF Demander, connecteur
  <2>2. \A c \in Departs : (EnCours(c)' => EnCours(c) \/ c = d) /\ (c # d => etape'[c] = etape[c])
    BY <1>0, <2>1, EnCoursApres
  <2>3. \A c \in Departs : etape'[c] \in {"admis", "authorize"} => c \in Autorises
    <3>1. etape'[d] = IF d \in Autorises THEN "admis" ELSE "accepte"
      BY <1>0, <2>1, EtapesApres
    <3> QED
      BY <2>2, <3>1 DEF DepartJuste
  <2>4. CASE d \notin Autorises /\ ~Marque
    <3>1. ~Marque'
      BY <2>1, <2>2, <2>4, AutorisesAssumption DEF Marque, marques
    <3> QED
      BY <2>3, <3>1 DEF DepartJuste
  <2>5. CASE ~transactionStarted /\ ~\E c \in Departs : EnCours(c)
    <3>1. \A c \in Departs : EnCours(c)' => c = d
      BY <2>2, <2>5
    <3>2. CASE Autorises # {}
      BY <2>1, <2>3, <2>5, <3>1, <3>2 DEF DepartJuste
    <3>3. CASE Autorises = {}
      <4>1. ~Marque'
        BY <2>1, <3>3 DEF DepartJuste, Marque, marques
      <4> QED
        BY <2>3, <4>1 DEF DepartJuste
    <3> QED
      BY <3>2, <3>3
  <2>6. CASE Autorises = {}
    <3>1. ~Marque
      BY <2>6 DEF DepartJuste
    <3> QED
      BY <2>4, <2>6, <3>1
  <2> QED
    BY <2>1, <2>4, <2>5, <2>6 DEF Paisible, Seul
\* A step of d that stays under way or ends it, for an authorized start or with marks that it
\* does not make
<1>2. ASSUME EnCours(d), NEW e, Aller(d, e), e \in {"admis", "authorize"} => d \in Autorises,
             UNCHANGED transactionStarted, Marque' => Marque
      PROVE  DepartJuste'
  <2>1. \A c \in Departs : EnCours(c)' => EnCours(c)
    BY <1>0, <1>2, EnCoursApres
  <2>2. \A c \in Departs : etape'[c] \in {"admis", "authorize"} => c \in Autorises
    BY <1>0, <1>2, EnCoursApres DEF DepartJuste
  <2> QED
    BY <1>2, <2>1, <2>2, DepartJusteGarde
<1>3. CASE AutoriserLocalement(d) \/ authorizeRemote(d)
  <2>1. d \in Autorises /\ EnCours(d)
    BY <1>3 DEF AutoriserLocalement, authorizeRemote, DepartJuste, EnCours
  <2>2. Marque /\ UNCHANGED transactionStarted
    BY <1>3, <2>1 DEF Marque, AutoriserLocalement, authorizeRemote
  <2>3. PICK e \in {"accepte", "authorize"} : Aller(d, e)
    BY <1>3 DEF AutoriserLocalement, authorizeRemote
  <2> QED
    BY <1>2, <2>1, <2>2, <2>3
<1>4. CASE ReponseAutorisation(d)
  <2>1. d \in Autorises /\ EnCours(d)
    BY <1>4 DEF ReponseAutorisation, Repondu, DepartJuste, EnCours
  <2>2. Marque /\ UNCHANGED transactionStarted
    BY <1>4, <2>1 DEF Marque, ReponseAutorisation
  <2>3. PICK e \in {"accepte", "fini"} : Aller(d, e)
    BY <1>4 DEF ReponseAutorisation
  <2> QED
    BY <1>2, <2>1, <2>2, <2>3
<1>5. CASE Preparer(d)
  <2>1. /\ EnCours(d) /\ Aller(d, "preparing")
        /\ transactionRemoteStarted' = (transactionRemoteStarted \/ d \in Distants)
        /\ UNCHANGED <<transactionStarted, localAuthorizeIdTag, authorizeIdTag>>
    BY <1>5 DEF Preparer, EnCours
  <2>2. \A c \in Departs : EnCours(c)' => EnCours(c)
    BY <1>0, <2>1, EnCoursApres
  <2>3. Marque' => Marque
    BY <2>1, <2>2, AutorisesAssumption DEF Marque, AuthorizeRemoteTxRequests
  <2> QED
    BY <1>2, <2>1, <2>3
<1>6. CASE NonAutorise(d) \/ Prepare(d) \/ DebutMesure(d) \/ ChargeAnnoncee(d) \/ Restaure(d)
  <2>1. PICK e \in {"fini", "start", "charging"} : Aller(d, e) /\ (EnCours(d) \/ e # "start")
    BY <1>6 DEF NonAutorise, Prepare, DebutMesure, ChargeAnnoncee, Restaure, EnCours, Repondu
  <2>2. UNCHANGED marques /\ UNCHANGED transactionStarted
    BY <1>6 DEF NonAutorise, Prepare, DebutMesure, ChargeAnnoncee, Restaure, connecteur
  <2>3. EnCours(d) \/ ~EnCours(d)'
    BY <1>0, <2>1, EnCoursApres
  <2> QED
    BY <1>0, <2>1, <2>2, <2>3, DepartJusteSansMarque
<1>7. CASE ReponseDepart(d)
  <2>1. EnCours(d)
    BY <1>7 DEF ReponseDepart, Repondu, EnCours
  <2>2. CASE Reinitialiser(d) \/ (Aller(d, "fini") /\ UNCHANGED connecteur)
    <3>1. PICK e \in {"fini", "restore"} : Aller(d, e)
      BY <2>2 DEF Reinitialiser
    <3>2. (EffacerMarques \/ UNCHANGED marques) /\ (transactionStarted' => transactionStarted)
      BY <2>2 DEF Reinitialiser, resetConnectorStatus, connecteur
    <3> QED
      BY <1>0, <2>1, <3>1, <3>2, DepartJusteSansMarque
  <2>3. CASE Demarrer(d)
    <3>1. PICK e \in {"begin", "charging"} : Aller(d, e)
      BY <2>3 DEF Demarrer
    <3>2. UNCHANGED marques
      BY <2>3 DEF Demarrer
    <3>3. ~EnCours(d)' /\ \A c \in Departs : c # d => (EnCours(c)' <=> EnCours(c)) /\ etape'[c] = etape[c]
      BY <1>0, <3>1, EnCoursApres
    <3>4. \A c \in Departs : etape'[c] \in {"admis", "authorize"} => c \in Autorises
      BY <1>0, <3>1, <3>3, EtapesApres DEF DepartJuste
    <3>5. CASE ~Marque
      <4>1. ~Marque'
        BY <3>2, <3>3, <3>5, AutorisesAssumption DEF Marque, marques
      <4> QED
        BY <3>4, <4>1 DEF DepartJuste
    <3>6. CASE Marque
      <4>1. \A c \in Departs : ~EnCours(c)'
        BY <2>1, <3>3, <3>6 DEF DepartJuste
      <4> QED
        BY <3>4, <3>6, <4>1 DEF DepartJuste
    <3> QED
      BY <3>5, <3>6
  <2> QED
    BY <1>7, <2>2, <2>3 DEF ReponseDepart
<1> QED
  BY <1>1, <1>3, <1>4, <1>5, <1>6, <1>7 DEF Depart

LEMMA DepartJusteArret ==
  ASSUME TypeOK, DepartJuste, NEW a \in Arrets, Arret(a)
  PROVE  DepartJuste'
<1>0. a \in Flux /\ a \notin Departs
  BY FluxAssumption DEF Flux
<1>1. \E e : Aller(a, e)
  BY DEF Arret, DemanderArret, EnvoyerArret, Finissant, FinMesure, ReponseArret, Patienter,
         DelaiAnnonce, FinDeDelai, FinDeDelaiArretee, Libere
<1>2. (EffacerMarques \/ UNCHANGED marques) /\ (transactionStarted' => transactionStarted)
  <2>1. CASE DemanderArret(a) \/ Finissant(a) \/ FinMesure(a) \/ FinDeDelaiArretee(a)
    BY <2>1 DEF DemanderArret, Finissant, FinMesure, FinDeDelaiArretee, connecteur
  <2>2. CASE ReponseArret(a) \/ DelaiAnnonce(a)
    BY <2>2 DEF ReponseArret, DelaiAnnonce, Patienter, connecteur
  <2>3. CASE FinDeDelai(a) \/ Libere(a)
    BY <2>3 DEF FinDeDelai, Libere, resetConnectorStatus
  <2> QED
    BY <2>1, <2>2, <2>3 DEF Arret
<1> QED
  BY <1>0, <1>1, <1>2, DepartJusteSansMarque

LEMMA OrdonneesDepart ==
  ASSUME Paisible, TypeOK, DepartJuste, Ordonnees, ArretJuste, NEW d \in Departs, Depart(d)
  PROVE  Ordonnees' /\ ArretJuste'
<1>0. d \in Flux /\ (\A a \in Arrets : a \in Flux /\ a # d) /\ d # Aucun
  BY FluxAssumption DEF Flux
<1>1. ASSUME NEW e, Aller(d, e), e \notin {"begin", "charging"}
      PROVE  /\ EnCharge' = EnCharge \ {d}
             /\ \A a \in Arrets : etape'[a] = etape[a]
  <2>1. etape'[d] = e /\ \A g \in Flux : g # d => etape'[g] = etape[g]
    BY <1>0, <1>1, EtapesApres
  <2> QED
    BY <1>0, <1>1, <2>1 DEF EnCharge, Flux
<1>2. ASSUME NEW e, Aller(d, e), e \notin {"begin", "charging"}, d \notin EnCharge,
             UNCHANGED vise,
             UNCHANGED <<transactionStarted, transactionId, minuterie, perdues, powerDivider>>,
             status' = status \/ status' \in {"Preparing", "Available"}
      PROVE  Ordonnees' /\ ArretJuste'
  <2>1. EnCharge' = EnCharge /\ \A a \in Arrets : etape'[a] = etape[a]
    BY <1>1, <1>2
  <2>2. \A c \in EnCharge : etape'[c] = etape[c]
    BY <1>0, <1>2, EtapesApres DEF EnCharge, Flux
  <2>3. Ordonnees'
    BY <1>2, <2>1, <2>2 DEF Ordonnees, EnDelai
  <2>4. ArretJuste'
    BY <1>2, <2>1, ArretsIntacts
  <2> QED
    BY <2>3, <2>4
<1>3. CASE ~ReponseDepart(d) /\ ~DebutMesure(d) /\ ~ChargeAnnoncee(d)
  <2>1. d \notin EnCharge /\ UNCHANGED vise
    BY <1>3 DEF Depart, Demander, AutoriserLocalement, NonAutorise, authorizeRemote,
                ReponseAutorisation, Preparer, Prepare, Restaure, Repondu, EnCharge
  <2>2. \E e : Aller(d, e) /\ e \notin {"begin", "charging"}
    BY <1>3 DEF Depart, Demander, AutoriserLocalement, NonAutorise, authorizeRemote,
                ReponseAutorisation, Preparer, Prepare, Restaure
  <2>3. /\ UNCHANGED <<transactionStarted, transactionId, minuterie, perdues, powerDivider>>
        /\ status' = status \/ status' \in {"Preparing", "Available"}
    BY <1>3 DEF Depart, Demander, AutoriserLocalement, NonAutorise, authorizeRemote,
                ReponseAutorisation, Preparer, Prepare, Restaure, connecteur
  <2> QED
    BY <1>2, <2>1, <2>2, <2>3
<1>4. CASE ReponseDepart(d)
  <2>0. d \notin EnCharge /\ UNCHANGED <<powerDivider, vise>>
    BY <1>4 DEF ReponseDepart, Repondu, EnCharge
  <2>1. CASE Aller(d, "fini") /\ UNCHANGED connecteur
    BY <1>2, <2>0, <2>1 DEF connecteur
  <2>2. CASE ~transactionStarted /\ Reinitialiser(d)
    <3>1. ~transactionStarted /\ transactionId = Aucun /\ minuterie = FALSE
      BY <2>2 DEF Ordonnees, TypeOK
    <3>2. PICK e \in {"restore", "fini"} : Aller(d, e)
      BY <2>2 DEF Reinitialiser
    <3>3. UNCHANGED <<status, transactionStarted, transactionId, minuterie, perdues>>
      BY <2>2, <3>1 DEF Reinitialiser, resetConnectorStatus, TypeOK
    <3> QED
      BY <1>2, <2>0, <3>2, <3>3
  <2>3. NonMarque \/ Incompatible(d) => ~transactionStarted
    <3>1. NonMarque \/ Incompatible(d) => Marque
      BY DEF NonMarque, Incompatible, Marque
    <3>2. EnCours(d)
      BY <1>4 DEF ReponseDepart, Repondu, EnCours
    <3> QED
      BY <3>1, <3>2 DEF DepartJuste
  <2>4. CASE ~Occupe /\ Demarrer(d)
    <3>0. PICK e \in {"begin", "charging"} : Aller(d, e) /\ (e = "begin" => beginEndMeterValues)
      BY <2>4 DEF Demarrer
    <3>1. ~transactionStarted /\ transactionId = Aucun /\ status # "Finishing"
      BY <2>4 DEF Occupe, Ordonnees
    <3>2. EnCharge = {}
      BY <3>1, FluxAssumption DEF Ordonnees, EnCharge
    <3>3. etape'[d] = e /\ \A g \in Flux : g # d => etape'[g] = etape[g]
      BY <1>0, <3>0, EtapesApres
    <3>4. EnCharge' = {d}
      BY <3>2, <3>3 DEF EnCharge, Flux
    <3>5. \A a \in Arrets : etape'[a] = etape[a]
      BY <1>0, <3>3
    <3>6. \A a \in Arrets : etape[a] \in Repos \/ (etape[a] = "available" /\ Delai)
      BY <3>1 DEF ArretJuste, Ordonnees
    <3>7. ArretJuste'
      BY <3>5, <3>6 DEF ArretJuste, Repos
    <3>8. EnDelai = {} /\ EnDelai' = {}
      BY <3>5, <3>6 DEF EnDelai, Repos
    <3>9. ~\E a \in Arrets : etape'[a] = "sommeil"
      BY <3>5, <3>6 DEF Repos
    <3>10. Ordonnees'
      BY <1>0, <2>0, <2>4, <3>0, <3>1, <3>3, <3>4, <3>8, <3>9 DEF Ordonnees, Demarrer
    <3> QED
      BY <3>7, <3>10
  <2>5. Occupe \/ ~transactionStarted
    BY DEF Occupe
  <2> QED
    BY <1>4, <2>1, <2>2, <2>3, <2>4, <2>5 DEF ReponseDepart
<1>6. CASE DebutMesure(d)
  <2>1. /\ d \in EnCharge /\ etape[d] = "begin" /\ Aller(d, "charging")
        /\ UNCHANGED <<connecteur, powerDivider, vise>>
    BY <1>6 DEF DebutMesure, Repondu, EnCharge
  <2>2. beginEndMeterValues /\ transactionId = d /\ EnCharge = {d}
    <3>1. \A c \in EnCharge : c = d
      BY <2>1 DEF Ordonnees
    <3> QED
      BY <2>1, <3>1 DEF Ordonnees
  <2>3. etape'[d] = "charging" /\ \A g \in Flux : g # d => etape'[g] = etape[g]
    BY <1>0, <2>1, EtapesApres
  <2>4. EnCharge' = {d} /\ \A a \in Arrets : etape'[a] = etape[a]
    BY <1>0, <2>2, <2>3 DEF EnCharge, Flux
  <2>5. Ordonnees'
    BY <2>1, <2>2, <2>3, <2>4 DEF Ordonnees, EnDelai, connecteur
  <2>6. \A a \in Arrets : etape[a] # "end"
    BY <2>1, <2>2 DEF ArretJuste
  <2>7. ArretJuste'
    BY <2>1, <2>2, <2>3, <2>4, <2>6 DEF ArretJuste, connecteur
  <2> QED
    BY <2>5, <2>7
<1>5. CASE ChargeAnnoncee(d)
  <2>1. d \in EnCharge /\ Aller(d, "fini")
    BY <1>5 DEF ChargeAnnoncee, Repondu, EnCharge
  <2>2. transactionId = d /\ transactionStarted /\ EnCharge = {d}
    <3>1. \A c \in EnCharge : c = d
      BY <2>1 DEF Ordonnees
    <3> QED
      BY <1>0, <2>1, <3>1 DEF Ordonnees
  <2>3. /\ EnCharge' = {} /\ \A a \in Arrets : etape'[a] = etape[a]
        /\ EnDelai = {} /\ EnDelai' = {}
    <3>1. EnCharge' = {} /\ \A a \in Arrets : etape'[a] = etape[a]
      BY <1>1, <2>1, <2>2
    <3>2. \A a \in Arrets : etape[a] \notin {"delai", "sommeil"}
      BY <1>0, <2>2 DEF ArretJuste
    <3> QED
      BY <3>1, <3>2 DEF EnDelai
  <2>4. powerDivider' = Autres + 1
    BY <1>5, <2>1, AutresAssumption DEF ChargeAnnoncee, Ordonnees
  <2>5. minuterie' = TRUE /\ perdues' = perdues
    BY <1>0, <1>5, <2>1, <2>2 DEF ChargeAnnoncee, Ordonnees
  <2>6. /\ status' = "Charging"
        /\ UNCHANGED <<transactionStarted, transactionId, vise>>
    BY <1>5 DEF ChargeAnnoncee
  <2>7. Ordonnees'
    BY <1>0, <2>2, <2>3, <2>4, <2>5, <2>6 DEF Ordonnees
  <2>8. ArretJuste'
    BY <2>1, <2>3, <2>6, ArretsIntacts
  <2> QED
    BY <2>7, <2>8
<1> QED
  BY <1>3, <1>4, <1>5, <1>6

LEMMA OrdonneesArret ==
  ASSUME Paisible, TypeOK, Ordonnees, ArretJuste, NEW a \in Arrets, Arret(a)
  PROVE  Ordonnees' /\ ArretJuste'
<1>0. a \in Flux /\ \A d \in Departs : d \in Flux /\ a # d
  BY FluxAssumption DEF Flux
<1>1. ASSUME NEW e, Aller(a, e)
      PROVE  /\ etape'[a] = e
             /\ EnCharge' = EnCharge
             /\ \A b \in Arrets : b # a => etape'[b] = etape[b]
             /\ \A d \in EnCharge : etape'[d] = etape[d]
             /\ e \in Appels => \A d \in EnCharge : <<d, a>> \in avant'
  <2>1. /\ etape'[a] = e /\ \A g \in Flux : g # a => etape'[g] = etape[g]
        /\ e \in Appels => \A g \in Flux : g # a /\ etape[g] \in Appels => <<g, a>> \in avant'
    BY <1>0, <1>1, EtapesApres
  <2>2. \A d \in EnCharge : d \in Flux /\ d # a /\ etape[d] \in Appels
    BY <1>0 DEF EnCharge, Appels
  <2> QED
    BY <1>0, <2>1, <2>2 DEF EnCharge, Flux
<1>2. CASE DemanderArret(a)
  <2>1. etape[a] = "libre" /\ UNCHANGED <<connecteur, powerDivider, serveur>>
    BY <1>2 DEF DemanderArret
  <2>2. \A b \in Arrets : etape[b] \in Repos
    BY <1>2 DEF DemanderArret, ArretEnCours, Paisible
  <2>3. status # "Finishing" /\ transactionId # Aucun
    BY <1>2, <2>2 DEF DemanderArret, Ordonnees, Repos
  <2>4. Aller(a, "finishing") /\ UNCHANGED vise
    BY <1>2, <2>3 DEF DemanderArret
  <2>5. /\ etape'[a] = "finishing" /\ EnCharge' = EnCharge
        /\ \A b \in Arrets : b # a => etape'[b] = etape[b]
        /\ \A d \in EnCharge : etape'[d] = etape[d]
        /\ \A d \in EnCharge : <<d, a>> \in avant'
    BY <1>1, <2>4 DEF Appels
  <2>6. EnDelai = {} /\ EnDelai' = {} /\ ~\E b \in Arrets : etape[b] = "sommeil" \/ etape'[b] = "sommeil"
    BY <2>2, <2>5 DEF EnDelai, Repos
  <2>7. Ordonnees'
    BY <2>1, <2>3, <2>5, <2>6 DEF Ordonnees, connecteur
  <2>8. ArretJuste'
    BY <2>1, <2>2, <2>3, <2>5 DEF ArretJuste, connecteur, Repos
  <2> QED
    BY <2>7, <2>8
<1>3. ASSUME etape[a] \notin Repos
      PROVE  \A b \in Arrets : b # a => etape[b] \in Repos
  BY <1>3 DEF ArretJuste
\* The only stop under way goes to the step e.
<1>4. ASSUME etape[a] \notin Repos, NEW e, Aller(a, e)
      PROVE  /\ EnCharge' = EnCharge
             /\ EnDelai = IF etape[a] \in {"delai", "sommeil"} THEN {a} ELSE {}
             /\ EnDelai' = IF e \in {"delai", "sommeil"} THEN {a} ELSE {}
             /\ (\E b \in Arrets : etape[b] = "sommeil") <=> etape[a] = "sommeil"
             /\ (\E b \in Arrets : etape'[b] = "sommeil") <=> e = "sommeil"
             /\ etape'[a] = e /\ \A d \in EnCharge : etape'[d] = etape[d]
             /\ \A b \in Arrets : b # a => etape'[b] = etape[b] /\ etape[b] \in Repos
  <2>1. /\ \A b \in Arrets : b # a => etape'[b] = etape[b] /\ etape[b] \in Repos
        /\ etape'[a] = e /\ EnCharge' = EnCharge /\ \A d \in EnCharge : etape'[d] = etape[d]
    BY <1>1, <1>3, <1>4
  <2> QED
    BY <2>1 DEF EnDelai, Repos
<1>5. CASE Finissant(a)
  <2>1. etape[a] = "finishing" /\ \A g \in Flux : <<g, a>> \notin avant
    BY <1>5 DEF Finissant, Repondu, Paisible
  <2>2. transactionId # Aucun /\ \A d \in EnCharge : etape[d] = "charging" /\ beginEndMeterValues
    BY <1>0, <2>1 DEF ArretJuste, EnCharge
  <2>3. /\ status' = "Finishing" /\ vise' = [vise EXCEPT ![a] = transactionId]
        /\ UNCHANGED <<transactionStarted, transactionId, minuterie, perdues, powerDivider>>
    BY <1>5 DEF Finissant, EnvoyerArret
  <2>4. PICK e \in {"end", "stop"} : Aller(a, e) /\ (e = "end" <=> beginEndMeterValues)
    BY <1>5 DEF Finissant, EnvoyerArret
  <2>5. vise'[a] = transactionId
    BY <2>3 DEF TypeOK
  <2>6. /\ EnCharge' = EnCharge /\ EnDelai = {} /\ EnDelai' = {} /\ etape'[a] = e
        /\ ~(\E b \in Arrets : etape[b] = "sommeil") /\ ~(\E b \in Arrets : etape'[b] = "sommeil")
        /\ \A b \in Arrets : b # a => etape'[b] = etape[b] /\ etape[b] \in Repos
    BY <1>4, <2>1, <2>4 DEF Repos
  <2>7. \A d \in EnCharge : etape'[d] = etape[d]
    BY <1>0, <2>4, EtapesApres DEF EnCharge
  <2>8. Ordonnees'
    BY <2>2, <2>3, <2>6, <2>7 DEF Ordonnees
  <2>9. CASE e = "stop"
    <3>1. EnCharge = {}
      BY <2>2, <2>4, <2>9
    <3> QED
      BY <2>2, <2>3, <2>5, <2>6, <2>8, <2>9, <3>1 DEF ArretJuste, Repos
  <2>10. CASE e = "end"
    <3>1. \A d \in EnCharge : <<d, a>> \in avant'
      BY <1>1, <2>4, <2>10 DEF Appels
    <3>2. ArretJuste'
      BY <2>2, <2>3, <2>5, <2>6, <2>7, <2>10, <3>1 DEF ArretJuste, Repos
    <3> QED
      BY <2>8, <3>2
  <2> QED
    BY <2>9, <2>10
<1>11. CASE FinMesure(a)
  <2>1. etape[a] = "end" /\ \A g \in Flux : <<g, a>> \notin avant
    BY <1>11 DEF FinMesure, Repondu, Paisible
  <2>2. EnCharge = {} /\ transactionId # Aucun /\ vise[a] = transactionId
    BY <1>0, <2>1 DEF ArretJuste, EnCharge
  <2>3. Aller(a, "stop") /\ UNCHANGED <<connecteur, powerDivider, vise>>
    BY <1>11 DEF FinMesure
  <2>4. /\ EnCharge' = {} /\ EnDelai = {} /\ EnDelai' = {} /\ etape'[a] = "stop"
        /\ ~(\E b \in Arrets : etape[b] = "sommeil") /\ ~(\E b \in Arrets : etape'[b] = "sommeil")
        /\ \A b \in Arrets : b # a => etape'[b] = etape[b] /\ etape[b] \in Repos
    BY <1>4, <2>1, <2>2, <2>3 DEF Repos
  <2>5. Ordonnees'
    BY <2>2, <2>3, <2>4 DEF Ordonnees, connecteur
  <2>6. ArretJuste'
    BY <2>2, <2>3, <2>4 DEF ArretJuste, connecteur, Repos
  <2> QED
    BY <2>5, <2>6
\* The stop gives its share of the power back and sleeps.
<1>6. ASSUME etape[a] \in {"stop", "delai"}, Delai, Patienter(a), UNCHANGED vise,
             status' \in {status, "Finishing"},
             powerDivider' = Autres
      PROVE  Ordonnees' /\ ArretJuste'
  <2>1. EnCharge = {} /\ transactionId # Aucun
    BY <1>6 DEF ArretJuste
  <2>2. /\ minuterie' = FALSE /\ transactionId' = Aucun /\ Aller(a, "sommeil")
        /\ UNCHANGED <<transactionStarted, perdues>>
    BY <1>6 DEF Patienter
  <2>3. /\ EnCharge' = {} /\ EnDelai' = {a} /\ etape'[a] = "sommeil"
        /\ \E b \in Arrets : etape'[b] = "sommeil"
        /\ \A b \in Arrets : b # a => etape'[b] = etape[b] /\ etape[b] \in Repos
    BY <1>4, <1>6, <2>1, <2>2 DEF Repos
  <2>4. transactionStarted
    BY <2>1 DEF Ordonnees
  <2>5. \E b \in Arrets : etape'[b] \in {"end", "stop", "delai", "sommeil", "available"}
    BY <2>3
  <2>6. Ordonnees'
    BY <1>6, <2>2, <2>3, <2>4, <2>5, AutresAssumption DEF Ordonnees
  <2>7. ArretJuste'
    BY <1>6, <2>2, <2>3 DEF ArretJuste, Repos
  <2> QED
    BY <2>6, <2>7
<1>7. CASE ReponseArret(a)
  <2>1. etape[a] = "stop" /\ EnCharge = {} /\ vise[a] = transactionId /\ transactionId # Aucun
    BY <1>7 DEF ReponseArret, Repondu, ArretJuste
  <2>2. transactionStarted /\ UNCHANGED vise
    BY <1>7, <2>1 DEF Ordonnees, ReponseArret
  <2>3. EnDelai = {}
    BY <1>3, <2>1 DEF EnDelai, Repos
  <2>4. powerDivider = Autres + 1
    BY <2>1, <2>2, <2>3 DEF Ordonnees
  <2>5. CASE ~Delai
    <3>1. Aller(a, "available") /\ UNCHANGED <<connecteur, powerDivider>>
      BY <1>7, <2>1, <2>5 DEF ReponseArret
    <3>2. /\ EnCharge' = EnCharge /\ EnDelai' = {} /\ etape'[a] = "available"
          /\ ~(\E b \in Arrets : etape[b] = "sommeil") /\ ~(\E b \in Arrets : etape'[b] = "sommeil")
          /\ \A b \in Arrets : b # a => etape'[b] = etape[b] /\ etape[b] \in Repos
      BY <1>4, <2>1, <3>1 DEF Repos
    <3>3. Ordonnees'
      BY <2>1, <2>3, <3>1, <3>2 DEF Ordonnees, connecteur
    <3>4. ArretJuste'
      BY <2>1, <2>2, <3>1, <3>2 DEF ArretJuste, connecteur, Repos
    <3> QED
      BY <3>3, <3>4
  <2>6. CASE Delai
    <3>1. /\ decrementPowerDivider /\ UNCHANGED status
          /\ IF status # "Finishing"
             THEN /\ Aller(a, "delai")
                  /\ UNCHANGED <<transactionStarted, transactionId, minuterie, perdues>>
             ELSE Patienter(a)
      BY <1>7, <2>1, <2>6 DEF ReponseArret
    <3>2. powerDivider' = Autres
      BY <2>4, <3>1, AutresAssumption DEF decrementPowerDivider
    <3>3. CASE status = "Finishing"
      BY <1>6, <2>1, <2>2, <2>6, <3>1, <3>2, <3>3
    <3>4. CASE status # "Finishing"
      <4>1. /\ EnCharge' = EnCharge /\ EnDelai' = {a} /\ etape'[a] = "delai"
            /\ ~(\E b \in Arrets : etape[b] = "sommeil") /\ ~(\E b \in Arrets : etape'[b] = "sommeil")
            /\ \A b \in Arrets : b # a => etape'[b] = etape[b] /\ etape[b] \in Repos
        BY <1>4, <2>1, <3>1, <3>4 DEF Repos
      <4>2. Ordonnees'
        BY <2>1, <2>2, <3>1, <3>2, <3>4, <4>1, AutresAssumption DEF Ordonnees
      <4>3. ArretJuste'
        BY <2>1, <2>2, <2>6, <3>1, <3>4, <4>1 DEF ArretJuste, Repos
      <4> QED
        BY <4>2, <4>3
    <3> QED
      BY <3>3, <3>4
  <2> QED
    BY <2>5, <2>6
<1>8. CASE DelaiAnnonce(a)
  <2>1. /\ etape[a] = "delai" /\ status' = "Finishing" /\ Patienter(a)
        /\ UNCHANGED <<powerDivider, serveur, vise>>
    BY <1>8 DEF DelaiAnnonce, Repondu
  <2>2. Delai
    BY <2>1 DEF ArretJuste
  <2>3. EnDelai # {}
    BY <2>1 DEF EnDelai
  <2>4. powerDivider' = Autres
    BY <2>1, <2>3, AutresAssumption DEF Ordonnees
  <2> QED
    BY <1>6, <2>1, <2>2, <2>4
<1>9. CASE FinDeDelai(a)
  <2>1. /\ etape[a] = "sommeil" /\ Aller(a, "available")
        /\ transactionStarted' = FALSE /\ transactionId' = Aucun 
        /\ minuterie' = FALSE /\ UNCHANGED <<status, perdues, powerDivider, serveur, vise>>
    BY <1>9 DEF FinDeDelai, resetConnectorStatus
  <2>2. transactionId = Aucun /\ Delai
    BY <2>1 DEF ArretJuste
  <2>3. EnCharge = {}
    BY <2>2, FluxAssumption DEF Ordonnees, EnCharge
  <2>4. EnDelai # {}
    BY <2>1 DEF EnDelai
  <2>5. powerDivider' = Autres
    BY <2>1, <2>4, AutresAssumption DEF Ordonnees
  <2>6. /\ EnCharge' = {} /\ etape'[a] = "available"
        /\ ~(\E b \in Arrets : etape'[b] = "sommeil")
        /\ \A b \in Arrets : b # a => etape'[b] = etape[b] /\ etape[b] \in Repos
    BY <1>4, <2>1, <2>3 DEF Repos
  <2>7. Ordonnees'
    BY <2>1, <2>5, <2>6, AutresAssumption DEF Ordonnees
  <2>8. ArretJuste'
    BY <2>2, <2>6 DEF ArretJuste, Repos
  <2> QED
    BY <2>7, <2>8
<1>10. CASE Libere(a)
  <2>1. etape[a] = "available" /\ Aller(a, "fini") /\ status' = "Available" /\ UNCHANGED <<perdues, vise>>
    BY <1>10 DEF Libere, Repondu
  <2>2. /\ EnCharge' = EnCharge /\ EnDelai = {} /\ EnDelai' = {} /\ etape'[a] = "fini"
        /\ ~(\E b \in Arrets : etape[b] = "sommeil") /\ ~(\E b \in Arrets : etape'[b] = "sommeil")
        /\ \A d \in EnCharge : etape'[d] = etape[d]
        /\ \A b \in Arrets : b # a => etape'[b] = etape[b] /\ etape[b] \in Repos
    BY <1>4, <2>1 DEF Repos
  <2>3. ArretJuste'
    BY <2>2 DEF ArretJuste, Repos
  <2>4. CASE Delai
    <3>1. UNCHANGED <<transactionStarted, transactionId, minuterie, powerDivider>>
      BY <1>10, <2>4 DEF Libere
    <3>2. Ordonnees'
      BY <2>1, <2>2, <3>1 DEF Ordonnees
    <3> QED
      BY <2>3, <3>2
  <2>5. CASE ~Delai
    <3>1. EnCharge = {} /\ transactionId # Aucun
      BY <2>1, <2>5 DEF ArretJuste
    <3>2. /\ transactionStarted' = FALSE /\ transactionId' = Aucun 
          /\ minuterie' = FALSE /\ decrementPowerDivider
      BY <1>10, <2>5 DEF Libere, resetConnectorStatus
    <3>3. powerDivider = Autres + 1
      BY <2>2, <3>1 DEF Ordonnees
    <3>4. powerDivider' = Autres
      BY <3>2, <3>3, AutresAssumption DEF decrementPowerDivider
    <3>5. Ordonnees'
      BY <2>1, <2>2, <3>1, <3>2, <3>4, AutresAssumption DEF Ordonnees
    <3> QED
      BY <2>3, <3>5
  <2> QED
    BY <2>4, <2>5
<1>12. CASE FinDeDelaiArretee(a)
  BY <1>12 DEF FinDeDelaiArretee, Paisible
<1> QED
  BY <1>2, <1>5, <1>7, <1>8, <1>9, <1>10, <1>11, <1>12 DEF Arret

OrdonneesInv == DepartJuste /\ Ordonnees /\ ArretJuste

LEMMA OrdonneesSuivant ==
  ASSUME Paisible PROVE TypeOK /\ OrdonneesInv /\ [Next]_vars => OrdonneesInv'
<1> SUFFICES ASSUME TypeOK, DepartJuste, Ordonnees, ArretJuste, [Next]_vars
             PROVE  DepartJuste' /\ Ordonnees' /\ ArretJuste'
  BY DEF OrdonneesInv
<1>1. CASE Next
  BY <1>1, DepartJusteDepart, DepartJusteArret, OrdonneesDepart, OrdonneesArret
     DEF Next, Echouer, Paisible
<1>2. CASE UNCHANGED vars
  <2>1. Ordonnees' /\ ArretJuste'
    BY <1>2 DEF vars, connecteur, flux, Ordonnees, ArretJuste, EnCharge, EnDelai
  <2>2. DepartJuste'
    BY <1>2 DEF vars, connecteur, marques, flux, DepartJuste, Marque, EnCours
  <2> QED
    BY <2>1, <2>2
<1> QED
  BY <1>1, <1>2

LEMMA OrdonneesInvariant == ASSUME Paisible PROVE Spec => []OrdonneesInv
<1>1. Init => OrdonneesInv
  <2> SUFFICES ASSUME Init PROVE DepartJuste /\ Ordonnees /\ ArretJuste
    BY DEF OrdonneesInv
  <2>1. \A f \in Flux : etape[f] = "libre"
    BY DEF Init
  <2>2. EnCharge = {} /\ \A a \in Arrets : etape[a] \in Repos
    BY <2>1 DEF EnCharge, Flux, Repos
  <2>3. Ordonnees
    BY <2>2, AutresAssumption DEF Init, Ordonnees, Repos
  <2>4. ArretJuste
    BY <2>2 DEF ArretJuste, Repos
  <2>5. \A d \in Departs : etape[d] = "libre" /\ ~EnCours(d)
    BY <2>1 DEF Flux, EnCours
  <2>6. DepartJuste
    BY <2>5, AutorisesAssumption DEF Init, DepartJuste, Marque
  <2> QED
    BY <2>3, <2>4, <2>6
<1> QED
  BY <1>1, OrdonneesSuivant, TypeCorrecte, PTL DEF Spec

\* At rest powerDivider counts the transactions that run, however starts and a stop
\* interleave, with or without a delay after a stop, in the conditions of Paisible: answers
\* in order, no failure, no stop of the station, no overlapping stops, and authorized starts,
\* by the station or by the server, that share the connector with no other.
THEOREM PuissanceToujoursExacte == ASSUME Paisible PROVE Spec => []PuissanceExacte
<1>1. OrdonneesInv => PuissanceExacte
  BY DEF OrdonneesInv, Ordonnees, PuissanceExacte, AuRepos, EnCharge, EnDelai, Flux, Repos
<1> QED
  BY <1>1, OrdonneesInvariant, PTL

\* No interval of meter values is lost and, at rest, one runs exactly for a running
\* transaction, in the same conditions (Paisible).
THEOREM MesuresToujoursExactes == ASSUME Paisible PROVE Spec => []MesuresExactes
<1>1. OrdonneesInv => MesuresExactes
  BY DEF OrdonneesInv, Ordonnees, MesuresExactes, AuRepos, EnCharge, Flux, Repos
<1> QED
  BY <1>1, OrdonneesInvariant, PTL

\* In the same conditions powerDivider never falls to zero while other connectors
\* charge, and checkMeasurandPowerDivider never throws (OCPPServiceUtils.ts:1481): the
\* counterexample of the run transactions_puissance needs stops that overlap.
THEOREM PuissanceToujoursUtilisable == ASSUME Paisible PROVE Spec => []PuissanceUtilisable
<1>1. OrdonneesInv => PuissanceUtilisable
  BY AutresAssumption DEF OrdonneesInv, Ordonnees, PuissanceUtilisable
<1> QED
  BY <1>1, OrdonneesInvariant, PTL

=============================================================================
