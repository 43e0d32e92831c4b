------------------------------ MODULE Recharges ------------------------------
(***************************************************************************)
(* Charging sessions, from the StartTransaction of a charge point to the   *)
(* invoice (OcppIngestController.php, FacturationService.php), through the *)
(* transaction handlers of the OCPP gateway (ocppHandlers.js).  Handlers   *)
(* of the gateway are not serialised, posts reach Laravel in any order,    *)
(* and each PHP process is cut where another one can come in between.      *)
(* Energy is counted in Wh from a meter that starts at 0; the price of a   *)
(* Wh is 1.  The settlement that ends a stop is in module Paiements.       *)
(***************************************************************************)
EXTENDS Integers, Sequences, FiniteSets

CONSTANTS
  Charges,     \* charges, each one with the badge it presents
  Anonymes,    \* the charges whose badge belongs to no customer
  Processus,   \* PHP processes that can issue invoices
  Incidents,   \* what may go wrong: "perte" (a post fails), "delai" (a CALL times out)
  IdsLocaux,   \* what Date.now() % 1_000_000 may be
  Base,        \* invoice numbers are written in this base (10 in the code)
  Capacite,    \* the first number that needs one more digit (1000000 in the code)
  MaxEssais,   \* bound: CALLs of one charge
  MaxWh        \* bound: energy of a charge

ASSUME HypRecharges ==
  /\ Anonymes \subseteq Charges
  /\ Incidents \subseteq {"perte", "delai"}
  /\ IdsLocaux \subseteq Nat
  /\ Base \in Nat /\ Base >= 3
  /\ Capacite \in Nat /\ Capacite >= Base /\ Capacite % Base = 0
  /\ MaxEssais \in Nat
  /\ MaxWh \in Nat

VARIABLES
  charge,    \* each charge, as its charge point knows it
  envois,    \* the posts of the gateway on their way to Laravel
  sessions,  \* the charge_sessions table
  factures,  \* the factures table
  proc       \* what each PHP process is in the middle of

vars == <<charge, envois, sessions, factures, proc>>

-----------------------------------------------------------------------------
(* Types *)

Refuse_Negatif == -1   \* faulty variant: a refusal is -1
Refuse == 0   \* transactionId of a charge that was not accepted

Etats == {"repos", "demarrage", "charge", "arret", "fini"}

Point == [etat: Etats, id: Nat, compteur: 0..MaxWh, essais: 0..MaxEssais]

\* "ouverte" is the answer of Laravel to a "start"
Envoi == [genre: {"start", "ouverte", "meter", "stop"}, charge: Charges,
          essai: 0..MaxEssais, id: Nat, energie: 0..MaxWh]

Session == [statut: {"EnCours", "Terminee"}, idTag: Charges, energie: 0..MaxWh, prix: Nat]

Facture == [session: Nat \ {0}, numero: Nat \ {0}, montant: Nat]

\* reste: the sessions still to invoice, with the price the process read;
\* pour: the stop it serves, or nothing when staff asked for the missing invoices
Libre == [op |-> "libre"]
Article == [session: Nat \ {0}, prix: Nat]
Demandes == [charge: Charges, essai: 0..MaxEssais]
Personnel == [charge |-> {}, essai |-> 0]
Proc == {Libre}
  \cup [op: {"chercher", "numeroter"}, reste: SUBSET Article, pour: Demandes \cup {Personnel}]
  \cup [op: {"inserer"}, reste: SUBSET Article, pour: Demandes \cup {Personnel}, numero: Nat \ {0}]

TypeOK ==
  /\ charge \in [Charges -> Point]
  /\ envois \subseteq Envoi
  /\ sessions \in Seq(Session)
  /\ factures \in Seq(Facture)
  /\ proc \in [Processus -> Proc]

Init ==
  /\ charge = [t \in Charges |-> [etat |-> "repos", id |-> 0, compteur |-> 0, essais |-> 0]]
  /\ envois = {}
  /\ sessions = <<>>
  /\ factures = <<>>
  /\ proc = [q \in Processus |-> Libre]

-----------------------------------------------------------------------------
(* The charge point (Simulateur.tsx, or any other) *)

EnvoiDe(t, genre) ==
  [genre |-> genre, charge |-> t, essai |-> charge[t].essais, id |-> charge[t].id,
   energie |-> charge[t].compteur]

\* The CALL of a start; the gateway posts it to Laravel.
Demarrer(t) ==
  /\ charge[t].etat = "repos"
  /\ charge[t].essais < MaxEssais
  /\ charge' = [charge EXCEPT ![t].etat = "demarrage", ![t].essais = @ + 1]
  /\ envois' = envois \cup {[EnvoiDe(t, "start") EXCEPT !.essai = @ + 1]}
  /\ UNCHANGED <<sessions, factures, proc>>

\* MeterValues, which the charge point does not wait for
Mesurer(t) ==
  /\ charge[t].etat = "charge"
  /\ charge[t].compteur < MaxWh
  /\ charge' = [charge EXCEPT ![t].compteur = @ + 1]
  /\ envois' = envois \cup {[EnvoiDe(t, "meter") EXCEPT !.energie = @ + 1]}
  /\ UNCHANGED <<sessions, factures, proc>>

Arreter(t) ==
  /\ charge[t].etat = "charge"
  /\ charge' = [charge EXCEPT ![t].etat = "arret"]
  /\ envois' = envois \cup {EnvoiDe(t, "stop")}
  /\ UNCHANGED <<sessions, factures, proc>>

\* A CALL gets no answer in time: the customer may start again; the charge goes on when
\* it was the stop, or the StatusNotification that follows it, and may be stopped again.
Abandonner(t) ==
  /\ "delai" \in Incidents
  /\ \/ /\ charge[t].etat = "demarrage"
        /\ charge' = [charge EXCEPT ![t].etat = "repos"]
     \/ /\ charge[t].etat \in {"arret", "fini"}
        /\ charge[t].essais < MaxEssais
        /\ charge' = [charge EXCEPT ![t].etat = "charge", ![t].essais = @ + 1]
  /\ UNCHANGED <<envois, sessions, factures, proc>>

-----------------------------------------------------------------------------
(* The gateway *)

\* The answer to the start e: the charge point drops it unless it waits for it.
Annoncer(e, id) ==
  LET t == e.charge
      attendu == charge[t].etat = "demarrage" /\ charge[t].essais = e.essai
  IN  charge' = IF ~attendu THEN charge
                ELSE [charge EXCEPT ![t].etat = IF id = Refuse THEN "repos" ELSE "charge",
                                    ![t].id = id]

\* startTransaction of ocppHandlers.js: Laravel answered, or the post failed and the
\* handler makes up an id.
RepondreStart(e) ==
  /\ e \in envois
  /\ \/ e.genre = "ouverte" /\ Annoncer(e, e.id)
     \/ /\ e.genre \in {"start", "ouverte"} /\ "perte" \in Incidents
        /\ \E id \in IdsLocaux : Annoncer(e, id)
  /\ envois' = envois \ {e}
  /\ UNCHANGED <<sessions, factures, proc>>

\* meterValues and stopTransaction of ocppHandlers.js: a post that fails is logged.
Perdre(e) ==
  /\ "perte" \in Incidents
  /\ e \in envois /\ e.genre \in {"meter", "stop"}
  /\ envois' = envois \ {e}
  /\ UNCHANGED <<charge, sessions, factures, proc>>

\* Laravel is done with the stop that t waits for.
Servi(t) ==
  /\ ~\E e \in envois : e.charge = t /\ e.genre = "stop" /\ e.essai = charge[t].essais
  /\ \A q \in Processus :
       proc[q] # Libre => proc[q].pour # [charge |-> t, essai |-> charge[t].essais]

\* The stop is acknowledged once Laravel answered or the post failed.
AccuserArret(t) ==
  /\ charge[t].etat = "arret"
  /\ Servi(t) \/ "perte" \in Incidents
  /\ charge' = [charge EXCEPT ![t].etat = "fini"]
  /\ UNCHANGED <<envois, sessions, factures, proc>>

-----------------------------------------------------------------------------
(* The ingest of Laravel *)

\* startTransaction: a session is opened, or the badge is blocked or expired.
OuvrirSession(e) ==
  /\ e \in envois /\ e.genre = "start"
  /\ \/ /\ sessions' = Append(sessions,
             [statut |-> "EnCours", idTag |-> e.charge, energie |-> 0, prix |-> 0])
        /\ envois' = (envois \ {e}) \cup
             {[e EXCEPT !.genre = "ouverte", !.id = Len(sessions) + 1]}
     \/ /\ envois' = (envois \ {e}) \cup {[e EXCEPT !.genre = "ouverte", !.id = Refuse]}
        /\ UNCHANGED sessions
  /\ UNCHANGED <<charge, factures, proc>>

\* meterValues: the energy is written whatever the status of the session.
EcrireMesure(e) ==
  /\ e \in envois /\ e.genre = "meter"
  /\ envois' = envois \ {e}
  /\ sessions' = IF e.id \in DOMAIN sessions
                 THEN [sessions EXCEPT ![e.id].energie = e.energie] ELSE sessions
  /\ UNCHANGED <<charge, factures, proc>>

\* The session s closed by the stop e: energy between the two meters, and its price.
Close(s, e) == [s EXCEPT !.statut = "Terminee", !.energie = e.energie, !.prix = e.energie]

\* A closed session whose badge belongs to a customer
Facturable(s) == s.statut = "Terminee" /\ s.idTag \notin Anonymes

\* stopTransaction: the session is closed, then its invoice is issued.
Terminer(q, e) ==
  /\ proc[q] = Libre
  /\ e \in envois /\ e.genre = "stop"
  /\ envois' = envois \ {e}
  /\ IF e.id \notin DOMAIN sessions
     THEN UNCHANGED <<sessions, proc>>
     ELSE LET s == Close(sessions[e.id], e) IN
          /\ sessions' = [sessions EXCEPT ![e.id] = s]
          /\ proc' = IF ~Facturable(s) THEN proc
                     ELSE [proc EXCEPT ![q] =
                       [op |-> "chercher", reste |-> {[session |-> e.id, prix |-> s.prix]},
                        pour |-> [charge |-> e.charge, essai |-> e.essai]]]
  /\ UNCHANGED <<charge, factures>>

-----------------------------------------------------------------------------
(* Invoices *)

Numeros == {factures[i].numero : i \in DOMAIN factures}
Facturees == {factures[i].session : i \in DOMAIN factures}

\* POST factures/generer: the closed sessions of customers without an invoice.
Manquantes == {[session |-> i, prix |-> sessions[i].prix] :
                 i \in {j \in DOMAIN sessions : Facturable(sessions[j]) /\ j \notin Facturees}}

Generer(q) ==
  /\ proc[q] = Libre
  /\ Manquantes # {}
  /\ proc' = [proc EXCEPT ![q] = [op |-> "chercher", reste |-> Manquantes, pour |-> Personnel]]
  /\ UNCHANGED <<charge, envois, sessions, factures>>

\* The session a process is at, in the order of their ids
Courante(q) == {a \in proc[q].reste : \A b \in proc[q].reste : a.session <= b.session}

\* emettrePourSession: a session that has an invoice is left alone.
Chercher(q) ==
  /\ proc[q].op = "chercher"
  /\ \/ /\ proc[q].reste = {}
        /\ proc' = [proc EXCEPT ![q] = Libre]
     \/ \E a \in Courante(q) :
          proc' = IF a.session \in Facturees
                  THEN [proc EXCEPT ![q].reste = @ \ {a}]
                  ELSE [proc EXCEPT ![q].op = "numeroter"]
  /\ UNCHANGED <<charge, envois, sessions, factures>>

\* The column is a string: a number with one more digit sorts by its first ones.
Ordre(n) == IF n < Capacite THEN (Base + 1) * n
            ELSE (Base + 1) * (n \div Base) + (n % Base) + 1

\* Faulty variant: the last number itself
Suivant_Dernier == IF factures = <<>> THEN 1
                   ELSE CHOOSE n \in Numeros : \A m \in Numeros : Ordre(m) <= Ordre(n)

\* prochainNumero: one more than the last number in the order of the column.
Suivant ==
  IF factures = <<>> THEN 1
  ELSE 1 + CHOOSE n \in Numeros : \A m \in Numeros : Ordre(m) <= Ordre(n)

Numeroter(q) ==
  /\ proc[q].op = "numeroter"
  /\ proc' = [proc EXCEPT ![q] = [op |-> "inserer", reste |-> proc[q].reste,
                                  pour |-> proc[q].pour, numero |-> Suivant]]
  /\ UNCHANGED <<charge, envois, sessions, factures>>

Unique_SansSession(a, n) == n \notin Numeros   \* faulty variant: no unique session
\* The unique keys of the factures table
Unique(a, n) == n \notin Numeros /\ a.session \notin Facturees

Montant_Mesure(a) == sessions[a.session].energie   \* faulty variant: energy read again
Montant(a) == a.prix

\* Faulty variant: what could not be inserted is passed over.
Suite_Sautee(q, a) == [op |-> "chercher", reste |-> proc[q].reste \ {a}, pour |-> proc[q].pour]
\* After an insertion that failed, the exception ends the request.
Suite(q, a) == IF Unique(a, proc[q].numero)
  THEN [op |-> "chercher", reste |-> proc[q].reste \ {a}, pour |-> proc[q].pour]
  ELSE Libre

Inserer(q) ==
  /\ proc[q].op = "inserer"
  /\ \E a \in Courante(q) :
       /\ factures' = IF Unique(a, proc[q].numero)
            THEN Append(factures, [session |-> a.session, numero |-> proc[q].numero,
                                   montant |-> Montant(a)])
            ELSE factures
       /\ proc' = [proc EXCEPT ![q] = Suite(q, a)]
  /\ UNCHANGED <<charge, envois, sessions>>

-----------------------------------------------------------------------------

Emission(q) == Chercher(q) \/ Numeroter(q) \/ Inserer(q)

\* Every charge is over, or out of tries: the model stops here.
Epuise ==
  /\ \A t \in Charges : charge[t].etat \in {"repos", "fini"}
  /\ UNCHANGED vars

Next ==
  \/ \E t \in Charges :
       Demarrer(t) \/ Mesurer(t) \/ Arreter(t) \/ Abandonner(t) \/ AccuserArret(t)
  \/ \E e \in envois : RepondreStart(e) \/ Perdre(e) \/ OuvrirSession(e) \/ EcrireMesure(e)
  \/ \E q \in Processus, e \in envois : Terminer(q, e)
  \/ \E q \in Processus : Generer(q) \/ Emission(q)
  \/ Epuise

\* A PHP process takes the posts that reach it and runs to its end; the gateway
\* acknowledges a stop when its handler ends.
Spec ==
  /\ Init /\ [][Next]_vars
  /\ \A q \in Processus : WF_vars(Emission(q)) /\ WF_vars(\E e \in envois : Terminer(q, e))
  /\ \A t \in Charges : WF_vars(AccuserArret(t))

-----------------------------------------------------------------------------
(* Properties *)

\* "Numérotation continue" (FacturationService.php:92): the invoices are numbered 1,
\* 2, 3... in the order they are issued, without a gap or a duplicate, although the
\* number is computed before the row is inserted.
NumerotationContinue == \A i \in DOMAIN factures : factures[i].numero = i

\* Numbers have no room above Capacite: from there on no invoice can be issued, rather
\* than one with a number already used.
Plafond == Len(factures) <= Capacite

\* "At most one invoice per session [...] in case of a replay" (create_factures_table,
\* 27-28): neither a stop that is sent again nor a catch-up that overlaps it invoices a
\* session twice.
UneFactureParSession ==
  \A i, j \in DOMAIN factures : factures[i].session = factures[j].session => i = j

\* Neither two PHP processes that number at the same time nor two that invoice the same
\* session leave a number or a session with two invoices.
FacturationUnique == NumerotationContinue /\ UneFactureParSession

\* A session is invoiced only once it is closed, and only when its badge belongs to a
\* customer (FacturationService.php:25): a stop and a catch-up agree on it.
FactureJustifiee == \A i \in DOMAIN factures :
  /\ factures[i].session \in DOMAIN sessions
  /\ sessions[factures[i].session].statut = "Terminee"
  /\ sessions[factures[i].session].idTag \notin Anonymes

\* Every closed session of a customer has its invoice once the requests that deal with
\* it ended (OcppIngestController.php:181-187), when they come one at a time.
SessionFacturee == \A i \in DOMAIN sessions :
  Facturable(sessions[i]) /\ (\A q \in Processus : proc[q] = Libre) => i \in Facturees

\* Staff catch up on what was missed (OcppIngestController.php:184-185): a session that
\* a running catch-up or stop leaves behind has its invoice, unless the whole request
\* failed and all it had left with it.
RienNEstSaute ==
  [][\A q \in Processus : proc[q] # Libre /\ proc'[q] # Libre =>
       \A a \in proc[q].reste \ proc'[q].reste : a.session \in Facturees']_vars

\* "An invoice must stay identical" (create_factures_table, 15-17): it is the invoice of
\* a closed session of a customer, and its amount is the price this one was closed with,
\* whatever was measured since.
FactureFidele == FactureJustifiee /\ \A i \in DOMAIN factures :
  factures[i].montant = sessions[factures[i].session].prix

=============================================================================
