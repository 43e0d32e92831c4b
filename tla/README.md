# Verification of the charging back office

TLA+ models, TLC runs and TLAPS proofs for the charging station system of this
repository: a Laravel back office (`src/back`), a Node gateway that speaks OCPP 1.6-J
with the charge points (`src/ocpp-central-system`), a React front end with a charge
point that runs in the browser (`src/front`), and the simulator of charging stations that
the gateway is run against (`src/e-mobility-charging-stations-simulator`, TypeScript, the
largest part of the code). Definitions keep the names of the source
where they can, so the models mix its French and its English.

`PROJECT.json` says, for every definition, which lines it models; for every property,
which fault of the code it detects (a *mutant*, written next to the definition as a
"faulty variant"); and lists every hazard of the code with the properties that watch it.

## 1. Inventory

| Component | Its state | Its operations | Hard behaviours | What makes it correct |
|---|---|---|---|---|
| Payments and wallet (`PaiementService`, `PasserelleCarteSimulee`, wallet and invoice controllers) | `wallets.solde`, the ledger `wallet_transactions`, `factures.statut`, `paiements`, `paiement_cartes` | credit, debit, cancel a top-up, settle, refund, top up by card, settle at the end of a charge | concurrent requests; checks made on a model read before the transaction; an exception between two transactions; a loop over a balance that moves | the balance is what the ledger says; nobody pays, is refunded or is reversed twice; the status of an invoice agrees with its payments |
| Sessions and invoicing (`OcppIngestController`, `FacturationService`) | `charge_sessions`, `factures` | start, meter values, stop, issue, catch up | posts that arrive late or never; a stop that is sent again; two processes that compute the same number | one invoice per closed session, numbered without gap, at the price of the session |
| OCPP gateway (`server.js`, `ocppHandlers.js`, `laravelClient.js`) | `connections`, `pendingCommands` and their timers | connect, close, command, answer, CALL, post | a late close after a reconnection; a late answer after a timeout; CALLs handled out of turn; posts that fail | each command is answered once, by its charge point; the live socket is the one used; every CALL is acknowledged |
| Charge point status and alerts (`OcppIngestController`, `Borne`, `Alerte`) | `bornes.status`, the JSON `connecteurs`, `alertes` | boot, heartbeat, status, disconnect | the JSON column is read, changed and written whole; check, then insert | no status is lost; one unread alert per cause |
| Maintenance tickets (`MaintenanceTicketController`) | `maintenance_tickets`, `bornes.status` | create, update, resolve, delete | notifications overwrite the fault; a ticket is deleted while open | a charge point is faulty while a critical ticket is open |
| Firmware (`FirmwareController`, `OcppIngestController`) | `firmwares`, `firmware_deployments`, `bornes.firmware` | deploy, roll back, delete, status notification, give up after a delay | timeout of the command while the charge point updates; check, then create | one update at a time per charge point; the version shown is the one installed |
| Subscriptions (`AbonnementController`) | `abonnements` | subscribe, cancel | check, then create | one subscription in progress per customer |
| Browser charge point (`Simulateur.tsx`, `ocppChargePoint.ts`) | the step of the screen, the calls that wait for an answer | connect, call, receive, close | timeouts; answers and closes that come late | an answer only serves the call it answers |
| Simulator: requests and buffer (`OCPPRequestService`, `ChargingStation.ts`) | `requests`, `messageQueue`, `flushingMessageBuffer`, the flush interval | send, answer, time out, buffer, flush | the callback of a send, the answer, the timer and the close come in any order; a flush that sleeps while another starts | what was buffered is sent once, in its turn; a caller that waits can be answered |
| Simulator: transaction generator (`AutomaticTransactionGenerator.ts`) | `connectorsStatus`, `connectorAbortControllers` | start, stop, reload, the loop of a connector | a loop stopped in one of its sleeps or while it awaits an answer; two loops on one connector | a connector shown as started runs one loop, and every transaction it opens has a loop that stops it |
| Simulator: OCPP 1.6 transactions (`OCPP16*Service.ts`, `OCPPServiceOperations.ts`) | the connector, `powerDivider`, the meter value intervals | start, stop, their answers and the status notifications between | starts and stops interleave at each call they await; calls that fail | the station charges on a transaction the server knows; shares of the power and intervals match the transactions |
| Simulator: station life (`ChargingStation.ts`) | `started`, `stopping`, `wsConnection`, `wsConnectionRetryCount`, the registration, the heartbeat and ping intervals | start, stop, reset, reconnect, register, reload the template | retries, registrations and resets that sleep are never cancelled; a replaced socket still delivers its events | a lost connection comes back; a stopped station stays offline; the intervals end with the connection |
| Simulator: OCPP 2.0, authorization, reservations, charging profiles, UI server, workers, configuration | caches, tables of variables, pools of workers | see `PROJECT.json` | counting the answers of many stations; expiries | not modelled |
| Documents, vehicles, roles, authentication, audit, tariff, reports, web pages | one row per request | CRUD | none that spans requests | left to the tests of the repository |

How they interact. A charge point opens a WebSocket to the gateway and sends CALLs; the
gateway posts each one to Laravel and answers the charge point once the post ended, well
or not. Laravel posts commands to the gateway, which writes them to the socket of the
charge point and holds the HTTP request until the answer, or for 20 s. The stop of a
charge closes its session, issues its invoice and settles it from the wallet of the
customer, in one PHP request; staff and customers act on the same rows at the same time
through the REST API. PHP processes share only the database, and the handlers of the
gateway share the memory of one Node process, where they interleave at each `await`.

## 2. Modules

| Module | Models | Variables | Code |
|---|---|---|---|
| `Paiements` | payments and wallet | `solde`, `journal`, `statut`, `echeance`, `paiements`, `cartes`: the tables; `req`: what each PHP process is in the middle of; `servies`: requests served (bound) | `PaiementService.php`, `PasserelleCarteSimulee.php`, controllers |
| `Compte` | abstract account: what a wallet promises | `avoir`, `releve` | migration and `WalletController` |
| `CycleFacture` | abstract life of an invoice | `etat`, `encaisse` | `PaiementService` |
| `CentralSystem` | the gateway | `connections`, `pendingCommands`, `minuteries`; sockets, wires, commands, CALLs, disconnect notices; `etatBorne`, the status in Laravel | `server.js`, `ocppHandlers.js` |
| `Recharges` | a charge from its start to its invoice, across charge point, gateway and Laravel | `charge`: what the charge point knows; `envois`: posts under way; `sessions`, `factures`; `proc`: PHP processes that issue invoices | `Simulateur.tsx`, `ocppHandlers.js`, `OcppIngestController.php`, `FacturationService.php` |
| `Tampon` | how a station sends a message, and its buffer | `ws`, `registration`; `remplaces`: sends on a replaced socket; `messageQueue`, `flushing`, `boucle`: the runs of the flush; `ecriture`, `promesse`, `requests`: a send, its caller and its callbacks; `ecrits`, `repondus`, `expires`: history | `OCPPRequestService.ts`, `ChargingStation.ts` |
| `Generateur` | the transaction generator on one connector | `start`, `controleur`, `etape`: where each run of the loop is, `avortee`: aborted runs, `transaction` | `AutomaticTransactionGenerator.ts` |
| `Transactions` | the transactions of one connector | the connector and the marks that an authorization leaves on it, `powerDivider`, `minuterie`, `serveur`: transactions open at the server, `etape`: where each flow is, `avant`: the order of the calls | `OCPP16ResponseService.ts`, `OCPP16IncomingRequestService.ts`, `OCPP16ServiceUtils.ts`, `OCPP16AuthAdapter.ts`, `OCPPServiceOperations.ts`, `OCPPConnectorStatusOperations.ts` |
| `Station` | the life of a station and its connection | `started`, `stopping`, `readyState` and `wsConnection`, `wsConnectionRetryCount`, `reprises`: retries that sleep, `registration`, `ouverture`: registration loops, `minuteries`, `remise`: resets | `ChargingStation.ts`, `ChargingStationWorkerBroadcastChannel.ts` |
| `MC...` | the instances TLC checks | | |
| `...Preuves` | theorems and proofs, one module for each model above (the two abstract ones have their refinements proved with `Paiements`); `PaiementsAppariementPreuves` goes on from `PaiementsPreuves` | | |

The four simulator modules cut one station along its state: `Station` gives the connection
that `Tampon` takes as its environment (`Connecter`, `Ouvrir`, `Fermer`), `Tampon` the calls
that `Transactions` awaits, and `Transactions` the transactions that the loop of
`Generateur` starts and stops. They are not composed: each takes the others as an
environment that may do at any moment what the code lets it do.

### How actions correspond to the code

*Paiements.* A request is cut where another one can come in between: the read of the
route-bound model (`LireFacture`, `LirePaiement`, `LireEcriture`), then its database
transaction, which is one action (`ReglerFacture`, `Rembourser`, `AnnulerRechargement`).
The top-up by card is `RechargerAccepte`, then the loop over the unpaid invoices
(`ListerImpayees`, `ExaminerSuivante` up to the check of the balance, `PayerSuivante` for
the settlement), then the answer. A transaction is atomic because every movement takes
`lockForUpdate` on its wallet (MySQL) or the lock of the database (SQLite, the default of
`.env.example`); the "database is busy" error is not modelled. Checks made on a model that
was loaded *before* the transaction are taken on the value read then.

*CentralSystem.* Node runs one callback at a time, so each callback, or the part of one
up to an `await`, is one action: `Connexion`, `Fermeture`, `Commander`, `Delai`,
`RecevoirReponse`, `TraiterAppel`, `Ingerer`, `Acquitter`. The charge point and the wire
are external actions: commands are received, answered in any order or never, and the
connection may be cut at any moment, long before the gateway sees the close.

*Recharges.* The charge point starts, measures, stops, and gives up on a CALL that gets no
answer (`Abandonner`), after which the customer may start or stop again. Posts are a set,
so Laravel handles them in any order; `Perdre` and the second half of `RepondreStart` are
the posts that fail. `Terminer` is `stopTransaction` up to the invoice; `Chercher`,
`Numeroter` and `Inserer` are the three points of `emettrePourSession` where another
process can come in: the look-up of the invoice, the read of the last number, and the
insertion against the unique keys. `Generer` is the catch-up of staff, which runs the same
three steps for each missing session. The load and the save of a session in one handler
are one action: Eloquent writes only the columns that changed, and no other handler writes
those columns from a value it read.

*Simulator.* A worker of the simulator runs one callback at a time, so an action is what
runs between two points where the code awaits or sleeps.

*Tampon.* `Envoyer` and `EnvoyerHorsLigne` are `internalSendMessage` up to `ws.send`, or up
to the refusal of a station that is not connected; the callback of the send (`EnvoiReussi`,
`EnvoiEchoue`), its timer (`DelaiDEnvoi`), the answer of the
server (`RecevoirResultat`, `RecevoirErreur`) and the end of its handler are steps of their
own. `flushMessageBuffer` and `sendMessageBuffer` are a chain of sends and pauses
(`VidageReussi`, `VidageEchoue`, `VidageReprend`). A connection that is lost takes the
answers under way with it. `EnvoiPermis` is the condition under which a station that is not
accepted may send: a station without strict compliance (`ocppStrictCompliance`) whose
registration is unknown, or a CALL that the server asked for (`Declenches`). `Connecter`
replaces a socket at once, while a send of the flush is still to be called back on the old
one (`remplaces`). Bound (`RienEnEcriture`): the first send of a message is called back
before its socket is replaced.

*Generateur.* `Demarrer`, `Arreter`, `Recharger` and the commands of a connector start runs
of the loop and abort their sleeps; `Commencer`, `Sommeil` and `Reponse` are the steps of a
run. A run whose sleep was aborted resumes in the microtasks that follow, before anything
else (`Calme`).

*Transactions.* A start is `Demander`; its authorization, by the list or the cache
(`AutoriserLocalement`) or by the server (`authorizeRemote`, which names the id tag on the
connector before it asks, and `ReponseAutorisation`); `Preparer`, `Prepare`,
`ReponseDepart`, the meter values of the beginning (`DebutMesure`) and `ChargeAnnoncee`. A
stop is `DemanderArret`, `Finissant`, the meter values of the end (`FinMesure`),
`ReponseArret`, the delay (`FinDeDelai`, `FinDeDelaiArretee` when the station was stopped
meanwhile) and `Libere`. `Echouer` ends a flow in the middle. `NonMarque` and `Incompatible`
are the four checks that make `handleResponseStartTransaction` reset the connector before it
looks at what runs there; they read the marks of the *connector*, which another start may
have left. Some constants are settings of the station: which starts the server asks for
(`Distants`) and which are authorized first (`Autorises`), how (`Methodes`),
`LocalAuthListEnabled`, `beginEndMeterValues`, `forceTransactionOnInvalidIdToken`, and
whether there is a delay after a transaction (`Delai`). The others say what surrounds it:
`Ordonne` (the server answers in order), `DepartSeul` (an authorized start shares the
connector with no other: `Seul`), `ArretSeul` (no two stops of one transaction overlap) and
`Pannes` (calls may fail, and the station may be stopped). Left out: reservations, EVSEs with
several connectors, and `outOfOrderEndMeterValues`.

*Station.* `stop` is the part of `ChargingStation.stop` before it awaits, `FinArret` what
follows; `reconnect` is the part before its sleep, `Reconnecter` what follows; `onOpen` and
the `attente`/`boot` steps are the registration loop, which counts, sleeps and goes on when
its BootNotification fails, is answered by an error (`EchecBoot`) or finds no connection
(`FinDAttente`). `Rouvrir` is `openWSConnection`: without `closeOpened`, as `start` calls it,
it keeps a socket that is open. `Fermeture(s, normale)` is the close of
any socket, current or replaced, whose event always reaches `onClose`. Sockets are used again
once they are closed and their loop is over; a call on a socket that closes is never answered,
which ends its loop.

### Abstractions

* Money is a number of whole millimes; the margin of half a millime in the check of the
  balance changes nothing on whole millimes. VAT and discount are folded in the amount.
* A price of 1 per Wh and a meter that starts at 0: the properties compare prices and
  energies, never their ratio.
* "abonnement" as a means of payment takes the same path as "carte".
* Answers that change nothing (404, 401, 403, 422 of a validation) are not modelled, nor is
  the deletion of a customer account.
* In `CentralSystem`, two genres of CALL stand for those that only post and answer; the
  ones that carry a session are in `Recharges`.
* The year of an invoice number is left out: one year is modelled. The order of the column
  is modelled as the order of strings (`Ordre`), which is not that of numbers.
* The sessions of a stranger (a badge without an account) are `Anonymes`.

## 3. Runs

All run to the end on their instance. "violation" runs show where the code does not do
what a comment or a test of the repository says.

| Run | Instance | Question |
|---|---|---|
| `paiements_concurrent` | 1 customer, 2 invoices (2 and 1), 2 processes, 5 requests, amounts 2, at most 2 credited at once | Whatever two requests do at the same time, does the ledger chain up to the balance (`SoldeSuitJournal`), is it append-only (`JournalIntact`), do status and payments agree (`StatutJustifie`), do debits match settlements and reversals their top-ups (`EcrituresAppariees`), does the wallet implement `Compte`? |
| `paiements_serie` | 2 customers, 3 invoices (1 and 3; 0), 1 process, 5 requests, amounts 1 and 3 | Served one at a time, is nothing paid, refunded or reversed twice (`UneSeuleFois`), does each invoice follow `CycleFacture`, is each request answered? |
| `central_commandes` | 2 charge points, 2 sockets, 2 commands, 1 CALL | Is a command answered exactly once, by the right charge point, on the newest socket, and every CALL acknowledged? |
| `recharges_fiables` | 3 charges, 1 of a stranger, 1 process, 2 Wh, no incident | On a network that loses nothing, is each session invoiced, faithfully, and only when it should? |
| `recharges_concurrentes` | 2 charges, 2 processes, lost posts, timeouts, 2 tries, a fallback id that is a real session | Is the numbering continuous and no session invoiced twice (`FacturationUnique`), and none passed over? |
| `tampon_envois` | 1 CALL that is buffered, 1 CALLRESULT, 1 CALL that is not, 2 runs of the flush, 1 connection lost; no strict compliance, the CALL is one that the server asked for | Is what is buffered neither lost nor sent out of its turn, sent twice only after a timeout, is a caller that waits answerable (`TamponCoherent`), is the buffer emptied in the end? |
| `generateur_boucles` | 2 runs of the loop | Is there one live run per connector, does a connector shown as started have it, is every transaction watched by its run, does a stop end every run? |
| `transactions_desordre` | 3 starts, 2 of them remote and authorized by the list or by the server, 2 stops, answers in any order, failures, a delay | Does the station ever charge or measure on a transaction the server does not know (`TransactionConnue`), or replace a running one? |
| `transactions_ordre` | 3 starts, 1 of them remote and authorized, 3 stops, meter values at the beginning and the end, `LocalAuthListEnabled`, refused tags charge; answers in order, no failure, one stop at a time, an authorized start shares with no other | At rest, are `powerDivider` and the meter value intervals exact, and does a stop release the connector? |
| `station_connexion` | 2 sockets, no limit of the retries (the default), 2 retries that sleep at once, 1 reset, 1 more try of the registration | Does the retry of a lost connection survive every stop, reset, retry and command that overlaps it (`RepriseAssuree`), does a stopped station stay offline, do the intervals end with the last socket, does a lost connection come back? |

| Violation run | What it shows |
|---|---|
| `double_reglement` | Two overlapping settlements both find the invoice unpaid and the customer pays twice (`PaiementService.php:35`). Overlapping refunds of one payment (`:125`) and overlapping cancellations of one top-up (`:214`) fail in the same way: `UneSeuleFois` holds in `paiements_serie` and is violated as soon as there are two processes. |
| `transactions_puissance` | Two stops of one transaction overlap: each answer decrements `powerDivider`, which reaches zero while another connector charges (`OCPP16ResponseService.ts:614`), a state that `OCPPServiceUtils.ts:1481` treats as an error. |

Each violation run stands for one weakness. Others that were met while modelling, and that
no run looks at, are listed in Section 5.

Why the bounds are enough. The faults looked for need two requests on one row: two
processes and one customer make them meet, five requests let an invoice be issued, settled,
refunded and settled again beside a movement of the wallet. Two sockets of one charge point
are needed for a late close, two commands for an answer to be mistaken for another. Two
tries of two charges give a stop that is repeated, a start that is repeated, two sessions
to number and two processes that serve them. The counters (`servies`, `essais`, `compteur`)
are bounded by constants in the guards; `Epuise` is the stutter of a model that used all of
them, so that TLC still finds real deadlocks. Each mutant is detected on its run, which
shows that the case each property is about does occur there.

In the simulator, two runs of the flush, of the loop or of a retry are what it takes for one
to act on the state of the other; two sockets are the current one and one that was replaced;
three starts let one be answered after a second took the connector and a third was refused.
`PuissanceExacte` needs the restrictions of `transactions_ordre`: with answers out of order,
overlapping stops, a call that fails, or an authorized start that shares the connector with
another (an id tag mismatch), the share of the power is not restored, as
`transactions_puissance` shows for one of them. `transactions_desordre` has no such
restriction. In `Station` the count of the
retries matters only as zero or not when there is no limit, and a
retry planned while `MaxReprises` others sleep is not followed: fewer retries make
`RepriseAssuree` and `ReconnexionAboutit` harder to keep, and `RepriseAssuree` is proved for
any bound.

Fairness. A PHP process that accepted a request runs to its end, and one that is idle takes
the posts that reach it; a Node timer fires, a handler that was called runs on, and a post
ends, well or not, since `fetch` gives up. Nothing is asked of charge points, networks,
customers and staff of these modules: they may stop at any moment. In the simulator, sleeps
and timers end and `ws` calls back each send. Three properties also assume something of the
server, because nothing in the simulator times out a CALL that was written: `VidageAboutit`
(a registration is accepted in the end), the two `ArretAboutit` (the calls of a loop or a
flow are answered, in error or not, and a loop takes its turn among the others: strong
fairness) and `ReconnexionAboutit` (of the handshakes tried again and again, one
succeeds: strong fairness).

## 4. Proofs

Checked by TLAPS for every value of the constants (any number of customers, invoices,
charge points, processes...), from the assumptions named in each module (`HypPaiements`,
`BouclesAssumption`, `StationAssumption`...), which say what kind of values the constants are,
and from the hypotheses that some theorems state (`ASSUME EnSerie`, `SansDelai`, `Paisible`).

* `PaiementsPreuves`: `IInv == TypeOK /\ RequetesValides /\ SoldeSuitJournal /\
  StatutJustifie` is inductive. `RequetesValides` (what a request in the middle of its work
  holds really exists) is needed because requests act on what they read earlier.
  Consequences: no wallet is ever negative, the balance is always what the ledger adds up
  to, the status of an invoice never contradicts its payments, rows of the ledger never
  change, and the wallet implements `Compte` (initial states and every step).
* `CentralSystemPreuves`: `IInv == TypeOK /\ PrisesOuvertes /\ Connexions /\
  DerniereConnexion /\ AttenteExacte /\ Routage` is inductive. Sockets are numbered in the
  order they open (`PrisesOuvertes`), which is what makes "the newest one" survive the
  closes; `Routage` follows a command from its request to the charge point that had it, and
  gives `IssueFiable`.
* `RechargesPreuves`: `IInv == TypeOK /\ NumerotationContinue /\ UneFactureParSession /\
  Plafond /\ NumerosReclames /\ ArticlesJustifies /\ FactureJustifiee` is inductive. A
  process computes a number now and inserts it later, so `NumerosReclames` says that the
  number it holds is at most the next one; the unique key then leaves only the next one.
  `Plafond` is part of the argument: past `Capacite` (1 000 000) the order of strings is not
  that of numbers, the computed number is always taken, and `JamaisAuDela` proves that no
  invoice can be issued any more that year. It needs a base of at least 3 that divides
  `Capacite`, which 10 and 1 000 000 satisfy. `RienNEstJamaisSaute` proves the action
  property of the catch-up.

* `TamponPreuves`: one flush at a time, with its message still at the head of the queue
  (`TeteEnCours`); a message leaves the queue only from its head, because it was just written
  (`SeulLEcritSort`); a promise that was rejected left its message in the buffer or written
  (`RienDePerdu`, which needs that a handler only runs for a message that was written); a
  caller that waits has its send under way or its callbacks kept (`PromesseReglable`).
* `GenerateurPreuves`: `Vivantes == TypeOK /\ UneBoucleVive /\ DemarreTourne` is inductive:
  that the run which owns the controller is the only live one, and that a started connector
  has it, are each what keeps the other true. `SansLaisse` needs the types only.
* `TransactionsPreuves`: `Enregistrement` adds to `TransactionConnue` that a connector with a
  transaction id has a started transaction; from there no start ever replaces a transaction.
  These theorems hold for every value of the settings, whatever the answers, authorizations
  and failures; a station set to charge on a refused id tag
  (`forceTransactionOnInvalidIdToken`) does so, and `EnregistreeOuverte` leaves it out.
* `StationPreuves`: `Inv == RepriseAssuree /\ AppelPortable /\ SansSocketSansMinuterie` is
  inductive with the types. `AppelPortable` (a registration waits only on a socket that can
  still answer) is what keeps an answer from starting the intervals after the last socket was
  closed. `RepriseAssuree` holds for any limit of the retries: it is the close of the
  *current* socket that decides, and a retry that wakes in a running station always replaces
  that socket.

Each safety invariant that a passing run checks is a theorem, and so is each action property
and each refinement. Those of the next group count rows or need to know more of what requests
hold, and some are true only of some environments.

* *Duplicates* (`DoublonToujoursExplique`, any messages and cuts). `Budget` bounds what was
  written of a message plus what may still be: its copies in the queue, and its first send as
  long as it has not called back. The bound is 1 until that send times out, 2 afterwards. It
  needs the counting of the places of a message in a sequence when one is appended or the head
  is removed (`Copies`), which the first lemmas establish.
* *Matching of debits and settlements* (`EcrituresToujoursAppariees`, any number of overlapping
  processes). Every step does one of three things to the ledger and the payments
  (`PasReglement`, `PasRemboursement`, `PasAnnulation`), or nothing that matters. `Effets`
  classifies the actions once, and each half of the property is shown against the effects.
* *Once and only once* (`ToujoursUneSeuleFois`, `CycleFactureImplemente`), assuming `EnSerie`:
  there is at most one process. What a request read is then still the case when it acts
  (`RequetesFraiches`): an invoice read unpaid is unpaid, a payment read as received is, a
  top-up not yet cancelled is not. `Serie` adds that no invoice has two receipts, that each
  refunded wallet payment has one row, and each cancelled top-up one reversal. The refinement of `CycleFacture`
  follows. `double_reglement` shows that this fails with two processes.
* *How far it can fail* (`ReceptionsBornees`, any finite number of processes): an invoice is
  received at most once per process. `ReceptionsComptees` counts, with the receipts of an
  invoice that is no longer unpaid, the requests that were told before that it is: each
  receipt uses one up and no step adds one. So a double settlement comes only from requests
  that overlap the first, whatever happens later (refunds included).
* *Faithful amounts* (`ToujoursFidele`, any number of PHP processes, whatever posts fail),
  assuming `SansDelai` (no CALL times out) and as long as `IdsLibres` (no id that the gateway
  made up is that of a session). `EchangeUnique` (a charge has at most one start or stop under
  way, the one its state says), `Titres` (the ids in use were made up, or are those of open
  sessions that the charge itself opened) and the prices that processes carry in their lists
  (`ArticlesFideles`) make up `Fidele`. Both hypotheses are needed, as TLC shows: a stop that
  was given up, sent again, and handled after the second one closes an invoiced session anew,
  at another price; so does the stop of a charge whose made-up id is somebody else's.
* *Every session invoiced* (`SessionToujoursFacturee`, whatever is lost, given up or repeated),
  assuming one process (`EnSerie`) and as long as there are at most `Capacite` sessions:
  beyond, `JamaisAuDela` proves that no invoice can be issued. `Complet` says that a closed
  session without an invoice is in the list of the process, and that the number it holds is
  exactly the next one, so that the insertion cannot fail. With two processes, one takes the
  number of the other and the session waits for the next catch-up (Section 5).
* *The share of the power and the meter values* (`PuissanceToujoursExacte`,
  `MesuresToujoursExactes`, `PuissanceToujoursUtilisable`; any number of starts and stops and
  every value of the settings), assuming `Paisible`: answers in order, no failure and no stop
  of the station, one stop of a transaction at a time, and an authorized start, by the station
  or by the server, shares the connector with no other (`DepartSeul`), or else no id tag is
  authorized at all. `DepartJuste` says that while an authorization marks the connector, the
  start under way is alone and the connector has no transaction, so that the resets of
  `NonMarque` and `Incompatible` end nothing. `ArretJuste` says that at most one stop is under
  way, that it names the transaction of the connector, and that a start which still announces
  its charge is ahead of it, so that its answer comes first; `Ordonnees` gives from there the
  exact value of `powerDivider`, of the interval and of the status at every step, at rest or
  not. Each of the four hypotheses is needed: TLC finds `PuissanceExacte` violated as soon as
  one of them alone is dropped from `transactions_ordre`, and, for the last one, even when
  every id tag is authorized by the server only. `PuissanceUtilisable`, which
  `transactions_puissance` refutes, is thus proved for a station where all four hold.

Only model-checked: the liveness properties (`RequeteAboutit`, `ToutRepondu`,
`VidageAboutit`, the two `ArretAboutit`, `ReconnexionAboutit`), which are beyond the prover.

## 5. Known weaknesses, and what is not modelled

Weaknesses of the code met while modelling. The models contain the behaviour (their
properties are stated so as to hold with it) but no run is spent on each.

* The late close of a replaced socket shows a connected charge point as disconnected
  (`server.js:184`).
* A card that was accepted and credited is answered 422 when the balance is spent between the
  check and the settlement (`PasserelleCarteSimulee.php:68`).
* Two processes may claim one invoice number; the unique key saves the numbering, and the
  session of the loser has no invoice until the next catch-up (`FacturationService.php:50`).
* A MeterValues handled after the stop leaves a closed session whose energy and price disagree
  (`OcppIngestController.php:149`); a stop whose post fails is never repaired
  (`ocppHandlers.js:98`); the fallback id of the gateway can be the id of somebody else's
  session (`ocppHandlers.js:87`).
* `ws.send` throws while the socket is CONNECTING, and the flush then never runs again
  (`ChargingStation.ts:2778`); the flush interval clears itself while the connection is down
  and is set again only by the next message that is buffered (`:2822`). `VidageAboutit` says
  what is left.
* A generator told to stop during the delay before a transaction still starts that
  transaction (`AutomaticTransactionGenerator.ts:367`), then stops it.
* An id tag mismatch resets a connector that charges: the answer to an older start finds on
  the connector the tag that the list, the cache or the server authorized for a newer one.
  The transaction stays open at the server and its share of the power is never returned
  (`OCPP16ResponseService.ts:350`).
* With a local authorization list enabled, a remote start that only the server authorized is
  always reset when its StartTransaction is answered (`OCPP16ResponseService.ts:311`).
* A station stopped during the delay after a transaction leaves the connector started, with
  no transaction id (`OCPP16ResponseService.ts:603`).
* A station that stays accepted through a reconnection sends no boot notification, so its
  heartbeat and its generator, stopped by the close, are not started again, and the count of
  its retries is not reset: with a limit, that many cuts, however far apart, and the station
  gives up (`ChargingStation.ts:2357`, `2524`, `2585`).
* `stop` does not close a socket that is still CONNECTING: it then opens, registers and serves
  a station that is stopped (`ChargingStation.ts:1273`, `362`). The answer to a boot
  notification that arrives after the stop leaves the registration accepted, and the next
  start does not register.
* A reset that wakes during a stop asked for by somebody else finds the station "already
  started", and the station then stops for good (`ChargingStation.ts:1066`, `1190`).
* A reload of the template while the station is not connected starts intervals that only the
  next close stops (`ChargingStation.ts:1169`).

Not modelled: what Section 1 leaves to the tests of the repository; file storage; in the
simulator, the OCPP 2.0 services (the gateway speaks 1.6 only), the authorization strategies
and their cache, reservations, availability, charging profiles and the content of meter
values, the servers of the user interface, the worker pools, configuration files and
statistics. Most of those lines are tables, schemas, validation and formatting, which have no
state to explore; the part of them that has (reservations that expire, the counting of the
answers of many stations by `UIServiceWorkerBroadcastChannel`, the worker pools) would each be
a module beside `Station`.

Left of the plan, in this order:

1. `Bornes`: status, connectors, alerts and tickets of a charge point in the back office. Two
   notifications that each write the whole JSON of connectors, alerts checked before they are
   inserted, tickets whose fault a notification wipes.
2. `Firmware`: deployments against the commands of `CentralSystem`, with an abstract
   specification "one update at a time per charge point" that it implements when requests
   come one at a time; `Abonnements` in the same form.
3. `PointDeCharge`: the socket of the browser charge point, closed and opened again while
   calls wait, and the steps before the start.
4. The composition of `Station` with `Tampon`, where the two sockets of the first decide which
   sends of the second are refused.
5. Proofs: bounds like `ReceptionsBornees` for the refunds and the reversals; which of the four
   hypotheses of `Paisible` `PuissanceUtilisable` alone can do without; an abstract
   specification of the numbering that `Recharges` implements.
