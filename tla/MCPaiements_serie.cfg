SPECIFICATION Spec
CONSTANTS
  alice = alice
  bob = bob
  Clients = {alice, bob}
  Factures = {1, 2, 3}
  Titulaire <- DeuxTitulaires
  Ttc <- DeuxTtc
  Montants = {1, 3}
  Plafond = 3
  Requetes = {r1}
  MaxRequetes = 5
INVARIANT UneSeuleFois
PROPERTIES ImplementeCycleFacture RequeteAboutit
