SPECIFICATION Spec
CONSTANTS
  alice = alice
  bob = bob
  Clients = {alice}
  Factures = {1, 2}
  Titulaire <- UnTitulaire
  Ttc <- UnTtc
  Montants = {2}
  Plafond = 2
  Requetes = {r1, r2}
  MaxRequetes = 5
INVARIANTS TypeOK SoldeSuitJournal StatutJustifie EcrituresAppariees
PROPERTIES JournalIntact ImplementeCompte
