SPECIFICATION Spec
CONSTANTS
  Departs = {d1, d2, d3}
  Arrets = {a1, a2}
  Aucun = Aucun
  Autres = 1
  Distants = {d1, d2}
  Autorises = {d1, d2}
  Methodes = {"locale", "distante"}
  LocalAuthListEnabled = FALSE
  beginEndMeterValues = FALSE
  forceTransactionOnInvalidIdToken = FALSE
  Delai = TRUE
  Ordonne = FALSE
  DepartSeul = FALSE
  ArretSeul = FALSE
  Pannes = TRUE
INVARIANTS TypeOK 
PROPERTIES JamaisRemplacee
CHECK_DEADLOCK FALSE
