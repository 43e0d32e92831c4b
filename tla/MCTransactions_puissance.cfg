SPECIFICATION Spec
CONSTANTS
  Departs = {d1, d2}
  Arrets = {a1, a2}
  Aucun = Aucun
  Autres = 1
  Distants = {}
  Autorises = {}
  Methodes = {"locale", "distante"}
  LocalAuthListEnabled = FALSE
  beginEndMeterValues = FALSE
  forceTransactionOnInvalidIdToken = FALSE
  Delai = FALSE
  Ordonne = TRUE
  DepartSeul = TRUE
  ArretSeul = FALSE
  Pannes = FALSE
INVARIANTS PuissanceUtilisable
CHECK_DEADLOCK FALSE
