SPECIFICATION Spec
CONSTANTS
  Departs = {d1, d2, d3}
  Arrets = {a1, a2, a3}
  Aucun = Aucun
  Autres = 1
  Distants = {d3}
  Autorises = {d3}
  Methodes = {"locale", "distante"}
  LocalAuthListEnabled = TRUE
  beginEndMeterValues = TRUE
  forceTransactionOnInvalidIdToken = TRUE
  Delai = FALSE
  Ordonne = TRUE
  DepartSeul = TRUE
  ArretSeul = TRUE
  Pannes = FALSE
INVARIANTS PuissanceExacte MesuresExactes
PROPERTY ArretAboutit
CHECK_DEADLOCK FALSE
