SPECIFICATION Spec
CONSTANTS
  m1 = m1  m2 = m2  r1 = r1  n1 = n1
  Appels = {m1}
  Declenches = {m1}
  Resultats = {r1}
  SansTampon = {n1}
  ocppStrictCompliance = FALSE
  Boucles = {1, 2}
  MaxCoupures = 1
INVARIANTS TypeOK TamponCoherent DoublonApresDelai
PROPERTIES SeulLEcritSort VidageAboutit
CHECK_DEADLOCK FALSE
