SPECIFICATION Spec
CONSTANTS
  Boucles = {b1, b2}
  Aucune = Aucune
  Autre = Autre
INVARIANTS TypeOK UneBoucleVive DemarreTourne SansLaisse
PROPERTIES ArretAboutit
CHECK_DEADLOCK FALSE
