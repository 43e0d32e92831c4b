SPECIFICATION Spec
CONSTANTS
  Sockets = {"s1", "s2"}
  Aucun = Aucun
  MaxEssais <- SansLimite
  MaxInscriptions = 1
  MaxReprises = 2
  Remises = {"r1"}
INVARIANTS TypeOK RepriseAssuree SansSocketSansMinuterie
PROPERTIES ArreteeNeConnectePas ReconnexionAboutit
