SPECIFICATION Spec
CONSTANTS
  t1 = t1  t2 = t2  t3 = t3  q1 = q1  q2 = q2
  Charges = {t1, t2}
  Anonymes = {}
  Processus = {q1, q2}
  Incidents = {"perte", "delai"}
  IdsLocaux = {1}
  Base = 10
  Capacite = 1000000
  MaxEssais = 2
  MaxWh = 0
INVARIANTS TypeOK FacturationUnique
PROPERTY RienNEstSaute
