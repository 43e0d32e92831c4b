SPECIFICATION Spec
CONSTANTS
  t1 = t1  t2 = t2  t3 = t3  q1 = q1  q2 = q2
  Charges = {t1, t2, t3}
  Anonymes = {t3}
  Processus = {q1}
  Incidents = {}
  IdsLocaux = {}
  Base = 10
  Capacite = 1000000
  MaxEssais = 1
  MaxWh = 2
INVARIANTS SessionFacturee FactureFidele
