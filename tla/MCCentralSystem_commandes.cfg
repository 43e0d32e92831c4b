SPECIFICATION Spec
CONSTANTS
  b1 = b1  b2 = b2  k1 = k1  k2 = k2  a1 = a1
  Bornes = {b1, b2}
  Sockets = {1, 2}
  Commandes = {k1, k2}
  Appels = {a1}
INVARIANTS TypeOK AttenteExacte DerniereConnexion IssueFiable
PROPERTY ToutRepondu
