\* One contract, two validations and two requests at a time, one address out
\* of the allowlist. The run ends when its bounds are used.
SPECIFICATION Spec
CONSTANTS
  Contrats = {k1}
  Saisies = {s1, s2}
  Taches = {t1, t2}
  Clics = {r1, r2}
  Adresses = {a, b}
  Allowlist = {a}
  Aucun = Aucun
  MAX_MODIFS = 1
  MAX_CLICS = 2
  MAX_FICHES = 1
  MAX_LIGNES = 1
SYMMETRY Symetrie
INVARIANTS TypeOK UnVerdict PreuveDEnvoi UnSeulMail EffacementTenu
CHECK_DEADLOCK FALSE
