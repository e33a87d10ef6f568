SPECIFICATION Spec
CONSTANTS
  Ids = {c1, c2, c3}
  Names = {n1, n2}
  Transactions = {t1, t2}
  Sources = {food}
  SourceOf <- AllFood
  Requests = {r1, r2, r3}
  None = None
SYMMETRY Alike
CHECK_DEADLOCK FALSE
INVARIANTS
  ReferencesExist
PROPERTIES
  EffectiveStable
