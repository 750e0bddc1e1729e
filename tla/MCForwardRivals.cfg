SPECIFICATION Spec
CONSTANTS
  f1 = f1 f2 = f2 a1 = a1 a2 = a2 t1 = t1 t2 = t2 t3 = t3 d1 = d1 d2 = d2 m1 = m1 m2 = m2
  None = None
  Forwards = {f1}
  Revisions = {1, 2, 3}
  Targets = {t1, t2, t3}
  Shapes = {m1, m2}
  Deletions = {d1, d2}
  Snapshots <- SnapRival
  Actors = {a1, a2}
  Retries = {}
  MaxGen = 2
CHECK_DEADLOCK FALSE
SYMMETRY Sym
INVARIANTS
  ForwardInv
PROPERTIES
  ImplementsContract
