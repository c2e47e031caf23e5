SPECIFICATION Spec
SYMMETRY Symmetric
CONSTANTS
  t1 = t1
  t2 = t2
  a = a
  b = b
  c = c
  s = s
  NoLeaf = NoLeaf
  Threads = {t1, t2}
  Leaves = {a, b, c}
  First = a
  Scans = {s}
  MaxKey = 3
INVARIANTS
  ScansComplete
