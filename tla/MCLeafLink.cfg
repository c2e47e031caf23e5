SPECIFICATION LinkSpec
CONSTANTS
  t1 = t1
  t2 = t2
  t3 = t3
  a = a
  b = b
  c = c
  d = d
  NoLeaf = NoLeaf
  Threads = {t1, t2, t3}
  Leaves = {a, b, c, d}
  First = a
  Scans = {}
  MaxKey = 3
INVARIANTS
  WalkFindsLeaves
  BackLinksExact
PROPERTIES
  ImplementsList
  OperationsFinish
