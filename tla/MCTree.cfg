CONSTANTS
  Procs = {p, q, r}
  Nodes = {1, 2, 3, 4, 5, 6, 7, 8, 9, 10, 11, 12}
  None = 0
  Keys = {1, 2, 3, 4, 5, 6, 7, 8, 9}
  LeafWidth = 2
  InternodeWidth = 2
  Scenes <- MCScenes
SPECIFICATION Spec
SYMMETRY Symmetry
INVARIANT RouteExact
INVARIANT ParentFindsChild
INVARIANT TreeAgrees
INVARIANT OnlyGcWaitsDown
CHECK_DEADLOCK FALSE
