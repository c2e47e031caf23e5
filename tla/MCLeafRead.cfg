CONSTANTS
  Width = 3
  Procs = {p, q}
  Leaves = {A, B, C}
  First = A
  Layers = {L0, L1}
  RootLayer = L0
  None = None
  Keys <- MCKeys
  Scenes <- MCScenes
SPECIFICATION Spec
INVARIANT ReadsLinearizable
INVARIANT LockedFindExact
CHECK_DEADLOCK FALSE
SYMMETRY Symmetry
