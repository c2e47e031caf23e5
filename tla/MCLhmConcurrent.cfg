SPECIFICATION Spec
CONSTANTS
  NoName = NoName
  NoNode = NoNode
  NoEntry = NoEntry
  NoMeta = NoMeta
  Procs <- MCThreads
  Names <- MCNames
  Hashes = {1, 2, 3}
  Hash <- MCHash
  t1 = t1
  t2 = t2
  TooLong = {}
  Refs = {1}
  MaxDirs = 3
  MaxGen = 2
  MaxBuckets = 2
  Scenes <- MCScenes
INVARIANTS AlwaysReachable AtMostOneName NameFollowsEdge
