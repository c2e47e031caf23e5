SPECIFICATION SeqSpec
CONSTANTS
  NoName = NoName
  NoNode = NoNode
  NoEntry = NoEntry
  NoMeta = NoMeta
  Procs <- MCThreads
  Names <- MCNames
  Hashes = {1, 2, 3}
  Hash <- MCHash
  MainThread = t1
  TooLong = {"long"}
  Refs = {1, 2, 3}
  MaxDirs = 3
  MaxGen = 1
  MaxDepth = 3
  MaxBuckets = 3
  Scenes <- MCScenes
INVARIANTS SingleParent ChainsBacked
PROPERTIES ResultExact ImplementsTree 
