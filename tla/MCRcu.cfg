SPECIFICATION FairSpec
CONSTANTS
  t1 = t1
  t2 = t2
  a = a
  b = b
  Threads <- MCThreads
  Objects <- MCObjects
  Writers = {t1}
  Stoppers = {t1}
  Quiescers = {t2}
  Half = 5
  MaxLag = 0
  FreeCount = 1
  Scenes <- MCScenes
INVARIANTS TypeOK NoUseAfterFree
PROPERTIES EventuallyFreed
