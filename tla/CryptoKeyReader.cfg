SPECIFICATION Spec
CONSTANTS
  t1 = t1
  t2 = t2
  Threads <- TwoThreads
INVARIANTS
  CallsOutlivedByWrapper
PROPERTIES
  KeyCallReturns
  KeyReaderReclaimed
