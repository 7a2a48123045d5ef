SPECIFICATION Spec
CONSTANTS
  Threads = {t1, t2, t3}
INVARIANTS
  HoldsBalanced
PROPERTIES
  ListeningReaderLives
  FailedCallbackReclaimed
  ImplementsDelivery
