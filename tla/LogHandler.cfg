SPECIFICATION Spec
CONSTANTS
  Threads = {t1, t2}
  MaxInstalls = 2
  MaxMessages = 3
INVARIANTS
  QuietHandlerBalanced
PROPERTIES
  RetiredHandlerReclaimed
