SPECIFICATION Spec
CONSTANTS
  Threads = {t1}
  MaxInstalls = 1
  MaxMessages = 2
INVARIANTS
  InstalledHandlerReached
