SPECIFICATION Spec
CONSTANTS
  Threads = {t1}
INVARIANTS
  NoUseAfterDeletion
