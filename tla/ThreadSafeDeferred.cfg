SPECIFICATION Spec
CONSTANTS
  Calls = {c1, c2}
  Methods <- MCAllMethods
INVARIANTS
  SettledAsAnswered
  NeverDecidedTwice
  OwnedWhileUsed
PROPERTIES
  CallsSettle
  NoWriteAfterRelease
  ImplementsAsyncPromise
