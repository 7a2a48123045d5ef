--------------------------- MODULE MCTokenSupplier ---------------------------
\* TokenSupplier for TLC: two Clients share the Authentication, and one of
\* them has two threads that make connections.
EXTENDS TokenSupplier, TLC

CONSTANTS c1, c2, t1, t2, t3

TwoClients == {c1, c2}
ThreeThreads == {t1, t2, t3}
SharedAuthentication == t1 :> c1 @@ t2 :> c1 @@ t3 :> c2

\* One client with two threads: the one of the reader's connection and another,
\* each of which may be in TokenSupplier or free.
OneClient == {c1}
TwoThreads == {t1, t2}
OneClientOf == t1 :> c1 @@ t2 :> c1
=============================================================================
