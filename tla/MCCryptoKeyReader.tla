-------------------------- MODULE MCCryptoKeyReader --------------------------
\* CryptoKeyReader for TLC: a client with two threads, the one whose answer the
\* main thread needs and another, each of which may wait for a key or be free.
EXTENDS CryptoKeyReader, TLC

CONSTANTS t1, t2

TwoThreads == {t1, t2}
=============================================================================
