--------------------------- MODULE MCReceiveWorker ---------------------------
\* ReceiveWorker for TLC.  Among the timeouts is 0, which does not time out.  Two
\* calls run side by side in a pool of two, and one waits for the other in a
\* pool of one.
EXTENDS ReceiveWorker

MCTimeouts == {0, 1}
=============================================================================
