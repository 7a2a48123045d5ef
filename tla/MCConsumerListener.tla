-------------------------- MODULE MCConsumerListener --------------------------
\* ConsumerListener for TLC: the threads are model values.
EXTENDS ConsumerListener
=============================================================================
