--------------------------- MODULE MCReaderListener ---------------------------
\* ReaderListener for TLC: the threads are model values.
EXTENDS ReaderListener
=============================================================================
