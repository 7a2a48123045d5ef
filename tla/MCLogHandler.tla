----------------------------- MODULE MCLogHandler -----------------------------
\* LogHandler for TLC: the threads are model values.
EXTENDS LogHandler
=============================================================================
