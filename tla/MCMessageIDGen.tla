--------------------------- MODULE MCMessageIDGen ---------------------------
EXTENDS MessageIDGen

\* A little more than two seconds of clock readings.
Readings == 0 .. 26
=============================================================================
