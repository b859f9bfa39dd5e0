----------------------------- MODULE MCWaitList -----------------------------
\* Four characters, one premium and one game master, for two places.
EXTENDS WaitList
=============================================================================
