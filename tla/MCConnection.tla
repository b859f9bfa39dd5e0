---------------------------- MODULE MCConnection ----------------------------
\* Two messages to the client, two packets from it.
EXTENDS Connection
=============================================================================
