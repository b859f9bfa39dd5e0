---------------------------- MODULE MCScheduler ----------------------------
\* Three events, and ids modulo 2: they are 1, 0 and 1 again, so that the id
\* that cannot be stopped and the reused id both occur.
EXTENDS Scheduler
=============================================================================
