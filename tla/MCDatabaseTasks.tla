--------------------------- MODULE MCDatabaseTasks --------------------------
\* Three queries, one of them with a callback.
EXTENDS DatabaseTasks
=============================================================================
