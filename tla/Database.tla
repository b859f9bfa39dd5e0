------------------------------ MODULE Database ------------------------------
(***************************************************************************)
(* The connection to the database server that the game keeps               *)
(* (Database::getInstance() of database.cpp, database.h): retryQueries,    *)
(* which lets a query that finds the connection lost open a new one and    *)
(* try again, and the transactions, which switch it off.  Only the         *)
(* dispatcher thread uses this connection, so databaseLock never blocks.   *)
(* The server's side is what the code relies on: it undoes an open         *)
(* transaction when its connection is lost, and a statement outside of a   *)
(* transaction lasts at once.                                              *)
(*                                                                         *)
(* Of the data two parts of one player are kept, the row of "players" and  *)
(* the items, each as the version that was written last.                   *)
(***************************************************************************)
EXTENDS Naturals

CONSTANT MaxLosses  \* bound: how often the connection is lost

ASSUME MaxLossesAssumption == MaxLosses \in Nat

Versions == {0, 1}  \* of the player's state, which changes between two saves
Deleted == 2        \* the rows of a part have been deleted

VARIABLES
  retryQueries,   \* Database::retryQueries
  connected,      \* the connection is alive
  inTransaction,  \* the server has an open transaction of this connection
  tables,         \* what lasts: row, items
  work,           \* what the connection sees, tables outside of a transaction
  losses          \* how often the connection was lost

dbVars == <<retryQueries, connected, inTransaction, tables, work, losses>>

DatabaseTypeOK ==
  /\ retryQueries \in BOOLEAN /\ connected \in BOOLEAN
  /\ inTransaction \in BOOLEAN
  /\ {tables, work} \subseteq [row : Versions, items : Versions \cup {Deleted}]
  /\ ~inTransaction => work = tables
  /\ losses \in 0 .. MaxLosses

DatabaseInit ==
  /\ retryQueries = TRUE
  /\ connected = TRUE
  /\ inTransaction = FALSE
  /\ tables = [row |-> 0, items |-> 0]
  /\ work = tables
  /\ losses = 0

\* mysql_real_query succeeds: the statement makes "new" of what is seen.
Statement(new) ==
  /\ connected
  /\ work' = new
  /\ tables' = IF inTransaction THEN tables ELSE new
  /\ UNCHANGED <<retryQueries, connected, inTransaction, losses>>

\* The connection is lost at any time; the server undoes a transaction.
LoseConnection ==
  /\ connected
  /\ losses < MaxLosses
  /\ losses' = losses + 1
  /\ connected' = FALSE
  /\ inTransaction' = FALSE
  /\ work' = tables
  /\ UNCHANGED <<retryQueries, tables>>

\* connectToDatabase with retryIfError, for a query that found it lost.
Reconnect ==
  /\ ~connected
  /\ retryQueries
  /\ connected' = TRUE
  /\ UNCHANGED <<retryQueries, inTransaction, tables, work, losses>>

\* Mutant of BeginTransaction: queries are still retried.
BeginRetrying ==
  /\ connected
  /\ inTransaction' = TRUE
  /\ UNCHANGED <<retryQueries, connected, tables, work, losses>>

\* Database::beginTransaction; START TRANSACTION itself is retried.
BeginTransaction ==
  /\ connected
  /\ retryQueries' = FALSE
  /\ inTransaction' = TRUE
  /\ UNCHANGED <<connected, tables, work, losses>>

\* executeQuery returns false: the connection is lost and must not be opened
\* again, or the server refuses the statement.
QueryFails ==
  /\ connected \/ ~retryQueries
  /\ UNCHANGED dbVars

\* Both ways to end a transaction let queries try again.
EndTransaction ==
  /\ retryQueries' = TRUE
  /\ inTransaction' = FALSE

\* Database::commit: done, or false, the connection lost before it.
Commit ==
  /\ EndTransaction
  /\ tables' = work
  /\ UNCHANGED <<connected, work, losses>>

\* Database::commit is false, but the server did it: the answer is lost.
CommitAnswerLost ==
  /\ connected
  /\ losses < MaxLosses
  /\ losses' = losses + 1
  /\ connected' = FALSE
  /\ EndTransaction
  /\ tables' = work
  /\ UNCHANGED work

\* Database::rollback.
Rollback ==
  /\ EndTransaction
  /\ work' = tables
  /\ UNCHANGED <<connected, tables, losses>>
=============================================================================
