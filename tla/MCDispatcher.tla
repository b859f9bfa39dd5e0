---------------------------- MODULE MCDispatcher ----------------------------
(* Two posting threads, three ordinary tasks (one of them expiring) and the *)
(* task that closes the game.                                              *)
EXTENDS Dispatcher
=============================================================================
