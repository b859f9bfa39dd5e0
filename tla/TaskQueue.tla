------------------------------ MODULE TaskQueue ------------------------------
(***************************************************************************)
(* What the dispatcher promises to the threads that post tasks to it: one  *)
(* queue, every task taken at most once, in the order in which addTask     *)
(* accepted them.  Dispatcher.tla implements this specification.           *)
(***************************************************************************)
EXTENDS Naturals, Sequences

CONSTANT Task           \* every task that may be posted

VARIABLES accepted,     \* the tasks the queue took, oldest first
          processed     \* the tasks the worker is done with, oldest first

vars == <<accepted, processed>>

Init == accepted = <<>> /\ processed = <<>>

Accept(t) ==
  /\ \A i \in 1 .. Len(accepted) : accepted[i] # t
  /\ accepted' = Append(accepted, t)
  /\ UNCHANGED processed

Process ==
  /\ Len(processed) < Len(accepted)
  /\ processed' = Append(processed, accepted[Len(processed) + 1])
  /\ UNCHANGED accepted

\* A task may post another one while it runs.
ProcessAndAccept(t) ==
  /\ \A i \in 1 .. Len(accepted) : accepted[i] # t
  /\ Len(processed) < Len(accepted)
  /\ processed' = Append(processed, accepted[Len(processed) + 1])
  /\ accepted'  = Append(accepted, t)

Next == Process \/ \E t \in Task : Accept(t) \/ ProcessAndAccept(t)

Spec == Init /\ [][Next]_vars
=============================================================================
