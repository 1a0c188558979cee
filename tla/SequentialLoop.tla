--------------------------- MODULE SequentialLoop ---------------------------
(***************************************************************************)
(* What libyarn promises of a loop: whatever the threads do, the memory    *)
(* goes through the states of the loop run by one thread, one iteration at *)
(* a time.                                                                 *)
(***************************************************************************)
EXTENDS Naturals

CONSTANTS
  Addr,        \* the addresses the loop works on
  Initial,     \* their value before the loop
  Iterations,  \* how many iterations the loop has
  Run(_, _)    \* Run(i, m): the memory m after iteration i

VARIABLES
  iteration,   \* the next iteration
  memory       \* the memory before it

vars == <<iteration, memory>>

Init ==
  /\ iteration = 0
  /\ memory = [a \in Addr |-> Initial]

Next ==
  /\ iteration < Iterations
  /\ iteration' = iteration + 1
  /\ memory' = Run(iteration, memory)

Spec == Init /\ [][Next]_vars

\* ... and every iteration is run.
FairSpec == Spec /\ WF_vars(Next)
=============================================================================
