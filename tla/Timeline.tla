------------------------------ MODULE Timeline ------------------------------
(***************************************************************************)
(* What the epochs of libyarn promise to the loop they run: the iterations *)
(* are committed one after the other as the sequential loop would run      *)
(* them, none after the one that breaks, and then the loop is over.        *)
(***************************************************************************)
EXTENDS Naturals

CONSTANTS
  LastEpoch,  \* the iteration in which the sequential loop breaks
  EpochMax    \* how many iterations may be in flight

VARIABLES
  claimed,    \* the iterations below it are or were committed
  retired,    \* the commit of the iterations below it is over
  over        \* the parallel loop returned

vars == <<claimed, retired, over>>

Init ==
  /\ claimed = 0
  /\ retired = 0
  /\ over = FALSE

\* The next iteration in order can no longer be rolled back.
Claim ==
  /\ claimed <= LastEpoch
  /\ claimed < retired + EpochMax
  /\ claimed' = claimed + 1
  /\ UNCHANGED <<retired, over>>

\* The stores of the oldest claimed iteration reached the memory.
Retire ==
  /\ retired < claimed
  /\ retired' = retired + 1
  /\ UNCHANGED <<claimed, over>>

Finish ==
  /\ retired = LastEpoch + 1
  /\ over' = TRUE
  /\ UNCHANGED <<claimed, retired>>

Next == Claim \/ Retire \/ Finish

Spec == Init /\ [][Next]_vars /\ WF_vars(Next)
=============================================================================
