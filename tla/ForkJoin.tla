------------------------------ MODULE ForkJoin ------------------------------
(***************************************************************************)
(* What the thread pool of libyarn promises to the caller of               *)
(* yarn_tpool_exec: the first count workers each run the task once, and    *)
(* the call returns after the last of them, with the news of any failure.  *)
(***************************************************************************)
EXTENDS Integers

CONSTANT Size  \* the workers of the pool

VARIABLES
  running,   \* is a call in progress?
  count,     \* how many workers it uses
  finished,  \* those that ran the task
  failed,    \* those whose run returned false
  outcome    \* what the last call returned

vars == <<running, count, finished, failed, outcome>>

Init ==
  /\ running = FALSE
  /\ count = 0
  /\ finished = {}
  /\ failed = {}
  /\ outcome = TRUE

Fork ==
  /\ ~running
  /\ running' = TRUE
  /\ count' \in 1 .. Size
  /\ finished' = {}
  /\ failed' = {}
  /\ UNCHANGED outcome

Work(w) ==
  /\ running
  /\ w < count
  /\ w \notin finished
  /\ finished' = finished \cup {w}
  /\ failed' \in {failed, failed \cup {w}}
  /\ UNCHANGED <<running, count, outcome>>

Join ==
  /\ running
  /\ finished = 0 .. count - 1
  /\ running' = FALSE
  /\ outcome' = (failed = {})
  /\ UNCHANGED <<count, finished, failed>>

Next == Fork \/ Join \/ \E w \in 0 .. Size - 1 : Work(w)

Spec == Init /\ [][Next]_vars
=============================================================================
