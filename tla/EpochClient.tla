---------------------------- MODULE EpochClient ----------------------------
(***************************************************************************)
(* The worker threads of libyarn/src/yarn.c (pool_worker_simple) over the  *)
(* ring of epochs, with the loop body and the dependency tracker abstract: *)
(* an execution may roll back any later epochs, may break out of the loop  *)
(* by mistake when an earlier execution is still to roll it back, and may  *)
(* fail.  The sequential loop breaks in the iteration LastEpoch, and every *)
(* later iteration would too.                                              *)
(***************************************************************************)
EXTENDS Epoch, FiniteSets

CONSTANTS
  LastEpoch,     \* the iteration in which the sequential loop ends
  MaxRollbacks,  \* bound of the model: rollbacks the executions start
  LateBreaks,    \* may a break by mistake overlap the rollback of its epoch?
  Errors,        \* may an execution return yarn_ret_error?
  Spurious       \* may pthread_cond_wait return without a signal?

ASSUME LastEpochAssumption == LastEpoch \in Nat
ASSUME MaxRollbacksAssumption == MaxRollbacks \in Nat
ASSUME SwitchAssumption == {LateBreaks, Errors, Spurious} \subseteq BOOLEAN

VARIABLES
  debt,      \* ghost: an epoch that misread what thread t has yet to write,
             \* or 0: the store of t will roll it back
  rollbacks  \* how many rollbacks were started or are owed

vars == <<epochVars, debt, rollbacks>>

Init ==
  /\ EpochInit
  /\ debt = [t \in Thread |-> 0]
  /\ rollbacks = 0

\* The labels of yarn_epoch_do_rollback.
Rolling == {"rollback", "rollback_enter", "rollback_scan", "rollback_flag",
            "rollback_stop", "rollback_stop_cas", "rollback_exit"}

-----------------------------------------------------------------------------
(* pool_worker_simple, and what stands for the loop body.                   *)

\* yarn_dep_rollback and yarn_dep_commit, which leave the epochs alone.
Undo(t) ==
  /\ Goto(t, "undo", "rollback_done")
  /\ UNCHANGED <<status, cursors, rollbackFlag, stop, locks, locals, debt, rollbacks>>

Publish(t) ==
  /\ Goto(t, "publish", "commit_done")
  /\ UNCHANGED <<status, cursors, rollbackFlag, stop, locks, locals, debt, rollbacks>>

\* Does the execution of t break out of the loop when it reads the right values?
Breaks(t) == epoch[t] >= LastEpoch

\* A thread about to stop the loop in an iteration where it should go on.
BreaksByMistake(t) == pc[t] = "stop" /\ ~Breaks(t)

\* Thread t has yet to roll back an execution that misread what t stores, and
\* nobody did in the meantime.
Owes(t) == debt[t] # 0 /\ Index(debt[t]) \notin rollbackFlag

\* dep_violation_check: an epoch e after the one of t, which is given out and has
\* no rollback flag, read too early.
StartRollback(t, e) ==
  /\ Goto(t, "exec", "rollback")
  /\ e < next
  /\ Index(e) \notin rollbackFlag
  /\ start' = [start EXCEPT ![t] = e]
  /\ IF Owes(t)
     THEN e <= debt[t] /\ UNCHANGED rollbacks
     ELSE rollbacks < MaxRollbacks /\ rollbacks' = rollbacks + 1
  /\ LateBreaks \/ \A u \in Thread : ~BreaksByMistake(u)
  /\ debt' = [debt EXCEPT ![t] = 0]
  /\ UNCHANGED <<status, cursors, rollbackFlag, stop, locks, epoch, cur, oldStop, newStop>>

\* The executor returns yarn_ret_break or yarn_ret_continue, the right one.
Return(t) ==
  /\ Goto(t, "exec", IF Breaks(t) THEN "stop" ELSE "set_done")
  /\ ~Owes(t)
  /\ debt' = [debt EXCEPT ![t] = 0]
  /\ UNCHANGED <<status, cursors, rollbackFlag, stop, locks, locals, rollbacks>>

\* It returns the wrong one: it read a value that u, in an earlier epoch, has yet
\* to store.
Misread(t, u) ==
  /\ Goto(t, "exec", IF Breaks(t) THEN "set_done" ELSE "stop")
  /\ ~Owes(t)
  /\ status[Index(epoch[t])] = "executing"
  /\ pc[u] = "exec"
  /\ epoch[u] < epoch[t]
  /\ ~Owes(u)
  /\ rollbacks < MaxRollbacks
  /\ rollbacks' = rollbacks + 1
  /\ LateBreaks \/ Breaks(t) \/ \A v \in Thread : pc[v] \notin Rolling
  /\ debt' = [debt EXCEPT ![t] = 0, ![u] = epoch[t]]
  /\ UNCHANGED <<status, cursors, rollbackFlag, stop, locks, locals>>

\* It returns the wrong one, and was rolled back in the meantime.
MisreadLate(t) ==
  /\ Goto(t, "exec", IF Breaks(t) THEN "set_done" ELSE "stop")
  /\ ~Owes(t)
  /\ status[Index(epoch[t])] = "pending_rollback"
  /\ LateBreaks \/ Breaks(t)
  /\ debt' = [debt EXCEPT ![t] = 0]
  /\ UNCHANGED <<status, cursors, rollbackFlag, stop, locks, locals, rollbacks>>

\* yarn_ret_error, or yarn_dep_thread_init fails: the worker leaves without
\* yarn_epoch_set_done.
Fail(t) ==
  /\ Errors
  /\ Goto(t, "exec", "failed")
  /\ ~Owes(t)
  /\ debt' = [debt EXCEPT ![t] = 0]
  /\ UNCHANGED <<status, cursors, rollbackFlag, stop, locks, locals, rollbacks>>

\* POSIX allows pthread_cond_wait to return without a signal.
SpuriousWakeup(t) ==
  /\ Spurious
  /\ t \in waiters
  /\ waiters' = waiters \ {t}
  /\ UNCHANGED <<status, cursors, rollbackFlag, stop, nextLock, rollbackLock,
                 pc, locals, debt, rollbacks>>

Body(t) ==
  \/ Undo(t) \/ Publish(t)
  \/ \E e \in epoch[t] + 1 .. epoch[t] + EpochMax - 1 : StartRollback(t, e)
  \/ Return(t) \/ MisreadLate(t) \/ Fail(t)
  \/ \E u \in Thread : Misread(t, u)

\* The steps of epoch.c.
Kernel(t) ==
  /\ \/ NextEnter(t) \/ NextLook(t) \/ NextStall(t) \/ NextFinish(t)
     \/ NextClaim(t) \/ NextMark(t) \/ RollbackDone(t)
     \/ RollbackLock(t) \/ RollbackEnter(t) \/ RollbackSkip(t) \/ RollbackStatus(t)
     \/ RollbackFlag(t) \/ RollbackNext(t) \/ RollbackStopKeep(t)
     \/ RollbackStopRead(t) \/ RollbackStopCas(t) \/ RollbackExit(t)
     \/ Stop(t) \/ SetDone(t)
     \/ GetCommit(t) \/ GetCommitNone(t) \/ GetCommitCheck(t) \/ GetCommitCas(t)
     \/ CommitDone(t) \/ FirstRead(t) \/ FirstCheck(t) \/ FirstCas(t)
     \/ UpdateStopKeep(t) \/ UpdateStopRead(t) \/ UpdateStopCas(t) \/ Signal(t)
  /\ UNCHANGED <<debt, rollbacks>>

Worker(t) == Kernel(t) \/ Body(t)

\* Every worker returned: yarn_tpool_exec is over.
Terminating ==
  /\ \A t \in Thread : pc[t] \in {"exit", "failed"}
  /\ UNCHANGED vars

Next ==
  \/ \E t \in Thread : Worker(t) \/ SpuriousWakeup(t)
  \/ Terminating

Spec == Init /\ [][Next]_vars

\* Every thread is scheduled, and a mutex that stays free is granted.
Fairness == \A t \in Thread : WF_vars(Worker(t))

FairSpec == Spec /\ Fairness

-----------------------------------------------------------------------------
\* From the claim of an epoch to the end of yarn_epoch_set_done; a worker that
\* failed keeps its epoch for good.
Running(t) ==
  pc[t] \in {"next_mark", "undo", "rollback_done", "exec", "stop", "set_done", "failed"}
            \cup Rolling

\* From the claim of a commit to the end of the commit.
Committing(t) == pc[t] \in {"publish", "commit_done"}

\* The epochs whose slot belongs to t.
Held(t) == IF Running(t) THEN {epoch[t]} ELSE IF Committing(t) THEN {cur[t]} ELSE {}

RolledBack == {"rollback", "pending_rollback"}

Labels ==
  Rolling \cup
  {"next", "next_look", "next_stop", "next_mark", "undo", "rollback_done", "exec",
   "stop", "set_done", "commit", "commit_last", "commit_status", "commit_stop",
   "commit_first", "commit_cas", "publish", "commit_done", "first", "first_check",
   "first_cas", "update_stop", "update_stop_cas", "signal", "exit", "failed"}

-----------------------------------------------------------------------------
(* Every variable has its type: the words that never run below zero are     *)
(* naturals, and g_epoch_stop and its copies may be one below zero.         *)
TypeOK ==
  /\ status \in [Slot -> Status]
  /\ first \in Nat
  /\ next \in Nat
  /\ nextCommit \in Nat
  /\ rollbackFlag \subseteq Slot
  /\ stop \in Int
  /\ nextLock \in Thread \cup {NoThread}
  /\ rollbackLock \in Thread \cup {NoThread}
  /\ waiters \subseteq Thread
  /\ pc \in [Thread -> Labels]
  /\ epoch \in [Thread -> Nat]
  /\ start \in [Thread -> Nat]
  /\ cur \in [Thread -> Nat]
  /\ oldStop \in [Thread -> Int]
  /\ newStop \in [Thread -> Int]
  /\ debt \in [Thread -> Nat]
  /\ rollbacks \in Nat

(* A slot of the ring is used by one thread at a time: to run an epoch, or  *)
(* to commit one.  An epoch that is rolled back and given out again while   *)
(* its first execution still runs, or a slot that is given out before the   *)
(* commit of the epoch that used it is over, would share the write buffer   *)
(* of the slot between two threads (epoch.c:51-53, "only one active for a   *)
(* given epoch").                                                           *)
SlotExclusive ==
  \A t, u \in Thread : t # u =>
    \A e \in Held(t), f \in Held(u) : Index(e) # Index(f)

(* The cursors of the ring stay in order and at most one turn apart, which  *)
(* is what makes Index injective on the live epochs and keeps their words   *)
(* close enough for yarn_timestamp_comp.                                    *)
CursorOrder ==
  /\ first <= nextCommit
  /\ nextCommit <= next
  /\ next <= first + EpochMax

(* The asserts of yarn_epoch_next, yarn_epoch_set_done,                     *)
(* yarn_epoch_get_next_commit and yarn_epoch_commit_done hold, the last two *)
(* for as long as the commit lasts: no rollback reaches an epoch whose      *)
(* commit was claimed after its status was read without a lock.             *)
AssertsHold ==
  \A t \in Thread :
    /\ pc[t] = "next_mark" => status[Index(epoch[t])] \in {"commit", "rollback"}
    /\ pc[t] = "set_done" => status[Index(epoch[t])] \in {"executing", "pending_rollback"}
    /\ Committing(t) => status[Index(cur[t])] = "done"

(* epoch.c:397: "Every epoch following next are beyond last or have a       *)
(* rollback status".  Whenever g_next_lock is free the status of a slot     *)
(* says between which cursors its epoch is, so that the scan of             *)
(* yarn_epoch_do_rollback may stop at next and rolled back epochs are given *)
(* out again before any later one.                                          *)
StatusByRange ==
  nextLock = NoThread =>
    /\ \A e \in first .. nextCommit - 1 : status[Index(e)] \in {"done", "commit"}
    /\ \A e \in nextCommit .. next - 1 : status[Index(e)] \in {"executing", "done"}
    /\ \A e \in next .. first + EpochMax - 1 :
         status[Index(e)] \in {"commit"} \cup RolledBack

(* A bit that is set in g_rollback_flag names a slot that is rolled back or *)
(* is being undone.  yarn_dep ignores the reads of the flagged slots: with  *)
(* a bit left over for an epoch that executes, a store would no longer find *)
(* that this epoch read too early.                                          *)
FlagImpliesUndo ==
  \A i \in rollbackFlag :
    \/ status[i] \in RolledBack
    \/ \E t \in Thread : pc[t] \in {"undo", "rollback_done"} /\ Index(epoch[t]) = i

(* g_epoch_stop stays near g_epoch_first, set or not, however long the loop *)
(* is: the reason update_stop exists (epoch.c:296-299).  It may lag by one  *)
(* turn of the ring and one epoch per thread.                               *)
StopNearFirst ==
  /\ first - stop <= EpochMax + Cardinality(Thread)
  /\ stop <= first + EpochMax

(* No epoch is committed that the sequential loop does not reach, and a     *)
(* worker leaves only once every epoch it does reach is committed, although *)
(* later epochs stop the loop too, in any order, and executions that are    *)
(* rolled back stop it by mistake.                                          *)
EndsAtBreak ==
  /\ nextCommit <= LastEpoch + 1
  /\ \A t \in Thread : pc[t] = "exit" => first = LastEpoch + 1

(* epoch.h:82-85: yarn_epoch_rollback_flags has "the bit sets for every     *)
(* epoch that is in a rollback state" (but while do_rollback holds the lock *)
(* and is between the status and the bit).                                  *)
FlagsMatch ==
  nextLock = NoThread => \A i \in Slot : status[i] \in RolledBack => i \in rollbackFlag

(* No step moves g_epoch_first or g_epoch_next_commit backwards, which the  *)
(* readers that take no lock rely on, and a rollback never moves            *)
(* g_epoch_next below an epoch whose commit was claimed.                    *)
CursorsAdvance ==
  [][ /\ first' >= first
      /\ nextCommit' >= nextCommit
      /\ next' < next => next' >= nextCommit' ]_vars

(* Every worker leaves the loop: no thread waits for a signal that does not *)
(* come, although commit_done wakes one waiter only and set_done none.      *)
Termination == <>(\A t \in Thread : pc[t] = "exit")

(* tpool.h:22: a worker that returns false means that "an error occured and *)
(* yarn_tpool_exec should stop": every worker leaves, one way or the other. *)
ErrorStopsAll == <>(\A t \in Thread : pc[t] \in {"exit", "failed"})

(* The workers commit the epochs as the sequential loop runs them.          *)
Abstract == INSTANCE Timeline WITH
  claimed <- nextCommit,
  retired <- first,
  over <- \A t \in Thread : pc[t] = "exit"

ImplementsTimeline == Abstract!Spec
=============================================================================
