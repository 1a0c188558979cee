------------------------------- MODULE Epoch -------------------------------
(***************************************************************************)
(* libyarn/src/epoch.c: the ring of epochs that the worker threads share.  *)
(*                                                                         *)
(* An epoch is one iteration of the loop that is run speculatively.  Every *)
(* thread asks for the next epoch, executes it, marks it done and commits  *)
(* the epochs that are done, in order.  A thread that finds out that later *)
(* epochs read a value too early rolls them back, which moves the cursor   *)
(* next backwards.                                                         *)
(*                                                                         *)
(* This module has the shared state, the program counter and the locals of *)
(* the threads, and one action per atomic step of the functions of epoch.c *)
(* that yarn.c calls.  It has no next-state relation: what happens at the  *)
(* labels "undo", "exec" and "publish" (yarn_dep_rollback, the executor,   *)
(* yarn_dep_commit) is up to the module that EXTENDS it.                   *)
(*                                                                         *)
(* Epochs are integers here and words in the code.  The module Timestamp   *)
(* shows that yarn_timestamp_comp orders words as integers while they are  *)
(* close enough; CursorOrder and StopNearFirst bound how far apart the     *)
(* words this module compares can be.                                      *)
(*                                                                         *)
(* A definition announced as a mutant is no part of the model: it stands   *)
(* beside the one it replaces when a run is checked to detect its defect.  *)
(***************************************************************************)
EXTENDS Integers

CONSTANTS
  Thread,    \* the workers that run pool_worker_simple
  EpochMax,  \* g_epoch_max, the size of the ring
  NoThread   \* stands for the owner of a free lock

ASSUME EpochMaxAssumption == EpochMax \in Nat \ {0, 1}
ASSUME ThreadAssumption == Thread # {}
ASSUME NoThreadAssumption == NoThread \notin Thread

\* enum yarn_epoch_status
Status == {"executing", "done", "pending_rollback", "rollback", "commit"}

Slot == 0 .. EpochMax - 1

\* get_epoch_index
Index(e) == e % EpochMax

VARIABLES
  status,        \* g_epoch_list[i].status
  first,         \* g_epoch_first: the oldest epoch whose commit is not over
  next,          \* g_epoch_next: the next epoch to execute
  nextCommit,    \* g_epoch_next_commit: the next epoch to commit
  rollbackFlag,  \* g_rollback_flag: the slots whose bit is set
  stop,          \* g_epoch_stop: the end bound of the loop, unset below first
  nextLock,      \* owner of g_next_lock
  rollbackLock,  \* owner of g_rollback_lock
  waiters,       \* the threads that wait on g_next_cond

  pc,            \* where each thread is
  epoch,         \* the epoch it was given by yarn_epoch_next
  start,         \* the argument of yarn_epoch_do_rollback
  cur,           \* the epoch a loop is at: epoch of do_rollback, to_commit of
                 \* get_next_commit, old_first of commit_done
  oldStop,       \* the local old_stop of the functions that read g_epoch_stop
  newStop        \* their local new_stop

cursors == <<first, next, nextCommit>>
locks == <<nextLock, rollbackLock, waiters>>
locals == <<epoch, start, cur, oldStop, newStop>>
epochVars == <<status, cursors, rollbackFlag, stop, locks, pc, locals>>

\* yarn_epoch_reset, and the threads before their first yarn_epoch_next.
EpochInit ==
  /\ status = [i \in Slot |-> "commit"]
  /\ first = 0
  /\ next = 0
  /\ nextCommit = 0
  /\ rollbackFlag = {}
  /\ stop = -1
  /\ nextLock = NoThread
  /\ rollbackLock = NoThread
  /\ waiters = {}
  /\ pc = [t \in Thread |-> "next"]
  /\ epoch = [t \in Thread |-> 0]
  /\ start = [t \in Thread |-> 0]
  /\ cur = [t \in Thread |-> 0]
  /\ oldStop = [t \in Thread |-> 0]
  /\ newStop = [t \in Thread |-> 0]

\* Thread t goes from one of the labels of from to the label to.
Goto(t, from, to) ==
  /\ pc[t] = from
  /\ pc' = [pc EXCEPT ![t] = to]

\* The locals of the function that thread t returns from go out of scope.
Forget(t) ==
  /\ cur' = [cur EXCEPT ![t] = 0]
  /\ oldStop' = [oldStop EXCEPT ![t] = 0]
  /\ newStop' = [newStop EXCEPT ![t] = 0]

-----------------------------------------------------------------------------
(* yarn_epoch_next and inc_epoch_next.  g_next_lock is held from NextEnter  *)
(* to NextStall, NextFinish or NextMark, so g_epoch_next cannot change      *)
(* underneath and its compare-and-swap cannot fail.                         *)

\* pthread_mutex_lock, at the entry and at the end of pthread_cond_wait.
NextEnter(t) ==
  /\ Goto(t, "next", "next_look")
  /\ t \notin waiters
  /\ nextLock = NoThread
  /\ nextLock' = t
  /\ UNCHANGED <<status, cursors, rollbackFlag, stop, rollbackLock, waiters, locals>>

\* Mutant of RingFull: the tail is not looked at.
NeverFull == FALSE

\* The ring is full: the slot of next is the one of first.
RingFull == next # first /\ Index(next) = Index(first)

\* Mutant of SlotPending: a slot is given out while it is still running.
NeverPending == FALSE

\* The slot of next still runs the execution that was rolled back.
SlotPending == status[Index(next)] = "pending_rollback"

\* The two retry conditions that need no stop, then the read of g_epoch_stop.
\* Neither condition can become true while the lock is held, so reading them
\* and g_epoch_stop in one step loses no behaviour.
NextLook(t) ==
  /\ ~RingFull
  /\ ~SlotPending
  /\ Goto(t, "next_look", "next_stop")
  /\ oldStop' = [oldStop EXCEPT ![t] = stop]
  /\ UNCHANGED <<status, cursors, rollbackFlag, stop, locks, epoch, start, cur, newStop>>

\* is_stop_set(stop_epoch) && comp(cur_next, stop_epoch) >= 0
Blocked(t) == oldStop[t] >= first /\ next >= oldStop[t]

\* Releases the lock and waits: g_next_cond.
Wait(t) ==
  /\ waiters' = waiters \cup {t}
  /\ nextLock' = NoThread

NextStall(t) ==
  /\ \/ Goto(t, "next_look", "next") /\ (RingFull \/ SlotPending)
     \/ Goto(t, "next_stop", "next") /\ Blocked(t) /\ oldStop[t] # first
  /\ Wait(t)
  /\ Forget(t)
  /\ UNCHANGED <<status, cursors, rollbackFlag, stop, rollbackLock, epoch, start>>

\* Mutant of NextFinish: the last broadcast is forgotten.
NextFinishSilent(t) ==
  /\ Goto(t, "next_stop", "exit")
  /\ Blocked(t)
  /\ oldStop[t] = first
  /\ nextLock' = NoThread
  /\ Forget(t)
  /\ UNCHANGED <<status, cursors, rollbackFlag, stop, rollbackLock, waiters, epoch, start>>

\* The loop is over: return false, after a broadcast.
NextFinish(t) ==
  /\ Goto(t, "next_stop", "exit")
  /\ Blocked(t)
  /\ oldStop[t] = first
  /\ waiters' = {}
  /\ nextLock' = NoThread
  /\ Forget(t)
  /\ UNCHANGED <<status, cursors, rollbackFlag, stop, rollbackLock, epoch, start>>

\* The compare-and-swap of g_epoch_next.
NextClaim(t) ==
  /\ Goto(t, "next_stop", "next_mark")
  /\ ~Blocked(t)
  /\ epoch' = [epoch EXCEPT ![t] = next]
  /\ next' = next + 1
  /\ UNCHANGED <<status, first, nextCommit, rollbackFlag, stop, locks,
                 start, cur, oldStop, newStop>>

\* The status is read into old_status and overwritten; the caller first undoes
\* an execution that was rolled back.
NextMark(t) ==
  LET i == Index(epoch[t])
  IN  /\ Goto(t, "next_mark", IF status[i] = "rollback" THEN "undo" ELSE "exec")
      /\ status[i] \in {"commit", "rollback"}
      /\ status' = [status EXCEPT ![i] = "executing"]
      /\ nextLock' = NoThread
      /\ Forget(t)
      /\ UNCHANGED <<cursors, rollbackFlag, stop, rollbackLock, waiters, epoch, start>>

\* Mutant of RollbackDone: the flag outlives the rollback.
RollbackDoneKeepsFlag(t) ==
  /\ Goto(t, "rollback_done", "exec")
  /\ UNCHANGED <<status, cursors, rollbackFlag, stop, locks, locals>>

\* yarn_epoch_rollback_done
RollbackDone(t) ==
  /\ Goto(t, "rollback_done", "exec")
  /\ rollbackFlag' = rollbackFlag \ {Index(epoch[t])}
  /\ UNCHANGED <<status, cursors, stop, locks, locals>>

-----------------------------------------------------------------------------
(* yarn_epoch_do_rollback: both locks are held from RollbackEnter to        *)
(* RollbackExit, rollbackLock from RollbackLock.                            *)

RollbackLock(t) ==
  /\ Goto(t, "rollback", "rollback_enter")
  /\ rollbackLock = NoThread
  /\ rollbackLock' = t
  /\ UNCHANGED <<status, cursors, rollbackFlag, stop, nextLock, waiters, locals>>

RollbackEnter(t) ==
  /\ Goto(t, "rollback_enter", "rollback_scan")
  /\ nextLock = NoThread
  /\ nextLock' = t
  /\ cur' = [cur EXCEPT ![t] = start[t]]
  /\ UNCHANGED <<status, cursors, rollbackFlag, stop, rollbackLock, waiters,
                 epoch, start, oldStop, newStop>>

\* set_rollback_status, when skip_epoch is true.
RollbackSkip(t) ==
  /\ Goto(t, "rollback_scan", "rollback_scan")
  /\ cur[t] < next
  /\ status[Index(cur[t])] \in {"commit", "rollback", "pending_rollback"}
  /\ cur' = [cur EXCEPT ![t] = cur[t] + 1]
  /\ UNCHANGED <<status, cursors, rollbackFlag, stop, locks,
                 epoch, start, oldStop, newStop>>

\* set_rollback_status, when it changes the status.
RollbackStatus(t) ==
  LET i == Index(cur[t])
  IN  /\ Goto(t, "rollback_scan", "rollback_flag")
      /\ cur[t] < next
      /\ status[i] \in {"executing", "done"}
      /\ status' = [status EXCEPT ![i] =
                      IF status[i] = "executing" THEN "pending_rollback" ELSE "rollback"]
      /\ UNCHANGED <<cursors, rollbackFlag, stop, locks, locals>>

\* Mutant of RollbackFlag: the bit of the epoch, not of its slot.
RollbackFlagOfEpoch(t) ==
  /\ Goto(t, "rollback_flag", "rollback_scan")
  /\ rollbackFlag' = rollbackFlag \cup {cur[t]}
  /\ cur' = [cur EXCEPT ![t] = cur[t] + 1]
  /\ UNCHANGED <<status, cursors, stop, locks, epoch, start, oldStop, newStop>>

\* set_rollback_flag, and the increment of the loop.
RollbackFlag(t) ==
  /\ Goto(t, "rollback_flag", "rollback_scan")
  /\ rollbackFlag' = rollbackFlag \cup {Index(cur[t])}
  /\ cur' = [cur EXCEPT ![t] = cur[t] + 1]
  /\ UNCHANGED <<status, cursors, stop, locks, epoch, start, oldStop, newStop>>

\* Mutant of RollbackNext: the cursor is not moved back.
RollbackNextStays(t) ==
  /\ Goto(t, "rollback_scan", "rollback_stop")
  /\ cur[t] >= next
  /\ UNCHANGED <<status, cursors, rollbackFlag, stop, locks, locals>>

\* rollback_next
RollbackNext(t) ==
  /\ Goto(t, "rollback_scan", "rollback_stop")
  /\ cur[t] >= next
  /\ next' = IF next <= start[t] THEN next ELSE start[t]
  /\ UNCHANGED <<status, first, nextCommit, rollbackFlag, stop, locks, locals>>

\* is_stop_set
IsStopSet(s) == s >= first

\* rollback_stop up to its compare-and-swap: nothing to undo, or old_stop and
\* new_stop are read.
RollbackStopKeep(t) ==
  /\ Goto(t, "rollback_stop", "rollback_exit")
  /\ ~IsStopSet(stop) \/ stop <= start[t]
  /\ UNCHANGED <<status, cursors, rollbackFlag, stop, locks, locals>>

RollbackStopRead(t) ==
  /\ Goto(t, "rollback_stop", "rollback_stop_cas")
  /\ IsStopSet(stop)
  /\ stop > start[t]
  /\ oldStop' = [oldStop EXCEPT ![t] = stop]
  /\ newStop' = [newStop EXCEPT ![t] = first - 1]
  /\ UNCHANGED <<status, cursors, rollbackFlag, stop, locks, epoch, start, cur>>

\* yarn_casv on g_epoch_stop; a failure starts the loop again.
StopCas(t, from, success, failure) ==
  /\ Goto(t, from, IF stop = oldStop[t] THEN success ELSE failure)
  /\ stop' = IF stop = oldStop[t] THEN newStop[t] ELSE stop

RollbackStopCas(t) ==
  /\ StopCas(t, "rollback_stop_cas", "rollback_exit", "rollback_stop")
  /\ UNCHANGED <<status, cursors, rollbackFlag, locks, locals>>

\* The broadcast and the two unlocks.
RollbackExit(t) ==
  /\ Goto(t, "rollback_exit", "exec")
  /\ waiters' = {}
  /\ nextLock' = NoThread
  /\ rollbackLock' = NoThread
  /\ Forget(t)
  /\ start' = [start EXCEPT ![t] = 0]
  /\ UNCHANGED <<status, cursors, rollbackFlag, stop, epoch>>

-----------------------------------------------------------------------------
(* The end of an execution: yarn_epoch_stop when the executor broke out of  *)
(* the loop, then yarn_epoch_set_done.                                      *)

\* Mutant of Stop: a later bound replaces an earlier one.
StopOverwrites(t) ==
  /\ Goto(t, "stop", "set_done")
  /\ stop' = epoch[t] + 1
  /\ UNCHANGED <<status, cursors, rollbackFlag, locks, locals>>

\* g_epoch_first never decreases, so the reads of old_stop and first and the
\* compare-and-swap that validates old_stop are one step.
Stop(t) ==
  LET bound == epoch[t] + 1
  IN  /\ Goto(t, "stop", "set_done")
      /\ stop' = IF IsStopSet(stop) /\ stop < bound THEN stop ELSE bound
      /\ UNCHANGED <<status, cursors, rollbackFlag, locks, locals>>

SetDone(t) ==
  LET i == Index(epoch[t])
  IN  /\ Goto(t, "set_done", "commit")
      /\ status[i] \in {"executing", "pending_rollback"}
      /\ status' = [status EXCEPT ![i] =
                      IF status[i] = "executing" THEN "done" ELSE "rollback"]
      /\ epoch' = [epoch EXCEPT ![t] = 0]
      /\ UNCHANGED <<cursors, rollbackFlag, stop, locks, start, cur, oldStop, newStop>>

-----------------------------------------------------------------------------
(* yarn_epoch_get_next_commit.  It takes no lock: every read of shared      *)
(* state is a step of its own, and the compare-and-swap only validates      *)
(* g_epoch_next_commit.                                                     *)

GetCommit(t) ==
  /\ Goto(t, "commit", "commit_last")
  /\ cur' = [cur EXCEPT ![t] = nextCommit]
  /\ UNCHANGED <<status, cursors, rollbackFlag, stop, locks, epoch, start, oldStop, newStop>>

\* return false, from one of the three checks.
GetCommitNone(t) ==
  /\ \/ Goto(t, "commit_last", "next") /\ cur[t] = next
     \/ Goto(t, "commit_status", "next") /\ status[Index(cur[t])] # "done"
     \/ Goto(t, "commit_first", "next") /\ IsStopSet(cur[t])
  /\ Forget(t)
  /\ UNCHANGED <<status, cursors, rollbackFlag, stop, locks, epoch, start>>

\* Mutants of GetCommitCheck: any status but commit will do; the stop bound is
\* not looked at.
GetCommitUnfinished(t) ==
  /\ \/ Goto(t, "commit_last", "commit_status") /\ cur[t] # next
     \/ Goto(t, "commit_status", "commit_stop") /\ status[Index(cur[t])] # "commit"
     \/ Goto(t, "commit_stop", IF stop = cur[t] THEN "commit_first" ELSE "commit_cas")
     \/ Goto(t, "commit_first", "commit_cas") /\ ~IsStopSet(cur[t])
  /\ UNCHANGED <<status, cursors, rollbackFlag, stop, locks, locals>>

GetCommitPastStop(t) ==
  /\ \/ Goto(t, "commit_last", "commit_status") /\ cur[t] # next
     \/ Goto(t, "commit_status", "commit_cas") /\ status[Index(cur[t])] = "done"
  /\ UNCHANGED <<status, cursors, rollbackFlag, stop, locks, locals>>

\* The checks passed, in order: to_commit is not next, its status is done, and
\* it is not the stop bound (is_stop_set is read after the bound itself).
GetCommitCheck(t) ==
  /\ \/ Goto(t, "commit_last", "commit_status") /\ cur[t] # next
     \/ Goto(t, "commit_status", "commit_stop") /\ status[Index(cur[t])] = "done"
     \/ Goto(t, "commit_stop", IF stop = cur[t] THEN "commit_first" ELSE "commit_cas")
     \/ Goto(t, "commit_first", "commit_cas") /\ ~IsStopSet(cur[t])
  /\ UNCHANGED <<status, cursors, rollbackFlag, stop, locks, locals>>

\* yarn_casv on g_epoch_next_commit.
GetCommitCas(t) ==
  /\ Goto(t, "commit_cas", IF nextCommit = cur[t] THEN "publish" ELSE "commit")
  /\ nextCommit' = IF nextCommit = cur[t] THEN cur[t] + 1 ELSE nextCommit
  /\ UNCHANGED <<status, first, next, rollbackFlag, stop, locks, locals>>

-----------------------------------------------------------------------------
(* yarn_epoch_commit_done                                                   *)

CommitDone(t) ==
  LET i == Index(cur[t])
  IN  /\ Goto(t, "commit_done", "first")
      /\ status[i] = "done"
      /\ status' = [status EXCEPT ![i] = "commit"]
      /\ UNCHANGED <<cursors, rollbackFlag, stop, locks, locals>>

\* old_first = g_epoch_first
FirstRead(t) ==
  /\ Goto(t, "first", "first_check")
  /\ cur' = [cur EXCEPT ![t] = first]
  /\ UNCHANGED <<status, cursors, rollbackFlag, stop, locks, epoch, start, oldStop, newStop>>

\* The two breaks out of the loop.  g_epoch_next_commit never decreases, so the
\* reads of it and of the status are one step.
FirstCheck(t) ==
  LET committed == cur[t] # nextCommit /\ status[Index(cur[t])] = "commit"
  IN  /\ Goto(t, "first_check", IF committed THEN "first_cas" ELSE "update_stop")
      /\ UNCHANGED <<status, cursors, rollbackFlag, stop, locks, locals>>

\* Mutant of FirstCas: a write instead of a compare-and-swap.
FirstWrite(t) ==
  /\ Goto(t, "first_cas", "first")
  /\ first' = cur[t] + 1
  /\ UNCHANGED <<status, next, nextCommit, rollbackFlag, stop, locks, locals>>

\* yarn_casv on g_epoch_first, whether it succeeds or not.
FirstCas(t) ==
  /\ Goto(t, "first_cas", "first")
  /\ first' = IF first = cur[t] THEN cur[t] + 1 ELSE first
  /\ UNCHANGED <<status, next, nextCommit, rollbackFlag, stop, locks, locals>>

\* update_stop
UpdateStopKeep(t) ==
  /\ Goto(t, "update_stop", "signal")
  /\ IsStopSet(stop)
  /\ UNCHANGED <<status, cursors, rollbackFlag, stop, locks, locals>>

\* Mutant of UpdateStopRead: the bound is left where it is.
UpdateStopLags(t) ==
  /\ Goto(t, "update_stop", "update_stop_cas")
  /\ ~IsStopSet(stop)
  /\ oldStop' = [oldStop EXCEPT ![t] = stop]
  /\ newStop' = [newStop EXCEPT ![t] = stop]
  /\ UNCHANGED <<status, cursors, rollbackFlag, stop, locks, epoch, start, cur>>

UpdateStopRead(t) ==
  /\ Goto(t, "update_stop", "update_stop_cas")
  /\ ~IsStopSet(stop)
  /\ oldStop' = [oldStop EXCEPT ![t] = stop]
  /\ newStop' = [newStop EXCEPT ![t] = first - 1]
  /\ UNCHANGED <<status, cursors, rollbackFlag, stop, locks, epoch, start, cur>>

UpdateStopCas(t) ==
  /\ StopCas(t, "update_stop_cas", "signal", "update_stop")
  /\ UNCHANGED <<status, cursors, rollbackFlag, locks, locals>>

\* pthread_cond_signal, under the lock, wakes one waiter; the caller goes on
\* with the next epoch to commit.
Signal(t) ==
  /\ Goto(t, "signal", "commit")
  /\ nextLock = NoThread
  /\ \/ waiters = {} /\ UNCHANGED waiters
     \/ \E u \in waiters : waiters' = waiters \ {u}
  /\ Forget(t)
  /\ UNCHANGED <<status, cursors, rollbackFlag, stop, nextLock, rollbackLock,
                 epoch, start>>
=============================================================================
