------------------------------- MODULE TPool -------------------------------
(***************************************************************************)
(* libyarn/src/tpool.c: the pool of worker threads.  The caller posts a    *)
(* task and sleeps until the pool took it back; the workers wait for a     *)
(* task, run it, meet at a barrier, worker 0 takes the task back, and they *)
(* meet at the barrier again.  The caller and the workers share one        *)
(* condition variable.                                                     *)
(*                                                                         *)
(* g_pool_task_lock needs no variable: only the caller, between its look   *)
(* at g_pool_task and its wait, holds it from one step to the next.  All   *)
(* the other critical sections read and write what changes under the lock  *)
(* only, and are one step.                                                 *)
(***************************************************************************)
EXTENDS Integers

CONSTANTS
  Size,        \* g_pool_size
  MaxExecs,    \* bound of the model: calls of yarn_tpool_exec
  MaxSpurious  \* bound of the model: returns of pthread_cond_wait without a signal

ASSUME SizeAssumption == Size \in Nat \ {0}
ASSUME MaxExecsAssumption == MaxExecs \in Nat
ASSUME MaxSpuriousAssumption == MaxSpurious \in Nat

Worker == 0 .. Size - 1
Caller == -1   \* the thread that calls yarn_tpool_exec, among the waiters
NoTask == 0    \* NULL: the task of the n-th call is n

VARIABLES
  task,     \* g_pool_task
  error,    \* g_pool_task_error
  count,    \* g_pool_thread_count
  destroy,  \* g_pool_destroy
  waiters,  \* who waits on g_pool_task_cond
  pc,       \* where each worker is in worker_launcher
  got,      \* its local task
  call,     \* where the caller is
  execs,    \* how many tasks were posted
  outcome,  \* what the last call returned
  ran,      \* ghost: the workers that ran the task of the last call
  bad,      \* ghost: those whose run returned false
  spurious  \* how many waits returned without a signal

pool == <<task, error, count, destroy>>
worker == <<pc, got>>
caller == <<call, execs, outcome>>
ghosts == <<ran, bad, spurious>>
vars == <<pool, waiters, worker, caller, ghosts>>

\* yarn_tpool_init
Init ==
  /\ task = NoTask
  /\ error = FALSE
  /\ count = 0
  /\ destroy = FALSE
  /\ waiters = {}
  /\ pc = [w \in Worker |-> "loop"]
  /\ got = [w \in Worker |-> NoTask]
  /\ call = "idle"
  /\ execs = 0
  /\ outcome = TRUE
  /\ ran = {}
  /\ bad = {}
  /\ spurious = 0

Step(w, from, to) ==
  /\ pc[w] = from
  /\ pc' = [pc EXCEPT ![w] = to]

Call(from, to) == call = from /\ call' = to

\* g_pool_task_lock is free.
LockFree == call # "wait"

-----------------------------------------------------------------------------
(* The caller: yarn_tpool_exec, yarn_tpool_destroy and yarn_tpool_init.     *)

\* What the critical section of Post writes, for an argument thread_count.
Posted(n) ==
  /\ Call("idle", "collect")
  /\ execs < MaxExecs
  /\ execs' = execs + 1
  /\ task' = execs + 1
  /\ count' = n
  /\ ran' = {}
  /\ bad' = {}
  /\ UNCHANGED <<destroy, worker, outcome, spurious>>

\* Mutants of Post: YARN_TPOOL_ALL_THREADS is not expanded; the error of the last
\* call is kept; nobody is woken.
PostZero == \E n \in Worker : Posted(n) /\ error' = FALSE /\ waiters' = {}
PostKeepsError == \E n \in 1 .. Size : Posted(n) /\ waiters' = {} /\ UNCHANGED error
PostSilent == \E n \in 1 .. Size : Posted(n) /\ error' = FALSE /\ UNCHANGED waiters

\* A thread_count of 0 stands for g_pool_size.
Post == \E n \in 1 .. Size : Posted(n) /\ error' = FALSE /\ waiters' = {}

\* The loop of the second critical section, before each wait.
CollectLook ==
  /\ Call("collect", "wait")
  /\ Caller \notin waiters
  /\ task # NoTask
  /\ UNCHANGED <<pool, waiters, worker, execs, outcome, ghosts>>

\* pthread_cond_wait
CollectWait ==
  /\ Call("wait", "collect")
  /\ waiters' = waiters \cup {Caller}
  /\ UNCHANGED <<pool, worker, execs, outcome, ghosts>>

\* The task is freed and the call returns.
CollectReturn ==
  /\ Call("collect", "idle")
  /\ Caller \notin waiters
  /\ task = NoTask
  /\ outcome' = ~error
  /\ UNCHANGED <<pool, waiters, worker, execs, ghosts>>

\* Mutant of StopThreads: nobody is woken.
StopSilent ==
  /\ Call("idle", "join")
  /\ destroy' = TRUE
  /\ UNCHANGED <<task, error, count, waiters, worker, execs, outcome, ghosts>>

\* stop_threads, up to the joins.
StopThreads ==
  /\ Call("idle", "join")
  /\ destroy' = TRUE
  /\ waiters' = {}
  /\ UNCHANGED <<task, error, count, worker, execs, outcome, ghosts>>

\* pthread_join of every worker, and the rest of yarn_tpool_destroy.
JoinThreads ==
  /\ Call("join", "down")
  /\ \A w \in Worker : pc[w] = "exit"
  /\ UNCHANGED <<pool, waiters, worker, execs, outcome, ghosts>>

\* yarn_tpool_init after yarn_tpool_destroy.
Restart ==
  /\ Call("down", "idle")
  /\ destroy' = FALSE
  /\ pc' = [w \in Worker |-> "loop"]
  /\ got' = [w \in Worker |-> NoTask]
  /\ UNCHANGED <<task, error, count, waiters, execs, outcome, ghosts>>

-----------------------------------------------------------------------------
(* A worker: worker_launcher.                                               *)

\* while (!g_pool_destroy)
Loop(w) ==
  /\ Step(w, "loop", IF destroy THEN "exit" ELSE "look")
  /\ UNCHANGED <<pool, waiters, got, caller, ghosts>>

\* The critical section, when it waits and when it finds a task.
LookWait(w) ==
  /\ pc[w] = "look"
  /\ w \notin waiters
  /\ LockFree
  /\ task = NoTask /\ ~destroy
  /\ waiters' = waiters \cup {w}
  /\ UNCHANGED <<pool, worker, caller, ghosts>>

LookTake(w) ==
  /\ Step(w, "look", "check")
  /\ w \notin waiters
  /\ LockFree
  /\ task # NoTask \/ destroy
  /\ got' = [got EXCEPT ![w] = task]
  /\ UNCHANGED <<pool, waiters, caller, ghosts>>

\* The tests of g_pool_destroy and g_pool_thread_count.
Check(w) ==
  /\ Step(w, "check", IF destroy THEN "exit" ELSE IF w < count THEN "run" ELSE "barrier1")
  /\ UNCHANGED <<pool, waiters, got, caller, ghosts>>

\* The end of the worker function, which returned true or false.
Ran(w, to) ==
  /\ Step(w, "run", to)
  /\ ran' = ran \cup {w}
  /\ \/ UNCHANGED <<bad, error>>
     \/ bad' = bad \cup {w} /\ error' = TRUE
  /\ UNCHANGED <<task, count, destroy, waiters, got, caller, spurious>>

\* Mutant of Run: worker 0 takes the task back without the first barrier.
RunUnbarred(w) == Ran(w, IF w = 0 THEN "clear" ELSE "barrier1")

\* The call of the worker function, the write of g_pool_task_error, which is read
\* after the barrier only, and the arrival at the barrier.
Run(w) == Ran(w, "barrier1")

\* pthread_barrier_wait: one barrier object serves both meetings, and lets
\* g_pool_size threads pass together.
BarrierPass ==
  /\ \A w \in Worker : pc[w] \in {"barrier1", "barrier2"}
  /\ pc' = [w \in Worker |-> IF pc[w] = "barrier2" THEN "loop"
                             ELSE IF w = 0 THEN "clear" ELSE "between"]
  /\ UNCHANGED <<pool, waiters, got, caller, ghosts>>

\* Worker 0 takes the task back and wakes everybody, without the lock.
Clear ==
  /\ Step(0, "clear", "notify")
  /\ task' = NoTask
  /\ UNCHANGED <<error, count, destroy, waiters, got, caller, ghosts>>

\* Mutant of Notify: worker 0 does not meet the others again.
NotifyAndLeave ==
  /\ Step(0, "notify", "loop")
  /\ waiters' = {}
  /\ UNCHANGED <<pool, got, caller, ghosts>>

Notify ==
  /\ Step(0, "notify", "barrier2")
  /\ waiters' = {}
  /\ UNCHANGED <<pool, got, caller, ghosts>>

\* The other workers go to the second meeting.
Between(w) ==
  /\ Step(w, "between", "barrier2")
  /\ UNCHANGED <<pool, waiters, got, caller, ghosts>>

-----------------------------------------------------------------------------
\* POSIX allows pthread_cond_wait to return without a signal.
SpuriousWakeup ==
  /\ spurious < MaxSpurious
  /\ spurious' = spurious + 1
  /\ \E u \in waiters : waiters' = waiters \ {u}
  /\ UNCHANGED <<pool, worker, caller, ran, bad>>

\* The steps of the caller inside a call; it makes the next one when it likes.
Calling == CollectLook \/ CollectWait \/ CollectReturn \/ JoinThreads
NewCall == Post \/ StopThreads \/ Restart

WorkerStep(w) ==
  Loop(w) \/ LookWait(w) \/ LookTake(w) \/ Check(w) \/ Run(w) \/ Between(w)

Worker0 == Clear \/ Notify

Next ==
  \/ Calling \/ NewCall
  \/ \E w \in Worker : WorkerStep(w)
  \/ Worker0 \/ BarrierPass
  \/ SpuriousWakeup

Spec == Init /\ [][Next]_vars

\* Every thread is scheduled; nobody has to make a call.
Fairness ==
  /\ WF_vars(Calling)
  /\ \A w \in Worker : WF_vars(WorkerStep(w))
  /\ WF_vars(Worker0)
  /\ WF_vars(BarrierPass)

FairSpec == Spec /\ Fairness

-----------------------------------------------------------------------------
(* Every variable has its type; once a task was posted the number of        *)
(* workers it asks for is never 0.                                          *)
TypeOK ==
  /\ task \in 0 .. MaxExecs
  /\ error \in BOOLEAN
  /\ count \in 0 .. Size
  /\ execs > 0 => count > 0
  /\ destroy \in BOOLEAN
  /\ waiters \subseteq Worker \cup {Caller}
  /\ pc \in [Worker -> {"loop", "look", "check", "run", "barrier1", "clear", "notify",
                        "between", "barrier2", "exit"}]
  /\ got \in [Worker -> 0 .. MaxExecs]
  /\ call \in {"idle", "collect", "wait", "join", "down"}
  /\ execs \in 0 .. MaxExecs
  /\ outcome \in BOOLEAN
  /\ ran \subseteq Worker
  /\ bad \subseteq Worker
  /\ spurious \in 0 .. MaxSpurious

(* A worker that holds a task holds the one of the call in progress, which  *)
(* the caller has not freed: yarn_tpool_exec frees it when it finds         *)
(* g_pool_task NULL, whoever still runs.                                    *)
TaskAlive ==
  \A w \in Worker :
    pc[w] \in {"check", "run"} /\ ~destroy =>
      got[w] = execs /\ got[w] # NoTask /\ call \in {"collect", "wait"}

(* The two meetings use one barrier, which cannot tell them apart: no       *)
(* worker is at the first one of a task while another is still at the       *)
(* second one of the task before.                                           *)
MeetingsApart ==
  \A v, w \in Worker : ~(pc[v] = "barrier1" /\ pc[w] = "barrier2")

(* The pool runs a posted task on the workers it was posted for, once each, *)
(* and yarn_tpool_exec returns after the last one of them, with false if    *)
(* and only if one of them returned false (tpool.h:33, check_tpool.c).      *)
Abstract == INSTANCE ForkJoin WITH
  running <- call \in {"collect", "wait"},
  finished <- ran,
  failed <- bad

ImplementsForkJoin == Abstract!Spec

(* A task that is posted is taken back: no worker misses it, and they all   *)
(* get through both barriers.                                               *)
TaskEnds == task # NoTask ~> task = NoTask

(* yarn_tpool_destroy returns: no worker sleeps through it.                 *)
ShutdownEnds == call = "join" ~> call = "down"

(* tpool.h:33: yarn_tpool_exec "returns when everyone is done".             *)
ExecReturns == call = "collect" ~> call = "idle"
=============================================================================
