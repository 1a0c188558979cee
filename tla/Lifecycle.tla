----------------------------- MODULE Lifecycle -----------------------------
(***************************************************************************)
(* How libyarn is set up, used and torn down by the one thread that calls  *)
(* yarn_init, yarn_exec_simple and yarn_destroy, when any allocation may   *)
(* fail: yarn.c, with the init, reset and destroy functions of tpool.c,    *)
(* epoch.c, dependency.c, map.c, pmem.c and pstore.c.                      *)
(*                                                                         *)
(* The state is which resources exist (memory, locks, threads) and the     *)
(* pointers and flags the code decides by.  A function is the set of its   *)
(* outcomes: the library it leaves behind and the result it returns.       *)
(***************************************************************************)
EXTENDS Naturals, Sequences

CONSTANTS
  Fallible,    \* the resources whose acquisition may fail
  AssertsOn    \* is the library built without NDEBUG?

ASSUME AssertsOnAssumption == AssertsOn \in BOOLEAN

VARIABLES
  lib,         \* the library
  pc,          \* where the caller is
  delOnExit,   \* del_on_exit of yarn_exec_simple
  before       \* ghost: was the library initialised when the call began?

vars == <<lib, pc, delOnExit, before>>

Workers == {"worker_0", "worker_1"}
PoolParts == {"pool_cond", "pool_mutex", "barrier", "pool"} \cup Workers
EpochParts == {"rollback_lock", "next_lock", "next_cond", "epoch_list"}
DependencyParts == {"map", "table", "pmem", "cache", "store", "info_list", "info_index"}

\* The static variables before the first call.
Fresh == [
  live |-> {},            \* the resources that exist
  leaked |-> {},          \* ghost: those that were lost for good
  misused |-> {},         \* ghost: those used or destroyed while not live
  crashed |-> FALSE,      \* ghost: was a null pointer followed?
  init |-> FALSE,         \* g_is_init
  dep |-> FALSE,          \* g_is_dep_init
  pool |-> FALSE,         \* g_pool # NULL
  capacity |-> 0,         \* capacity of the map
  indexSize |-> 0]        \* g_info_index_size

Acquire(l, S) == [l EXCEPT !.live = @ \cup S, !.leaked = @ \cup (S \cap l.live)]
Release(l, S) == [l EXCEPT !.live = @ \ S, !.misused = @ \cup (S \ l.live)]
Use(l, S) == [l EXCEPT !.misused = @ \cup (S \ l.live)]

Return(l, ok) == [lib |-> l, ok |-> ok]

\* Acquire the steps one by one; Undo(l, r) is the cleanup if r fails.
TrySteps(l, steps, Undo(_, _)) ==
  LET Upto(k) == {steps[j] : j \in 1 .. k - 1}
  IN  {Return(Acquire(l, Upto(Len(steps) + 1)), TRUE)} \cup
      {Return(Undo(Acquire(l, Upto(k)), steps[k]), FALSE) :
         k \in {j \in 1 .. Len(steps) : steps[j] \in Fallible}}

-----------------------------------------------------------------------------
(* tpool.c                                                                  *)

\* stop_threads: every thread of the pool is joined, created or not.
StopThreads(l) == Release(Use(l, {"pool_mutex", "pool_cond"}), Workers)

TpoolUndo(l, r) ==
  CASE r = "pool_cond" -> l
    [] r = "pool_mutex" -> Release(l, {"pool_cond"})
    [] r = "barrier" -> Release(l, {"pool_mutex", "pool_cond"})
    [] r = "pool" -> Release(l, {"barrier", "pool_mutex", "pool_cond"})
    [] OTHER -> [Release(StopThreads(l), PoolParts \ Workers) EXCEPT !.pool = TRUE]

\* yarn_tpool_init
TpoolInit(l) ==
  IF l.pool THEN {Return(l, TRUE)}
  ELSE LET tried == TrySteps(l, <<"pool_cond", "pool_mutex", "barrier", "pool", "worker_0",
                                  "worker_1">>, TpoolUndo)
       IN  {IF o.ok THEN Return([o.lib EXCEPT !.pool = TRUE], TRUE) ELSE o : o \in tried}

\* yarn_tpool_destroy
TpoolDestroy(l) ==
  IF l.pool
  THEN [Release(StopThreads(l), PoolParts \ Workers) EXCEPT !.pool = FALSE]
  ELSE l

-----------------------------------------------------------------------------
(* epoch.c                                                                  *)

\* The labels of yarn_epoch_init are off by one for next_cond_error, which
\* destroys the condition and not the lock that was made before it.
EpochUndo(l, r) ==
  CASE r = "rollback_lock" -> l
    [] r = "next_lock" -> Release(l, {"rollback_lock"})
    [] r = "next_cond" -> Release(l, {"next_cond", "rollback_lock"})
    [] r = "epoch_list" -> Release(l, {"next_lock", "next_cond", "rollback_lock"})

\* yarn_epoch_init
EpochInit(l) ==
  TrySteps(l, <<"rollback_lock", "next_lock", "next_cond", "epoch_list">>, EpochUndo)

\* yarn_epoch_destroy
EpochDestroy(l) == Release(l, EpochParts)

-----------------------------------------------------------------------------
(* dependency.c, map.c, pmem.c and pstore.c                                 *)

\* yarn_map_destroy and clear_table: map_item_destruct destroys the lock of a
\* record by itself and once more in yarn_pmem_free_seq.
ClearTable(l) ==
  IF "table" \notin l.live THEN [l EXCEPT !.crashed = TRUE]
  ELSE IF "record" \in l.live
       THEN [Release(l, {"record"}) EXCEPT !.misused = @ \cup {"commit_lock"}]
       ELSE l
MapDestroy(l) == Release(ClearTable(l), {"map"} \cup ({"table"} \cap l.live))

\* yarn_pmem_destroy: the items in the cache go, but the cache stays, for the
\* condition in front of yarn_pstore_destroy is inverted.
PmemDestroy(l) ==
  [Release(l, {"pmem", "cache"} \cup ({"cached_item"} \cap l.live))
     EXCEPT !.leaked = @ \cup {"cache"}]

\* yarn_dep_global_init, with yarn_map_init and yarn_pmem_init in it.
DepUndo(l, r) ==
  CASE r = "map" -> l
    [] r = "table" -> Release(l, {"map"})
    [] r = "pmem" -> MapDestroy(l)
    [] r = "cache" -> MapDestroy(Release(l, {"pmem"}))
    [] r = "store" -> MapDestroy(PmemDestroy(l))
    [] r = "info_list" -> MapDestroy(PmemDestroy(Release(l, {"store"})))
    [] r = "info_index" -> MapDestroy(PmemDestroy(Release(l, {"store", "info_list"})))

DepInit(l, ws, indexSize) ==
  TrySteps([l EXCEPT !.capacity = ws, !.indexSize = indexSize],
           <<"map", "table", "pmem", "cache", "store", "info_list", "info_index">>, DepUndo)

\* yarn_map_reset: a table that is too small is freed before the new one is made.
MapReset(l, ws) ==
  LET cleared == ClearTable(l)
      freed == [Release(cleared, {"table"}) EXCEPT !.capacity = ws]
  IN  IF l.capacity >= ws THEN {Return(cleared, TRUE)}
      ELSE {Return(Acquire(freed, {"table"}), TRUE)} \cup
           {Return(freed, FALSE) : r \in Fallible \cap {"larger_table"}}

\* The index of yarn_dep_global_reset.
IndexReset(l, indexSize) ==
  IF l.indexSize = indexSize THEN {Return(l, TRUE)}
  ELSE TrySteps([Release(l, {"info_index"}) EXCEPT !.indexSize = indexSize],
                <<"info_index">>, LAMBDA m, r : m)

\* yarn_dep_global_reset
DepReset(l, ws, indexSize) ==
  UNION {IF o.ok THEN IndexReset(o.lib, indexSize) ELSE {o} : o \in MapReset(l, ws)}

\* Mutant of DepDestroy: the epochs of the threads are kept.
DepDestroyKeepsCells(l) ==
  Release(PmemDestroy(MapDestroy(l)),
          {"store", "info_list"} \cup ({"info_index"} \cap l.live))

\* yarn_dep_global_destroy
DepDestroy(l) ==
  Release(PmemDestroy(MapDestroy(l)),
          {"store", "info_list"} \cup ({"thread_epoch", "info_index"} \cap l.live))

-----------------------------------------------------------------------------
(* yarn.c                                                                   *)

\* init_dep: a failed reset is followed by a new init, unless an assert stops it.
InitDep(l, ws, indexSize) ==
  LET fresh(m) == {Return([o.lib EXCEPT !.dep = o.ok], o.ok) : o \in DepInit(m, ws, indexSize)}
      recover(m) == LET d == DepDestroy(m)
                    IN  IF d.crashed \/ AssertsOn
                        THEN {Return([d EXCEPT !.crashed = TRUE], FALSE)} ELSE fresh(d)
  IN  IF l.dep
      THEN UNION {IF o.ok THEN {o} ELSE recover(o.lib) : o \in DepReset(l, ws, indexSize)}
      ELSE fresh(l)

\* Mutant of YarnInit: a failed yarn_epoch_init is undone once more.
YarnInitUndoesAll(l) ==
  IF l.init THEN {Return(l, TRUE)}
  ELSE LET Epochs(m) == {IF o.ok THEN Return([o.lib EXCEPT !.init = TRUE], TRUE)
                                 ELSE Return(TpoolDestroy(EpochDestroy(o.lib)), FALSE) :
                           o \in EpochInit(m)}
       IN  UNION {IF o.ok THEN Epochs(o.lib) ELSE {o} : o \in TpoolInit(l)}

\* yarn_init
YarnInit(l) ==
  IF l.init THEN {Return(l, TRUE)}
  ELSE LET Epochs(m) == {IF o.ok THEN Return([o.lib EXCEPT !.init = TRUE], TRUE)
                                 ELSE Return(TpoolDestroy(o.lib), FALSE) : o \in EpochInit(m)}
       IN  UNION {IF o.ok THEN Epochs(o.lib) ELSE {o} : o \in TpoolInit(l)}

\* Mutant of YarnDestroy: g_is_dep_init stays set.
YarnDestroyKeepsFlag(l) ==
  LET withoutDep == IF l.dep THEN DepDestroy(l) ELSE l
  IN  IF l.init
      THEN [TpoolDestroy(EpochDestroy(withoutDep)) EXCEPT !.init = FALSE]
      ELSE l

\* yarn_destroy, with destroy_dep.
YarnDestroy(l) ==
  LET withoutDep == IF l.dep THEN [DepDestroy(l) EXCEPT !.dep = FALSE] ELSE l
  IN  IF l.init
      THEN [TpoolDestroy(EpochDestroy(withoutDep)) EXCEPT !.init = FALSE]
      ELSE l

Init ==
  /\ lib = Fresh
  /\ pc = "idle"
  /\ delOnExit = FALSE
  /\ before = FALSE

Proceed(from, to) ==
  /\ ~lib.crashed
  /\ pc = from
  /\ pc' = to

CallInit ==
  /\ Proceed("idle", "idle")
  /\ \E o \in YarnInit(lib) : lib' = o.lib
  /\ UNCHANGED <<delOnExit, before>>

CallDestroy ==
  /\ Proceed("idle", "idle")
  /\ lib' = YarnDestroy(lib)
  /\ UNCHANGED <<delOnExit, before>>

\* yarn_exec_simple, up to the initialisation.
CallExec ==
  /\ before' = lib.init
  /\ delOnExit' = ~lib.init
  /\ \E o \in YarnInit(lib) :
       /\ lib' = o.lib
       /\ Proceed("idle", IF o.ok THEN "prepare" ELSE "idle")

\* init_dep, yarn_epoch_reset and the task of yarn_tpool_exec.
Prepare ==
  /\ \E ws, indexSize \in 1 .. 2 :
       \E o \in InitDep(lib, ws, indexSize) :
         /\ lib' = IF o.ok THEN Use(o.lib, PoolParts \cup EpochParts) ELSE o.lib
         /\ \/ Proceed("prepare", IF o.ok THEN "run" ELSE "leave")
            \/ o.ok /\ "task" \in Fallible /\ Proceed("prepare", "leave")
  /\ UNCHANGED <<delOnExit, before>>

\* yarn_dep_thread_init: the cell that holds the epoch of a thread is made once.
ThreadInit ==
  /\ \/ /\ Proceed("run", "run")
        /\ lib' = Use([lib EXCEPT !.live = @ \cup {"thread_epoch"}], {"store"})
     \/ /\ "thread_epoch" \in Fallible
        /\ "thread_epoch" \notin lib.live
        /\ Proceed("run", "leave")
        /\ UNCHANGED lib
  /\ UNCHANGED <<delOnExit, before>>

\* get_map_addr_info: the new record comes from the cache or from malloc; it
\* goes into the table, or back to the cache if the address has one already.
FindRecord ==
  /\ \/ /\ Proceed("run", "run")
        /\ LET taken == Release(lib, {"cached_item"} \cap lib.live)
           IN  \E spot \in {"record", "cached_item"} :
                 /\ spot = "cached_item" => "record" \in lib.live
                 /\ lib' = Use([taken EXCEPT !.live = @ \cup {spot}],
                               {"map", "table", "pmem", "cache", "info_list", "info_index"})
     \/ /\ "item" \in Fallible
        /\ "cached_item" \notin lib.live
        /\ Proceed("run", "leave")
        /\ UNCHANGED lib
  /\ UNCHANGED <<delOnExit, before>>

\* The worker threads return, in success or not.
Joined ==
  /\ Proceed("run", "leave")
  /\ UNCHANGED <<lib, delOnExit, before>>

\* Mutant of Leave: the library is left as it is.
LeaveInitialised ==
  /\ Proceed("leave", "idle")
  /\ UNCHANGED <<lib, delOnExit, before>>

Leave ==
  /\ Proceed("leave", "idle")
  /\ lib' = IF delOnExit THEN YarnDestroy(lib) ELSE lib
  /\ UNCHANGED <<delOnExit, before>>

Next ==
  \/ CallInit \/ CallDestroy \/ CallExec \/ Prepare \/ ThreadInit \/ FindRecord
  \/ Joined \/ Leave

Spec == Init /\ [][Next]_vars

-----------------------------------------------------------------------------
(* What the flags promise exists: an initialised library has its pool and   *)
(* its epochs, and while workers run, all that the dependency tracker       *)
(* follows is there.                                                        *)
Ready ==
  /\ lib.init => PoolParts \cup EpochParts \subseteq lib.live
  /\ lib.dep => lib.init /\ DependencyParts \subseteq lib.live
  /\ pc = "run" => lib.dep

(* A library that is not initialised, for an allocation failed or because   *)
(* it was destroyed, holds nothing; all that was ever lost are the caches   *)
(* of the allocator (pmem.c:64).                                            *)
NothingLeft ==
  /\ pc = "idle" /\ ~lib.init => lib.live = {} /\ ~lib.pool
  /\ lib.leaked \subseteq {"cache"}

(* The flags by which the code decides tell, on every error path, what      *)
(* exists.                                                                  *)
FlagsTell == Ready /\ NothingLeft

(* Nothing is used or destroyed while it does not exist, on any error path, *)
(* but for the lock of a record, which map_item_destruct destroys twice.    *)
NoMisuse == lib.misused \subseteq {"commit_lock"}

(* tpool.c:118: "Cleanup in case of error."  A pool that could not be made  *)
(* holds nothing, and is not taken for one that was.                        *)
PoolCleanedUp ==
  lib.pool => PoolParts \subseteq lib.live

(* yarn_exec_simple leaves an initialised library initialised and no other, *)
(* whether it succeeds or fails.                                            *)
ExecRestores == [][pc # "idle" /\ pc' = "idle" => lib'.init = before]_vars

(* yarn.c:38: "Try to recover with a regular init if not in debug mode."    *)
Recovers == ~lib.crashed
=============================================================================
