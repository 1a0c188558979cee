--------------------------- MODULE LifecycleProof ---------------------------
(***************************************************************************)
(* Whatever fails, and however the calls follow one another, the flags of  *)
(* libyarn tell what exists, nothing is used while it does not exist, and  *)
(* yarn_exec_simple leaves the library as it found it: for every set of    *)
(* acquisitions that may fail but those whose failure the code is known to *)
(* handle wrongly (Handled), with or without asserts.                      *)
(*                                                                         *)
(* The argument goes function by function: each acquires or releases what  *)
(* it is for, or in the case of an error gives back what it had acquired,  *)
(* and changes nothing else (Like).  Between the calls the library is      *)
(* therefore empty, initialised, or initialised with a tracker (Shape).    *)
(***************************************************************************)
EXTENDS Lifecycle, TLAPS

Items == {"record", "cached_item", "thread_epoch"}
Resource == PoolParts \cup EpochParts \cup DependencyParts \cup Items

Lib == [
  live : SUBSET Resource, leaked : SUBSET Resource,
  misused : SUBSET (Resource \cup {"commit_lock"}),
  crashed : BOOLEAN, init : BOOLEAN, dep : BOOLEAN, pool : BOOLEAN,
  capacity : Nat, indexSize : Nat]

(* The failures that the code does not handle (README, section 5).          *)
Handled == Fallible \cap ({"next_cond", "larger_table"} \cup Workers) = {}

\* From l to m nothing went wrong but what is known to.
Sound(l, m) ==
  /\ m \in Lib
  /\ m.crashed = l.crashed
  /\ m.leaked \subseteq l.leaked \cup {"cache"}
  /\ m.misused \subseteq l.misused \cup {"commit_lock"}

\* And the flags are the same: m differs in what exists, and in sizes.
Like(l, m) ==
  /\ Sound(l, m)
  /\ m.init = l.init
  /\ m.dep = l.dep
  /\ m.pool = l.pool

\* Steps that go well add up to one that goes well.
LEMMA SoundTransitive ==
  ASSUME NEW l, NEW m, NEW n, Sound(l, m), Sound(m, n)
  PROVE  Sound(l, n)
  BY DEF Sound

\* Steps that leave the flags alone add up to one that does.
LEMMA LikeTransitive ==
  ASSUME NEW l, NEW m, NEW n, Like(l, m), Like(m, n)
  PROVE  Like(l, n)
  BY DEF Like, Sound

-----------------------------------------------------------------------------
(* Acquiring, releasing and using.                                          *)

\* What does not exist yet can be acquired.
LEMMA AcquireLike ==
  ASSUME NEW l \in Lib, NEW S \in SUBSET Resource, S \cap l.live = {}
  PROVE  /\ Like(l, Acquire(l, S))
         /\ Acquire(l, S).live = l.live \cup S
  BY DEF Like, Sound, Lib, Acquire

\* Nothing is acquired by acquiring nothing.
LEMMA AcquireNone ==
  ASSUME NEW l \in Lib
  PROVE  Like(l, Acquire(l, {})) /\ Acquire(l, {}).live = l.live
  BY DEF Like, Sound, Lib, Acquire

\* What exists can be released.
LEMMA ReleaseLike ==
  ASSUME NEW l \in Lib, NEW S \in SUBSET l.live
  PROVE  /\ Like(l, Release(l, S))
         /\ Release(l, S).live = l.live \ S
  BY DEF Like, Sound, Lib, Release

\* What exists can be used.
LEMMA UseLike ==
  ASSUME NEW l \in Lib, NEW S \in SUBSET l.live
  PROVE  /\ Like(l, Use(l, S))
         /\ Use(l, S).live = l.live
  BY DEF Like, Sound, Lib, Use

\* What was acquired and is released again leaves nothing behind.
LEMMA GivenBack ==
  ASSUME NEW l \in Lib, NEW S \in SUBSET Resource, S \cap l.live = {}
  PROVE  /\ Like(l, Release(Acquire(l, S), S))
         /\ Release(Acquire(l, S), S).live = l.live
  <1> DEFINE m == Acquire(l, S)
  <1>1. Like(l, m) /\ m.live = l.live \cup S
    BY AcquireLike
  <1> HIDE DEF m
  <1>2. m \in Lib /\ S \in SUBSET m.live
    BY <1>1 DEF Like, Sound
  <1>3. Like(m, Release(m, S)) /\ Release(m, S).live = m.live \ S
    BY <1>2, ReleaseLike
  <1>4. Like(l, Release(m, S)) /\ Release(m, S).live = l.live
    BY <1>1, <1>3, LikeTransitive
  <1> QED
    BY <1>4 DEF m

-----------------------------------------------------------------------------
(* tpool.c and epoch.c.                                                     *)

(* The outcomes of yarn_tpool_init, when every thread can be created.       *)
LEMMA TpoolTry ==
  ASSUME NEW l, Handled, NEW o \in TrySteps(l, <<"pool_cond", "pool_mutex", "barrier", "pool", "worker_0", "worker_1">>, TpoolUndo)
  PROVE  \/ o = Return(Acquire(l, PoolParts), TRUE)
         \/ o = Return(TpoolUndo(Acquire(l, {}), "pool_cond"), FALSE)
         \/ o = Return(TpoolUndo(Acquire(l, {"pool_cond"}), "pool_mutex"), FALSE)
         \/ o = Return(TpoolUndo(Acquire(l, {"pool_cond", "pool_mutex"}), "barrier"), FALSE)
         \/ o = Return(TpoolUndo(Acquire(l, {"pool_cond", "pool_mutex", "barrier"}), "pool"), FALSE)
  <1> DEFINE steps == <<"pool_cond", "pool_mutex", "barrier", "pool", "worker_0", "worker_1">>
             Upto(k) == {steps[j] : j \in 1 .. k - 1}
  <1>1. o \in {Return(Acquire(l, Upto(Len(steps) + 1)), TRUE)} \cup
              {Return(TpoolUndo(Acquire(l, Upto(k)), steps[k]), FALSE) :
                 k \in {j \in 1 .. Len(steps) : steps[j] \in Fallible}}
    BY DEF TrySteps
  <1>2. /\ Len(steps) = 6
        /\ steps[1] = "pool_cond"
        /\ steps[2] = "pool_mutex"
        /\ steps[3] = "barrier"
        /\ steps[4] = "pool"
        /\ steps[5] \notin Fallible
        /\ steps[6] \notin Fallible
    BY DEF Handled, Workers
  <1>3. Upto(6 + 1) = PoolParts
    BY DEF PoolParts, Workers
  <1>4. Upto(1) = {}
    OBVIOUS
  <1>5. Upto(2) = {"pool_cond"}
    OBVIOUS
  <1>6. Upto(3) = {"pool_cond", "pool_mutex"}
    OBVIOUS
  <1>7. Upto(4) = {"pool_cond", "pool_mutex", "barrier"}
    OBVIOUS
  <1> HIDE DEF steps, Upto
  <1>10. \/ o = Return(Acquire(l, Upto(6 + 1)), TRUE)
        \/ \E k \in 1 .. 6 :
             /\ steps[k] \in Fallible
             /\ o = Return(TpoolUndo(Acquire(l, Upto(k)), steps[k]), FALSE)
    BY ONLY <1>1, <1>2
  <1>11. CASE o = Return(Acquire(l, Upto(6 + 1)), TRUE)
    BY <1>3, <1>11
  <1>12. ASSUME NEW k \in 1 .. 6, steps[k] \in Fallible,
                o = Return(TpoolUndo(Acquire(l, Upto(k)), steps[k]), FALSE)
         PROVE  k \in {1, 2, 3, 4}
    BY <1>2, <1>12
  <1> QED
    BY <1>2, <1>4, <1>5, <1>6, <1>7, <1>10, <1>11, <1>12

(* The outcomes of yarn_epoch_init, when the condition can be made.         *)
LEMMA EpochTry ==
  ASSUME NEW l, Handled, NEW o \in TrySteps(l, <<"rollback_lock", "next_lock", "next_cond", "epoch_list">>, EpochUndo)
  PROVE  \/ o = Return(Acquire(l, EpochParts), TRUE)
         \/ o = Return(EpochUndo(Acquire(l, {}), "rollback_lock"), FALSE)
         \/ o = Return(EpochUndo(Acquire(l, {"rollback_lock"}), "next_lock"), FALSE)
         \/ o = Return(EpochUndo(Acquire(l, {"rollback_lock", "next_lock", "next_cond"}), "epoch_list"), FALSE)
  <1> DEFINE steps == <<"rollback_lock", "next_lock", "next_cond", "epoch_list">>
             Upto(k) == {steps[j] : j \in 1 .. k - 1}
  <1>1. o \in {Return(Acquire(l, Upto(Len(steps) + 1)), TRUE)} \cup
              {Return(EpochUndo(Acquire(l, Upto(k)), steps[k]), FALSE) :
                 k \in {j \in 1 .. Len(steps) : steps[j] \in Fallible}}
    BY DEF TrySteps
  <1>2. /\ Len(steps) = 4
        /\ steps[1] = "rollback_lock"
        /\ steps[2] = "next_lock"
        /\ steps[3] \notin Fallible
        /\ steps[4] = "epoch_list"
    BY DEF Handled, Workers
  <1>3. Upto(4 + 1) = EpochParts
    BY DEF EpochParts
  <1>4. Upto(1) = {}
    OBVIOUS
  <1>5. Upto(2) = {"rollback_lock"}
    OBVIOUS
  <1>7. Upto(4) = {"rollback_lock", "next_lock", "next_cond"}
    OBVIOUS
  <1> HIDE DEF steps, Upto
  <1>8. \/ o = Return(Acquire(l, Upto(4 + 1)), TRUE)
        \/ \E k \in 1 .. 4 :
             /\ steps[k] \in Fallible
             /\ o = Return(EpochUndo(Acquire(l, Upto(k)), steps[k]), FALSE)
    BY ONLY <1>1, <1>2
  <1>9. CASE o = Return(Acquire(l, Upto(4 + 1)), TRUE)
    BY <1>3, <1>9
  <1>10. ASSUME NEW k \in 1 .. 4, steps[k] \in Fallible,
                o = Return(EpochUndo(Acquire(l, Upto(k)), steps[k]), FALSE)
         PROVE  k \in {1, 2, 4}
    BY <1>2, <1>10
  <1> QED
    BY <1>2, <1>4, <1>5, <1>7, <1>8, <1>9, <1>10

\* yarn_tpool_init: a pool, or nothing.
LEMMA TpoolInitSound ==
  ASSUME NEW l \in Lib, Handled, ~l.pool, l.live \cap PoolParts = {},
         NEW o \in TpoolInit(l)
  PROVE  /\ o.ok \in BOOLEAN
         /\ Sound(l, o.lib)
         /\ o.lib.init = l.init /\ o.lib.dep = l.dep /\ o.lib.pool = o.ok
         /\ o.lib.live = IF o.ok THEN l.live \cup PoolParts ELSE l.live
  <1>1. PICK r \in TrySteps(l, <<"pool_cond", "pool_mutex", "barrier", "pool", "worker_0",
                                  "worker_1">>, TpoolUndo) :
          o = IF r.ok THEN Return([r.lib EXCEPT !.pool = TRUE], TRUE) ELSE r
    BY DEF TpoolInit
  <1>2. CASE r = Return(Acquire(l, PoolParts), TRUE)
    <2> DEFINE m == Acquire(l, PoolParts)
    <2>1. Like(l, m) /\ m.live = l.live \cup PoolParts
      BY AcquireLike DEF Resource
    <2>2. o = Return([m EXCEPT !.pool = TRUE], TRUE)
      BY <1>1, <1>2 DEF Return
    <2> HIDE DEF m
    <2> QED
      BY <2>1, <2>2 DEF Return, Like, Sound, Lib
  <1>3. ASSUME NEW m, r = Return(m, FALSE), Like(l, m), m.live = l.live
        PROVE  /\ o.ok \in BOOLEAN
               /\ Sound(l, o.lib)
               /\ o.lib.init = l.init /\ o.lib.dep = l.dep /\ o.lib.pool = o.ok
               /\ o.lib.live = IF o.ok THEN l.live \cup PoolParts ELSE l.live
    BY <1>1, <1>3 DEF Return, Like, Lib
  <1>4. \A S \in SUBSET PoolParts :
          Like(l, Release(Acquire(l, S), S)) /\ Release(Acquire(l, S), S).live = l.live
    <2> TAKE S \in SUBSET PoolParts
    <2>1. S \in SUBSET Resource /\ S \cap l.live = {}
      BY DEF Resource
    <2> QED
      BY ONLY <2>1, GivenBack, l \in Lib
  <1>5. {"pool_cond"} \subseteq PoolParts /\ {"pool_cond", "pool_mutex"} \subseteq PoolParts
        /\ {"pool_cond", "pool_mutex", "barrier"} \subseteq PoolParts
    BY DEF PoolParts
  <1>6. CASE r = Return(TpoolUndo(Acquire(l, {}), "pool_cond"), FALSE)
    BY <1>3, <1>6, AcquireNone DEF TpoolUndo
  <1>7. CASE r = Return(TpoolUndo(Acquire(l, {"pool_cond"}), "pool_mutex"), FALSE)
    BY <1>3, <1>4, <1>5, <1>7 DEF TpoolUndo
  <1>8. CASE r = Return(TpoolUndo(Acquire(l, {"pool_cond", "pool_mutex"}), "barrier"), FALSE)
    <2>1. {"pool_mutex", "pool_cond"} = {"pool_cond", "pool_mutex"}
      OBVIOUS
    <2> QED
      BY <1>3, <1>4, <1>5, <1>8, <2>1 DEF TpoolUndo
  <1>9. CASE r = Return(TpoolUndo(Acquire(l, {"pool_cond", "pool_mutex", "barrier"}), "pool"), FALSE)
    <2>1. {"barrier", "pool_mutex", "pool_cond"} = {"pool_cond", "pool_mutex", "barrier"}
      OBVIOUS
    <2> QED
      BY <1>3, <1>4, <1>5, <1>9, <2>1 DEF TpoolUndo
  <1> QED
    BY <1>1, <1>2, <1>6, <1>7, <1>8, <1>9, TpoolTry

\* yarn_tpool_destroy, of a pool that exists.
LEMMA TpoolDestroySound ==
  ASSUME NEW l \in Lib, l.pool, PoolParts \subseteq l.live
  PROVE  /\ Sound(l, TpoolDestroy(l))
         /\ TpoolDestroy(l).init = l.init /\ TpoolDestroy(l).dep = l.dep
         /\ TpoolDestroy(l).pool = FALSE
         /\ TpoolDestroy(l).live = l.live \ PoolParts
  <1> DEFINE u == Use(l, {"pool_mutex", "pool_cond"})
             s == Release(u, Workers)
             d == Release(s, PoolParts \ Workers)
  <1>1. Like(l, u) /\ u.live = l.live
    BY UseLike DEF PoolParts
  <1> HIDE DEF u
  <1>2. Like(u, s) /\ s.live = l.live \ Workers
    <2>1. u \in Lib /\ Workers \in SUBSET u.live
      BY <1>1 DEF PoolParts, Like, Sound
    <2> QED
      BY <1>1, <2>1, ReleaseLike
  <1> HIDE DEF s
  <1>3. Like(s, d) /\ d.live = s.live \ (PoolParts \ Workers)
    BY <1>1, <1>2, ReleaseLike DEF Like, Sound
  <1> HIDE DEF d
  <1>4. Like(l, d) /\ d.live = l.live \ PoolParts
    BY <1>1, <1>2, <1>3, LikeTransitive DEF PoolParts
  <1>5. TpoolDestroy(l) = [d EXCEPT !.pool = FALSE]
    BY DEF TpoolDestroy, StopThreads, u, s, d
  <1> QED
    BY <1>4, <1>5 DEF Like, Sound, Lib

\* yarn_epoch_init: the ring, or nothing.
LEMMA EpochInitLike ==
  ASSUME NEW l \in Lib, Handled, l.live \cap EpochParts = {}, NEW o \in EpochInit(l)
  PROVE  /\ o.ok \in BOOLEAN
         /\ Like(l, o.lib)
         /\ o.lib.live = IF o.ok THEN l.live \cup EpochParts ELSE l.live
  <1>1. CASE o = Return(Acquire(l, EpochParts), TRUE)
    <2>1. Like(l, Acquire(l, EpochParts)) /\ Acquire(l, EpochParts).live = l.live \cup EpochParts
      BY AcquireLike DEF Resource
    <2> QED
      BY <1>1, <2>1 DEF Return
  <1>2. \A S \in SUBSET EpochParts :
          Like(l, Release(Acquire(l, S), S)) /\ Release(Acquire(l, S), S).live = l.live
    <2> TAKE S \in SUBSET EpochParts
    <2>1. S \in SUBSET Resource /\ S \cap l.live = {}
      BY DEF Resource
    <2> QED
      BY ONLY <2>1, GivenBack, l \in Lib
  <1>3. CASE o = Return(EpochUndo(Acquire(l, {}), "rollback_lock"), FALSE)
    BY <1>3, AcquireNone DEF EpochUndo, Return
  <1>4. CASE o = Return(EpochUndo(Acquire(l, {"rollback_lock"}), "next_lock"), FALSE)
    <2>1. {"rollback_lock"} \subseteq EpochParts
      BY DEF EpochParts
    <2> QED
      BY <1>2, <1>4, <2>1 DEF EpochUndo, Return
  <1>5. CASE o = Return(EpochUndo(Acquire(l, {"rollback_lock", "next_lock", "next_cond"}), "epoch_list"), FALSE)
    <2>1. /\ {"next_lock", "next_cond", "rollback_lock"} = {"rollback_lock", "next_lock", "next_cond"}
          /\ {"rollback_lock", "next_lock", "next_cond"} \subseteq EpochParts
      BY DEF EpochParts
    <2> QED
      BY <1>2, <1>5, <2>1 DEF EpochUndo, Return
  <1> QED
    BY <1>1, <1>3, <1>4, <1>5, EpochTry DEF EpochInit

-----------------------------------------------------------------------------
(* dependency.c, map.c, pmem.c and pstore.c.                                *)

(* The outcomes of yarn_dep_global_init.                                    *)
LEMMA DepTry ==
  ASSUME NEW l, Handled, NEW o \in TrySteps(l, <<"map", "table", "pmem", "cache", "store", "info_list", "info_index">>, DepUndo)
  PROVE  \/ o = Return(Acquire(l, DependencyParts), TRUE)
         \/ o = Return(DepUndo(Acquire(l, {}), "map"), FALSE)
         \/ o = Return(DepUndo(Acquire(l, {"map"}), "table"), FALSE)
         \/ o = Return(DepUndo(Acquire(l, {"map", "table"}), "pmem"), FALSE)
         \/ o = Return(DepUndo(Acquire(l, {"map", "table", "pmem"}), "cache"), FALSE)
         \/ o = Return(DepUndo(Acquire(l, {"map", "table", "pmem", "cache"}), "store"), FALSE)
         \/ o = Return(DepUndo(Acquire(l, {"map", "table", "pmem", "cache", "store"}), "info_list"), FALSE)
         \/ o = Return(DepUndo(Acquire(l, {"map", "table", "pmem", "cache", "store", "info_list"}), "info_index"), FALSE)
  <1> DEFINE steps == <<"map", "table", "pmem", "cache", "store", "info_list", "info_index">>
             Upto(k) == {steps[j] : j \in 1 .. k - 1}
  <1>1. o \in {Return(Acquire(l, Upto(Len(steps) + 1)), TRUE)} \cup
              {Return(DepUndo(Acquire(l, Upto(k)), steps[k]), FALSE) :
                 k \in {j \in 1 .. Len(steps) : steps[j] \in Fallible}}
    BY DEF TrySteps
  <1>2. /\ Len(steps) = 7
        /\ steps[1] = "map"
        /\ steps[2] = "table"
        /\ steps[3] = "pmem"
        /\ steps[4] = "cache"
        /\ steps[5] = "store"
        /\ steps[6] = "info_list"
        /\ steps[7] = "info_index"
    BY DEF Handled, Workers
  <1>3. Upto(7 + 1) = DependencyParts
    BY DEF DependencyParts
  <1>4. Upto(1) = {}
    OBVIOUS
  <1>5. Upto(2) = {"map"}
    OBVIOUS
  <1>6. Upto(3) = {"map", "table"}
    OBVIOUS
  <1>7. Upto(4) = {"map", "table", "pmem"}
    OBVIOUS
  <1>8. Upto(5) = {"map", "table", "pmem", "cache"}
    OBVIOUS
  <1>9. Upto(6) = {"map", "table", "pmem", "cache", "store"}
    OBVIOUS
  <1>10. Upto(7) = {"map", "table", "pmem", "cache", "store", "info_list"}
    OBVIOUS
  <1> HIDE DEF steps, Upto
  <1>11. \/ o = Return(Acquire(l, Upto(7 + 1)), TRUE)
        \/ \E k \in 1 .. 7 :
             /\ steps[k] \in Fallible
             /\ o = Return(DepUndo(Acquire(l, Upto(k)), steps[k]), FALSE)
    BY ONLY <1>1, <1>2
  <1>12. CASE o = Return(Acquire(l, Upto(7 + 1)), TRUE)
    BY <1>3, <1>12
  <1>13. ASSUME NEW k \in 1 .. 7, steps[k] \in Fallible,
                o = Return(DepUndo(Acquire(l, Upto(k)), steps[k]), FALSE)
         PROVE  k \in {1, 2, 3, 4, 5, 6, 7}
    BY <1>2, <1>13
  <1>14. ASSUME NEW k \in {1, 2, 3, 4, 5, 6, 7},
                o = Return(DepUndo(Acquire(l, Upto(k)), steps[k]), FALSE)
         PROVE  \/ o = Return(DepUndo(Acquire(l, {}), "map"), FALSE)
                \/ o = Return(DepUndo(Acquire(l, {"map"}), "table"), FALSE)
                \/ o = Return(DepUndo(Acquire(l, {"map", "table"}), "pmem"), FALSE)
                \/ o = Return(DepUndo(Acquire(l, {"map", "table", "pmem"}), "cache"), FALSE)
                \/ o = Return(DepUndo(Acquire(l, {"map", "table", "pmem", "cache"}), "store"), FALSE)
                \/ o = Return(DepUndo(Acquire(l, {"map", "table", "pmem", "cache", "store"}), "info_list"), FALSE)
                \/ o = Return(DepUndo(Acquire(l, {"map", "table", "pmem", "cache", "store", "info_list"}), "info_index"), FALSE)
    <2>1. CASE k = 1
      BY ONLY <1>14, <2>1, <1>2, <1>4
    <2>2. CASE k = 2
      BY ONLY <1>14, <2>2, <1>2, <1>5
    <2>3. CASE k = 3
      BY ONLY <1>14, <2>3, <1>2, <1>6
    <2>4. CASE k = 4
      BY ONLY <1>14, <2>4, <1>2, <1>7
    <2>5. CASE k = 5
      BY ONLY <1>14, <2>5, <1>2, <1>8
    <2>6. CASE k = 6
      BY ONLY <1>14, <2>6, <1>2, <1>9
    <2>7. CASE k = 7
      BY ONLY <1>14, <2>7, <1>2, <1>10
    <2> QED
      BY <2>1, <2>2, <2>3, <2>4, <2>5, <2>6, <2>7
  <1> QED
    BY <1>11, <1>12, <1>13, <1>14


\* clear_table, of a table that exists.
LEMMA ClearTableLike ==
  ASSUME NEW l \in Lib, "table" \in l.live
  PROVE  /\ Like(l, ClearTable(l))
         /\ ClearTable(l).live = l.live \ {"record"}
  <1>1. CASE "record" \in l.live
    <2> DEFINE r == Release(l, {"record"})
    <2>1. Like(l, r) /\ r.live = l.live \ {"record"}
      BY <1>1, ReleaseLike
    <2>2. ClearTable(l) = [r EXCEPT !.misused = @ \cup {"commit_lock"}]
      BY <1>1 DEF ClearTable
    <2> HIDE DEF r
    <2> QED
      BY <2>1, <2>2 DEF Like, Sound, Lib
  <1>2. CASE "record" \notin l.live
    BY <1>2 DEF ClearTable, Like, Sound, Lib
  <1> QED
    BY <1>1, <1>2

\* yarn_map_destroy.
LEMMA MapDestroyLike ==
  ASSUME NEW l \in Lib, {"map", "table"} \subseteq l.live
  PROVE  /\ Like(l, MapDestroy(l))
         /\ MapDestroy(l).live = l.live \ {"map", "table", "record"}
  <1> DEFINE c == ClearTable(l)
             S == {"map"} \cup ({"table"} \cap l.live)
  <1>1. Like(l, c) /\ c.live = l.live \ {"record"}
    BY ClearTableLike
  <1>2. MapDestroy(l) = Release(c, S)
    BY DEF MapDestroy
  <1> HIDE DEF c
  <1>3. c \in Lib /\ S \in SUBSET c.live /\ S = {"map", "table"}
    BY <1>1 DEF Like, Sound
  <1> HIDE DEF S
  <1>4. Like(c, Release(c, S)) /\ Release(c, S).live = c.live \ S
    BY <1>3, ReleaseLike
  <1> QED
    BY <1>1, <1>2, <1>3, <1>4, LikeTransitive

\* yarn_pmem_destroy.
LEMMA PmemDestroyLike ==
  ASSUME NEW l \in Lib, {"pmem", "cache"} \subseteq l.live
  PROVE  /\ Like(l, PmemDestroy(l))
         /\ PmemDestroy(l).live = l.live \ {"pmem", "cache", "cached_item"}
  <1> DEFINE S == {"pmem", "cache"} \cup ({"cached_item"} \cap l.live)
             r == Release(l, S)
  <1>1. S \in SUBSET l.live
    OBVIOUS
  <1>2. Like(l, r) /\ r.live = l.live \ S
    BY <1>1, ReleaseLike
  <1>3. PmemDestroy(l) = [r EXCEPT !.leaked = @ \cup {"cache"}]
    BY DEF PmemDestroy
  <1>4. "cache" \in Resource
    BY DEF Resource, DependencyParts
  <1> HIDE DEF r
  <1> QED
    BY <1>2, <1>3, <1>4 DEF Like, Sound, Lib

\* yarn_dep_global_destroy: with or without the index of a failed reset.
LEMMA DepDestroyLike ==
  ASSUME NEW l \in Lib, DependencyParts \ {"info_index"} \subseteq l.live
  PROVE  /\ Like(l, DepDestroy(l))
         /\ DepDestroy(l).live = l.live \ (DependencyParts \cup Items)
  <1> DEFINE m == MapDestroy(l)
             p == PmemDestroy(m)
             S == {"store", "info_list"} \cup ({"thread_epoch", "info_index"} \cap l.live)
             d == Release(p, S)
  <1>1. Like(l, m) /\ m.live = l.live \ {"map", "table", "record"}
    BY MapDestroyLike DEF DependencyParts
  <1> HIDE DEF m
  <1>2. m \in Lib /\ {"pmem", "cache"} \subseteq m.live
    BY <1>1 DEF DependencyParts, Like, Sound
  <1>3. Like(m, p) /\ p.live = m.live \ {"pmem", "cache", "cached_item"}
    BY <1>2, PmemDestroyLike
  <1> HIDE DEF p
  <1>4. p \in Lib /\ S \in SUBSET p.live
    BY <1>1, <1>3 DEF DependencyParts, Like, Sound
  <1>5. Like(p, d) /\ d.live = p.live \ S
    BY <1>4, ReleaseLike
  <1>6. d.live = l.live \ (DependencyParts \cup Items)
    BY <1>1, <1>3, <1>5 DEF DependencyParts, Items
  <1>7. DepDestroy(l) = d
    BY DEF DepDestroy, d, p, m
  <1> HIDE DEF d
  <1>8. Like(l, d)
    BY <1>1, <1>3, <1>5, LikeTransitive
  <1> QED
    BY <1>6, <1>7, <1>8


\* The map and the allocator go together.
LEMMA MapAndPmemLike ==
  ASSUME NEW l \in Lib, {"map", "table", "pmem", "cache"} \subseteq l.live
  PROVE  /\ Like(l, MapDestroy(PmemDestroy(l)))
         /\ MapDestroy(PmemDestroy(l)).live =
              l.live \ {"map", "table", "record", "pmem", "cache", "cached_item"}
  <1> DEFINE p == PmemDestroy(l)
  <1>1. Like(l, p) /\ p.live = l.live \ {"pmem", "cache", "cached_item"}
    BY PmemDestroyLike
  <1> HIDE DEF p
  <1>2. p \in Lib /\ {"map", "table"} \subseteq p.live
    BY <1>1 DEF Like, Sound
  <1>3. Like(p, MapDestroy(p)) /\ MapDestroy(p).live = p.live \ {"map", "table", "record"}
    BY <1>2, MapDestroyLike
  <1>4. Like(l, MapDestroy(p))
    BY <1>1, <1>3, LikeTransitive
  <1>5. MapDestroy(p).live = l.live \ {"map", "table", "record", "pmem", "cache", "cached_item"}
    BY <1>1, <1>3
  <1> QED
    BY <1>4, <1>5 DEF p

\* The cleanup of yarn_dep_global_init leaves what there was.
LEMMA DepUndoLike ==
  ASSUME NEW l \in Lib, l.live \cap (DependencyParts \cup Items) = {},
         NEW S \in SUBSET DependencyParts, NEW R,
         \/ S = {} /\ R = "map"
         \/ S = {"map"} /\ R = "table"
         \/ S = {"map", "table"} /\ R = "pmem"
         \/ S = {"map", "table", "pmem"} /\ R = "cache"
         \/ S = {"map", "table", "pmem", "cache"} /\ R = "store"
         \/ S = {"map", "table", "pmem", "cache", "store"} /\ R = "info_list"
         \/ S = {"map", "table", "pmem", "cache", "store", "info_list"} /\ R = "info_index"
  PROVE  /\ Like(l, DepUndo(Acquire(l, S), R))
         /\ DepUndo(Acquire(l, S), R).live = l.live
  <1> DEFINE m == Acquire(l, S)
             d == DepUndo(m, R)
  <1>1. Like(l, m) /\ m.live = l.live \cup S
    BY AcquireLike DEF Resource
  <1> HIDE DEF m
  <1>2. m \in Lib
    BY <1>1 DEF Like, Sound
  <1>3. \A T : T \subseteq S => Like(m, Release(m, T)) /\ Release(m, T).live = m.live \ T
    <2> TAKE T
    <2> HAVE T \subseteq S
    <2>1. T \in SUBSET m.live
      BY <1>1
    <2> QED
      BY ONLY <1>2, <2>1, ReleaseLike
  <1>4. ASSUME Like(m, d), d.live \cap (DependencyParts \cup Items) = {},
               l.live \subseteq d.live, d.live \subseteq m.live
        PROVE  Like(l, d) /\ d.live = l.live
    BY <1>1, <1>4, LikeTransitive
  <1> SUFFICES /\ Like(m, d)
               /\ d.live \cap (DependencyParts \cup Items) = {}
               /\ l.live \subseteq d.live
               /\ d.live \subseteq m.live
    BY <1>4 DEF m
  <1>5. CASE S = {} /\ R = "map"
    <2>1. d = m
      BY <1>5 DEF DepUndo
    <2> QED
      BY <1>1, <1>2, <1>5, <2>1 DEF Like, Sound
  <1>6. CASE S = {"map"} /\ R = "table"
    <2>1. d = Release(m, S)
      BY <1>6 DEF DepUndo
    <2> QED
      BY <1>1, <1>3, <1>6, <2>1
  <1>7. CASE S = {"map", "table"} /\ R = "pmem"
    <2>1. d = MapDestroy(m)
      BY <1>7 DEF DepUndo
    <2>2. Like(m, d) /\ d.live = m.live \ {"map", "table", "record"}
      BY <1>1, <1>2, <1>7, <2>1, MapDestroyLike
    <2> QED
      BY <1>1, <1>7, <2>2 DEF DependencyParts, Items
  <1>8. CASE S = {"map", "table", "pmem"} /\ R = "cache"
    <2> DEFINE r == Release(m, {"pmem"})
    <2>1. d = MapDestroy(r)
      BY <1>8 DEF DepUndo
    <2>2. Like(m, r) /\ r.live = m.live \ {"pmem"}
      BY <1>3, <1>8
    <2> HIDE DEF r
    <2>3. r \in Lib /\ {"map", "table"} \subseteq r.live
      BY <1>1, <1>8, <2>2 DEF Like, Sound
    <2>4. Like(r, d) /\ d.live = r.live \ {"map", "table", "record"}
      BY <2>1, <2>3, MapDestroyLike
    <2>5. Like(m, d)
      BY <2>2, <2>4, LikeTransitive
    <2> QED
      BY <1>1, <1>8, <2>2, <2>4, <2>5 DEF DependencyParts, Items
  <1>9. CASE S = {"map", "table", "pmem", "cache"} /\ R = "store"
    <2>1. d = MapDestroy(PmemDestroy(m))
      BY <1>9 DEF DepUndo
    <2>2. Like(m, d) /\ d.live = m.live \ {"map", "table", "record", "pmem", "cache", "cached_item"}
      BY <1>1, <1>2, <1>9, <2>1, MapAndPmemLike
    <2> QED
      BY <1>1, <1>9, <2>2 DEF DependencyParts, Items
  <1>10. ASSUME NEW T \in SUBSET {"store", "info_list"},
                S = {"map", "table", "pmem", "cache"} \cup T,
                d = MapDestroy(PmemDestroy(Release(m, T)))
         PROVE  /\ Like(m, d)
                /\ d.live \cap (DependencyParts \cup Items) = {}
                /\ l.live \subseteq d.live
                /\ d.live \subseteq m.live
    <2> DEFINE r == Release(m, T)
    <2>1. Like(m, r) /\ r.live = m.live \ T
      BY <1>3, <1>10
    <2> HIDE DEF r
    <2>2. r \in Lib /\ {"map", "table", "pmem", "cache"} \subseteq r.live
      BY <1>1, <1>10, <2>1 DEF Like, Sound
    <2>3. Like(r, d) /\ d.live = r.live \ {"map", "table", "record", "pmem", "cache", "cached_item"}
      BY <1>10, <2>2, MapAndPmemLike DEF r
    <2>4. Like(m, d)
      BY <2>1, <2>3, LikeTransitive
    <2> QED
      BY <1>1, <1>10, <2>1, <2>3, <2>4 DEF DependencyParts, Items
  <1>11. CASE S = {"map", "table", "pmem", "cache", "store"} /\ R = "info_list"
    <2>1. d = MapDestroy(PmemDestroy(Release(m, {"store"})))
      BY <1>11 DEF DepUndo
    <2>2. S = {"map", "table", "pmem", "cache"} \cup {"store"}
      BY <1>11
    <2> QED
      BY <1>10, <2>1, <2>2
  <1>12. CASE S = {"map", "table", "pmem", "cache", "store", "info_list"} /\ R = "info_index"
    <2>1. d = MapDestroy(PmemDestroy(Release(m, {"store", "info_list"})))
      BY <1>12 DEF DepUndo
    <2>2. S = {"map", "table", "pmem", "cache"} \cup {"store", "info_list"}
      BY <1>12
    <2> QED
      BY <1>10, <2>1, <2>2
  <1> QED
    BY <1>5, <1>6, <1>7, <1>8, <1>9, <1>11, <1>12

\* yarn_dep_global_init: a tracker, or nothing.
LEMMA DepInitLike ==
  ASSUME NEW l \in Lib, Handled, l.live \cap (DependencyParts \cup Items) = {},
         NEW ws \in Nat, NEW indexSize \in Nat, NEW o \in DepInit(l, ws, indexSize)
  PROVE  /\ o.ok \in BOOLEAN
         /\ Like(l, o.lib)
         /\ o.ok => o.lib.live = l.live \cup DependencyParts
         /\ ~o.ok => o.lib.live = l.live
  <1> DEFINE b == [l EXCEPT !.capacity = ws, !.indexSize = indexSize]
  <1>1. Like(l, b) /\ b.live = l.live
    BY DEF Like, Sound, Lib
  <1>2. o \in TrySteps(b, <<"map", "table", "pmem", "cache", "store", "info_list", "info_index">>, DepUndo)
    BY DEF DepInit
  <1> HIDE DEF b
  <1>3. b \in Lib /\ b.live \cap (DependencyParts \cup Items) = {}
    BY <1>1 DEF Like, Sound
  <1>4. CASE o = Return(Acquire(b, DependencyParts), TRUE)
    <2>1. Like(b, Acquire(b, DependencyParts)) /\ Acquire(b, DependencyParts).live = b.live \cup DependencyParts
      BY <1>3, AcquireLike DEF Resource
    <2>2. Like(l, Acquire(b, DependencyParts))
      BY <1>1, <2>1, LikeTransitive
    <2> QED
      BY <1>1, <1>4, <2>1, <2>2 DEF Return
  <1>5. ASSUME NEW m, o = Return(m, FALSE), Like(b, m), m.live = b.live
        PROVE  o.ok = FALSE /\ Like(l, o.lib) /\ o.lib.live = l.live
    <2>1. Like(l, m)
      BY <1>1, <1>5, LikeTransitive
    <2> QED
      BY <1>1, <1>5, <2>1 DEF Return
  <1>6. ASSUME NEW S \in SUBSET DependencyParts, NEW R,
               \/ S = {} /\ R = "map"
               \/ S = {"map"} /\ R = "table"
               \/ S = {"map", "table"} /\ R = "pmem"
               \/ S = {"map", "table", "pmem"} /\ R = "cache"
               \/ S = {"map", "table", "pmem", "cache"} /\ R = "store"
               \/ S = {"map", "table", "pmem", "cache", "store"} /\ R = "info_list"
               \/ S = {"map", "table", "pmem", "cache", "store", "info_list"} /\ R = "info_index",
               o = Return(DepUndo(Acquire(b, S), R), FALSE)
        PROVE  o.ok = FALSE /\ Like(l, o.lib) /\ o.lib.live = l.live
    <2>1. Like(b, DepUndo(Acquire(b, S), R)) /\ DepUndo(Acquire(b, S), R).live = b.live
      BY <1>3, <1>6, DepUndoLike
    <2> QED
      BY <1>5, <1>6, <2>1
  <1>7. CASE o = Return(DepUndo(Acquire(b, {}), "map"), FALSE)
    <2>1. {} \in SUBSET DependencyParts
      BY DEF DependencyParts
    <2>2. o.ok = FALSE /\ Like(l, o.lib) /\ o.lib.live = l.live
      BY <1>6, <1>7, <2>1
    <2> QED
      BY <2>2
  <1>8. CASE o = Return(DepUndo(Acquire(b, {"map"}), "table"), FALSE)
    <2>1. {"map"} \in SUBSET DependencyParts
      BY DEF DependencyParts
    <2>2. o.ok = FALSE /\ Like(l, o.lib) /\ o.lib.live = l.live
      BY <1>6, <1>8, <2>1
    <2> QED
      BY <2>2
  <1>9. CASE o = Return(DepUndo(Acquire(b, {"map", "table"}), "pmem"), FALSE)
    <2>1. {"map", "table"} \in SUBSET DependencyParts
      BY DEF DependencyParts
    <2>2. o.ok = FALSE /\ Like(l, o.lib) /\ o.lib.live = l.live
      BY <1>6, <1>9, <2>1
    <2> QED
      BY <2>2
  <1>10. CASE o = Return(DepUndo(Acquire(b, {"map", "table", "pmem"}), "cache"), FALSE)
    <2>1. {"map", "table", "pmem"} \in SUBSET DependencyParts
      BY DEF DependencyParts
    <2>2. o.ok = FALSE /\ Like(l, o.lib) /\ o.lib.live = l.live
      BY <1>6, <1>10, <2>1
    <2> QED
      BY <2>2
  <1>11. CASE o = Return(DepUndo(Acquire(b, {"map", "table", "pmem", "cache"}), "store"), FALSE)
    <2>1. {"map", "table", "pmem", "cache"} \in SUBSET DependencyParts
      BY DEF DependencyParts
    <2>2. o.ok = FALSE /\ Like(l, o.lib) /\ o.lib.live = l.live
      BY <1>6, <1>11, <2>1
    <2> QED
      BY <2>2
  <1>12. CASE o = Return(DepUndo(Acquire(b, {"map", "table", "pmem", "cache", "store"}), "info_list"), FALSE)
    <2>1. {"map", "table", "pmem", "cache", "store"} \in SUBSET DependencyParts
      BY DEF DependencyParts
    <2>2. o.ok = FALSE /\ Like(l, o.lib) /\ o.lib.live = l.live
      BY <1>6, <1>12, <2>1
    <2> QED
      BY <2>2
  <1>13. CASE o = Return(DepUndo(Acquire(b, {"map", "table", "pmem", "cache", "store", "info_list"}), "info_index"), FALSE)
    <2>1. {"map", "table", "pmem", "cache", "store", "info_list"} \in SUBSET DependencyParts
      BY DEF DependencyParts
    <2>2. o.ok = FALSE /\ Like(l, o.lib) /\ o.lib.live = l.live
      BY <1>6, <1>13, <2>1
    <2> QED
      BY <2>2
  <1>14. \/ o = Return(Acquire(b, DependencyParts), TRUE)
         \/ o = Return(DepUndo(Acquire(b, {}), "map"), FALSE)
         \/ o = Return(DepUndo(Acquire(b, {"map"}), "table"), FALSE)
         \/ o = Return(DepUndo(Acquire(b, {"map", "table"}), "pmem"), FALSE)
         \/ o = Return(DepUndo(Acquire(b, {"map", "table", "pmem"}), "cache"), FALSE)
         \/ o = Return(DepUndo(Acquire(b, {"map", "table", "pmem", "cache"}), "store"), FALSE)
         \/ o = Return(DepUndo(Acquire(b, {"map", "table", "pmem", "cache", "store"}), "info_list"), FALSE)
         \/ o = Return(DepUndo(Acquire(b, {"map", "table", "pmem", "cache", "store", "info_list"}), "info_index"), FALSE)
    BY <1>2, DepTry
  <1> QED
    BY <1>4, <1>7, <1>8, <1>9, <1>10, <1>11, <1>12, <1>13, <1>14


Tracker == DependencyParts \cup Items

\* yarn_map_reset, when a larger table can be made.
LEMMA MapResetLike ==
  ASSUME NEW l \in Lib, Handled, "table" \in l.live, NEW ws \in Nat, NEW o \in MapReset(l, ws)
  PROVE  /\ o.ok = TRUE
         /\ Like(l, o.lib)
         /\ o.lib.live = l.live \ {"record"}
  <1> DEFINE c == ClearTable(l)
             r == Release(c, {"table"})
             f == [r EXCEPT !.capacity = ws]
  <1>1. \/ o = Return(c, TRUE)
        \/ o = Return(Acquire(f, {"table"}), TRUE)
    BY DEF MapReset, Handled
  <1>2. Like(l, c) /\ c.live = l.live \ {"record"}
    BY ClearTableLike
  <1> HIDE DEF c
  <1>3. c \in Lib /\ {"table"} \in SUBSET c.live
    BY <1>2 DEF Like, Sound
  <1>4. Like(c, r) /\ r.live = c.live \ {"table"}
    BY <1>3, ReleaseLike
  <1> HIDE DEF r
  <1>5. Like(c, f) /\ f.live = c.live \ {"table"}
    BY <1>4 DEF Like, Sound, Lib
  <1> HIDE DEF f
  <1>6. f \in Lib /\ {"table"} \in SUBSET Resource /\ {"table"} \cap f.live = {}
    BY <1>5 DEF Like, Sound, Resource, DependencyParts
  <1>7. Like(f, Acquire(f, {"table"})) /\ Acquire(f, {"table"}).live = f.live \cup {"table"}
    BY <1>6, AcquireLike
  <1>8. Like(l, Acquire(f, {"table"}))
    BY <1>2, <1>5, <1>7, LikeTransitive
  <1>9. Acquire(f, {"table"}).live = l.live \ {"record"}
    BY <1>2, <1>3, <1>5, <1>7
  <1> QED
    BY <1>1, <1>2, <1>8, <1>9 DEF Return

\* The index is made again, or is gone.
LEMMA IndexResetLike ==
  ASSUME NEW l \in Lib, "info_index" \in l.live, NEW indexSize \in Nat,
         NEW o \in IndexReset(l, indexSize)
  PROVE  /\ o.ok \in BOOLEAN
         /\ Like(l, o.lib)
         /\ o.lib.live = IF o.ok THEN l.live ELSE l.live \ {"info_index"}
  <1> DEFINE r == Release(l, {"info_index"})
             f == [r EXCEPT !.indexSize = indexSize]
  <1>1. Like(l, r) /\ r.live = l.live \ {"info_index"}
    BY ReleaseLike
  <1>2. CASE l.indexSize = indexSize
    <2>1. o = Return(l, TRUE)
      BY <1>2, Zenon DEF IndexReset
    <2>2. Like(l, l)
      BY DEF Like, Sound
    <2> QED
      BY <2>1, <2>2 DEF Return
  <1>3. CASE l.indexSize # indexSize
    <2> DEFINE steps == <<"info_index">>
               Upto(k) == {steps[j] : j \in 1 .. k - 1}
    <2>1. o \in {Return(Acquire(f, Upto(Len(steps) + 1)), TRUE)} \cup
                {Return(Acquire(f, Upto(k)), FALSE) :
                   k \in {j \in 1 .. Len(steps) : steps[j] \in Fallible}}
      BY <1>3 DEF IndexReset, TrySteps
    <2>2. Len(steps) = 1 /\ Upto(1 + 1) = {"info_index"} /\ Upto(1) = {}
      OBVIOUS
    <2> HIDE DEF steps, Upto, f
    <2>3. \/ o = Return(Acquire(f, {"info_index"}), TRUE)
          \/ o = Return(Acquire(f, {}), FALSE)
      <3>1. \/ o = Return(Acquire(f, Upto(1 + 1)), TRUE)
            \/ \E k \in 1 .. 1 : o = Return(Acquire(f, Upto(k)), FALSE)
        BY ONLY <2>1, <2>2
      <3>2. \A k \in 1 .. 1 : k = 1
        OBVIOUS
      <3> QED
        BY ONLY <2>2, <3>1, <3>2
    <2> HIDE DEF r
    <2>4. Like(l, f) /\ f.live = l.live \ {"info_index"}
      BY <1>1 DEF Like, Sound, Lib, f
    <2>5. f \in Lib /\ {"info_index"} \in SUBSET Resource /\ {"info_index"} \cap f.live = {}
      BY <2>4 DEF Like, Sound, Resource, DependencyParts
    <2>6. /\ Like(f, Acquire(f, {"info_index"}))
          /\ Acquire(f, {"info_index"}).live = f.live \cup {"info_index"}
          /\ Like(f, Acquire(f, {})) /\ Acquire(f, {}).live = f.live
      BY <2>5, AcquireLike, AcquireNone
    <2>7. Like(l, Acquire(f, {"info_index"})) /\ Like(l, Acquire(f, {}))
      BY <2>4, <2>6, LikeTransitive
    <2>8. Acquire(f, {"info_index"}).live = l.live
      BY <2>4, <2>6
    <2>9. CASE o = Return(Acquire(f, {"info_index"}), TRUE)
      BY ONLY <2>7, <2>8, <2>9 DEF Return
    <2>10. CASE o = Return(Acquire(f, {}), FALSE)
      BY ONLY <2>4, <2>6, <2>7, <2>10 DEF Return
    <2> QED
      BY <2>3, <2>9, <2>10
  <1> QED
    BY <1>2, <1>3

\* yarn_dep_global_reset.
LEMMA DepResetLike ==
  ASSUME NEW l \in Lib, Handled, DependencyParts \subseteq l.live,
         NEW ws \in Nat, NEW indexSize \in Nat, NEW o \in DepReset(l, ws, indexSize)
  PROVE  /\ o.ok \in BOOLEAN
         /\ Like(l, o.lib)
         /\ o.lib.live = IF o.ok THEN l.live \ {"record"}
                         ELSE l.live \ {"record", "info_index"}
  <1>1. PICK r \in MapReset(l, ws) : o \in IF r.ok THEN IndexReset(r.lib, indexSize) ELSE {r}
    BY DEF DepReset
  <1>2. r.ok = TRUE /\ Like(l, r.lib) /\ r.lib.live = l.live \ {"record"}
    <2>1. "table" \in l.live
      BY DEF DependencyParts
    <2> QED
      BY <2>1, <1>1, MapResetLike
  <1>3. o \in IndexReset(r.lib, indexSize)
    BY <1>1, <1>2
  <1>4. r.lib \in Lib /\ "info_index" \in r.lib.live
    BY <1>2 DEF Like, Sound, DependencyParts
  <1>5. /\ o.ok \in BOOLEAN
        /\ Like(r.lib, o.lib)
        /\ o.lib.live = IF o.ok THEN r.lib.live ELSE r.lib.live \ {"info_index"}
    BY <1>3, <1>4, IndexResetLike
  <1>6. Like(l, o.lib)
    BY <1>2, <1>5, LikeTransitive
  <1> QED
    BY <1>2, <1>5, <1>6

-----------------------------------------------------------------------------
(* yarn.c.                                                                  *)

\* There is a tracker, or there is nothing of it.
TrackerIs(l, there) ==
  IF there THEN DependencyParts \subseteq l.live ELSE l.live \cap Tracker = {}

\* init_dep: a tracker, or nothing of it, or the assert of yarn.c:40.
LEMMA InitDepSound ==
  ASSUME NEW l \in Lib, Handled, ~l.crashed, TrackerIs(l, l.dep),
         NEW ws \in Nat, NEW indexSize \in Nat, NEW o \in InitDep(l, ws, indexSize)
  PROVE  /\ o.ok \in BOOLEAN /\ o.lib \in Lib
         /\ o.lib.leaked \subseteq l.leaked \cup {"cache"}
         /\ o.lib.misused \subseteq l.misused \cup {"commit_lock"}
         /\ o.lib.init = l.init /\ o.lib.pool = l.pool
         /\ \/ o.lib.crashed /\ AssertsOn /\ ~o.ok
            \/ /\ ~o.lib.crashed
               /\ o.lib.dep = o.ok /\ TrackerIs(o.lib, o.ok)
               /\ o.lib.live \ Tracker = l.live \ Tracker
  <1> DEFINE fresh(m) == {Return([r.lib EXCEPT !.dep = r.ok], r.ok) : r \in DepInit(m, ws, indexSize)}
             recover(m) == LET d == DepDestroy(m)
                           IN  IF d.crashed \/ AssertsOn
                               THEN {Return([d EXCEPT !.crashed = TRUE], FALSE)} ELSE fresh(d)
  <1>1. ASSUME NEW m, Like(l, m), m.live \cap Tracker = {}, m.live \ Tracker = l.live \ Tracker,
               o \in fresh(m)
        PROVE  /\ o.ok \in BOOLEAN /\ o.lib \in Lib
               /\ o.lib.leaked \subseteq l.leaked \cup {"cache"}
               /\ o.lib.misused \subseteq l.misused \cup {"commit_lock"}
               /\ o.lib.init = l.init /\ o.lib.pool = l.pool
               /\ ~o.lib.crashed
               /\ o.lib.dep = o.ok /\ TrackerIs(o.lib, o.ok)
               /\ o.lib.live \ Tracker = l.live \ Tracker
    <2>1. PICK r \in DepInit(m, ws, indexSize) : o = Return([r.lib EXCEPT !.dep = r.ok], r.ok)
      BY <1>1
    <2>2. m \in Lib
      BY <1>1 DEF Like, Sound
    <2>3. /\ r.ok \in BOOLEAN
          /\ Like(m, r.lib)
          /\ r.ok => r.lib.live = m.live \cup DependencyParts
          /\ ~r.ok => r.lib.live = m.live
      <3>1. m.live \cap (DependencyParts \cup Items) = {}
        BY <1>1 DEF Tracker
      <3> QED
        BY ONLY <2>1, <2>2, <3>1, Handled, ws \in Nat, indexSize \in Nat, DepInitLike
    <2>4. Like(l, r.lib)
      BY <1>1, <2>3, LikeTransitive
    <2>5. /\ r.lib.live \ Tracker = l.live \ Tracker
          /\ IF r.ok THEN DependencyParts \subseteq r.lib.live ELSE r.lib.live \cap Tracker = {}
      BY <1>1, <2>3 DEF Tracker
    <2>6. o.ok = r.ok /\ o.lib = [r.lib EXCEPT !.dep = r.ok]
      BY <2>1 DEF Return
    <2> QED
      BY <2>3, <2>4, <2>5, <2>6 DEF Like, Sound, Lib, TrackerIs
  <1>2. CASE ~l.dep
    <2>1. o \in fresh(l)
      BY <1>2 DEF InitDep
    <2>2. l.live \cap Tracker = {} /\ Like(l, l)
      BY <1>2 DEF TrackerIs, Like, Sound
    <2> QED
      BY <1>1, <2>1, <2>2
  <1>3. CASE l.dep
    <2>1. PICK r \in DepReset(l, ws, indexSize) : o \in IF r.ok THEN {r} ELSE recover(r.lib)
      BY <1>3 DEF InitDep
    <2> HIDE DEF fresh
    <2>2. /\ r.ok \in BOOLEAN
          /\ Like(l, r.lib)
          /\ r.lib.live = IF r.ok THEN l.live \ {"record"} ELSE l.live \ {"record", "info_index"}
      <3>1. DependencyParts \subseteq l.live
        BY <1>3 DEF TrackerIs
      <3> QED
        BY ONLY <2>1, <3>1, l \in Lib, Handled, ws \in Nat, indexSize \in Nat, DepResetLike
    <2>3. CASE r.ok
      <3>1. DependencyParts \subseteq r.lib.live /\ r.lib.live \ Tracker = l.live \ Tracker
        BY <1>3, <2>2, <2>3 DEF TrackerIs, DependencyParts, Tracker, Items
      <3>2. o = r
        BY <2>1, <2>3
      <3> QED
        BY <1>3, <2>2, <2>3, <3>1, <3>2 DEF Like, Sound, TrackerIs
    <2>4. CASE ~r.ok
      <3> DEFINE d == DepDestroy(r.lib)
      <3>1. r.lib \in Lib /\ DependencyParts \ {"info_index"} \subseteq r.lib.live
        BY <1>3, <2>2, <2>4 DEF Like, Sound, TrackerIs, DependencyParts
      <3>2. Like(r.lib, d) /\ d.live = r.lib.live \ Tracker
        BY <3>1, DepDestroyLike DEF Tracker
      <3>3. o \in IF d.crashed \/ AssertsOn
                  THEN {Return([d EXCEPT !.crashed = TRUE], FALSE)} ELSE fresh(d)
        BY <2>1, <2>4
      <3> HIDE DEF d
      <3>4. Like(l, d) /\ ~d.crashed
        BY <2>2, <3>2, LikeTransitive DEF Like, Sound
      <3>5. d.live \cap Tracker = {} /\ d.live \ Tracker = l.live \ Tracker
        BY <2>2, <2>4, <3>2 DEF Tracker, Items, DependencyParts
      <3>6. CASE AssertsOn
        <4>1. o.ok = FALSE /\ o.lib = [d EXCEPT !.crashed = TRUE]
          BY <3>3, <3>6 DEF Return
        <4> QED
          BY <3>4, <3>6, <4>1 DEF Like, Sound, Lib
      <3>7. CASE ~AssertsOn
        BY <1>1, <3>3, <3>4, <3>5, <3>7
      <3> QED
        BY <3>6, <3>7
    <2> QED
      BY <2>2, <2>3, <2>4
  <1> QED
    BY <1>2, <1>3 DEF Lib


\* The library between two calls: empty, initialised, or with a tracker too.
Shape(l) ==
  /\ l \in Lib
  /\ ~l.crashed
  /\ l.leaked \subseteq {"cache"}
  /\ l.misused \subseteq {"commit_lock"}
  /\ l.pool = l.init
  /\ l.dep => l.init
  /\ l.live \ Tracker = IF l.init THEN PoolParts \cup EpochParts ELSE {}
  /\ TrackerIs(l, l.dep)

\* A library in which nothing is left is between two calls.
LEMMA EmptyShape ==
  ASSUME NEW l \in Lib, ~l.crashed, ~l.init, ~l.dep, ~l.pool, l.live = {},
         l.leaked \subseteq {"cache"}, l.misused \subseteq {"commit_lock"}
  PROVE  Shape(l)
  BY DEF Shape, TrackerIs, Lib

\* The pool, the epochs and the tracker share no resource.
LEMMA PartsApart ==
  /\ PoolParts \cap EpochParts = {}
  /\ (PoolParts \cup EpochParts) \cap Tracker = {}
  BY DEF PoolParts, Workers, EpochParts, Tracker, DependencyParts, Items

\* yarn_init, which leaves an initialised library alone.
LEMMA YarnInitShape ==
  ASSUME NEW l, Shape(l), Handled, NEW o \in YarnInit(l)
  PROVE  /\ o.ok \in BOOLEAN
         /\ Shape(o.lib)
         /\ o.ok => o.lib.init
         /\ ~o.ok => ~o.lib.init
  <1> DEFINE Epochs(m) == {IF r.ok THEN Return([r.lib EXCEPT !.init = TRUE], TRUE)
                                 ELSE Return(TpoolDestroy(r.lib), FALSE) : r \in EpochInit(m)}
  <1>1. CASE l.init
    <2>1. o = Return(l, TRUE)
      BY <1>1 DEF YarnInit
    <2> QED
      BY <1>1, <2>1 DEF Return
  <1>2. CASE ~l.init
    <2>1. /\ l \in Lib /\ ~l.crashed /\ ~l.pool /\ ~l.dep /\ l.live = {}
          /\ l.leaked \subseteq {"cache"} /\ l.misused \subseteq {"commit_lock"}
      BY <1>2 DEF Shape, TrackerIs
    <2>2. PICK p \in TpoolInit(l) : o \in IF p.ok THEN Epochs(p.lib) ELSE {p}
      BY <1>2 DEF YarnInit
    <2> HIDE DEF Epochs
    <2>3. /\ p.ok \in BOOLEAN
          /\ Sound(l, p.lib)
          /\ p.lib.init = l.init /\ p.lib.dep = l.dep /\ p.lib.pool = p.ok
          /\ p.lib.live = IF p.ok THEN l.live \cup PoolParts ELSE l.live
      BY <2>1, <2>2, TpoolInitSound
    <2>4. CASE ~p.ok
      <3>1. o = p
        BY <2>2, <2>4
      <3> QED
        <4>1. /\ o.lib \in Lib /\ ~o.lib.crashed /\ ~o.lib.init /\ ~o.lib.dep /\ ~o.lib.pool
              /\ o.lib.leaked \subseteq {"cache"} /\ o.lib.misused \subseteq {"commit_lock"}
              /\ o.lib.live = {}
          BY <1>2, <2>1, <2>3, <2>4, <3>1 DEF Sound
        <4>2. Shape(o.lib)
          BY <4>1, EmptyShape
        <4> QED
          BY <2>3, <2>4, <3>1, <4>1, <4>2
    <2>5. CASE p.ok
      <3>1. PICK r \in EpochInit(p.lib) :
              o = IF r.ok THEN Return([r.lib EXCEPT !.init = TRUE], TRUE)
                  ELSE Return(TpoolDestroy(r.lib), FALSE)
        BY <2>2, <2>5 DEF Epochs
      <3>2. p.lib \in Lib /\ p.lib.live = PoolParts /\ p.lib.live \cap EpochParts = {}
        BY <2>1, <2>3, <2>5, PartsApart DEF Sound
      <3>3. /\ r.ok \in BOOLEAN
            /\ Like(p.lib, r.lib)
            /\ r.lib.live = IF r.ok THEN p.lib.live \cup EpochParts ELSE p.lib.live
        BY <3>1, <3>2, EpochInitLike
      <3>4. CASE r.ok
        <4>1. o.ok = TRUE /\ o.lib = [r.lib EXCEPT !.init = TRUE]
          BY <3>1, <3>4 DEF Return
        <4>2. r.lib.live = PoolParts \cup EpochParts
          BY <3>2, <3>3, <3>4
        <4>3. r.lib.live \ Tracker = PoolParts \cup EpochParts /\ r.lib.live \cap Tracker = {}
          BY <4>2, PartsApart
        <4>4. /\ r.lib \in Lib /\ ~r.lib.crashed /\ r.lib.pool /\ ~r.lib.dep
              /\ r.lib.leaked \subseteq {"cache"} /\ r.lib.misused \subseteq {"commit_lock"}
          BY <2>1, <2>3, <2>5, <3>3 DEF Like, Sound
        <4> QED
          BY <4>1, <4>3, <4>4 DEF Shape, TrackerIs, Lib
      <3>5. CASE ~r.ok
        <4> DEFINE d == TpoolDestroy(r.lib)
        <4>1. o.ok = FALSE /\ o.lib = d
          BY <3>1, <3>5 DEF Return
        <4>2. /\ r.lib \in Lib /\ ~r.lib.crashed /\ r.lib.pool /\ ~r.lib.dep /\ ~r.lib.init
              /\ r.lib.leaked \subseteq {"cache"} /\ r.lib.misused \subseteq {"commit_lock"}
              /\ r.lib.live = PoolParts
          BY <1>2, <2>1, <2>3, <2>5, <3>2, <3>3, <3>5 DEF Like, Sound
        <4>3. /\ Sound(r.lib, d)
              /\ d.init = r.lib.init /\ d.dep = r.lib.dep
              /\ d.pool = FALSE
              /\ d.live = r.lib.live \ PoolParts
          BY <4>2, TpoolDestroySound
        <4>4. /\ d \in Lib /\ ~d.crashed /\ ~d.init /\ ~d.dep /\ ~d.pool
              /\ d.leaked \subseteq {"cache"} /\ d.misused \subseteq {"commit_lock"}
              /\ d.live = {}
          BY <4>2, <4>3 DEF Sound
        <4>5. Shape(d)
          BY <4>4, EmptyShape
        <4> QED
          BY <4>1, <4>4, <4>5
      <3> QED
        BY <3>3, <3>4, <3>5
    <2> QED
      BY <2>3, <2>4, <2>5
  <1> QED
    BY <1>1, <1>2 DEF Shape, Lib

\* yarn_destroy, of a library in any shape.
LEMMA YarnDestroyShape ==
  ASSUME NEW l, Shape(l)
  PROVE  Shape(YarnDestroy(l)) /\ ~YarnDestroy(l).init
  <1> DEFINE w == IF l.dep THEN [DepDestroy(l) EXCEPT !.dep = FALSE] ELSE l
             e == EpochDestroy(w)
             t == TpoolDestroy(e)
  <1>1. CASE ~l.init
    <2>1. ~l.dep
      BY <1>1 DEF Shape
    <2>2. YarnDestroy(l) = l
      BY <1>1, <2>1 DEF YarnDestroy
    <2> QED
      BY <1>1, <2>2
  <1>2. CASE l.init
    <2>1. /\ w \in Lib /\ ~w.crashed /\ w.pool /\ w.init /\ ~w.dep
          /\ w.leaked \subseteq {"cache"} /\ w.misused \subseteq {"commit_lock"}
          /\ w.live = PoolParts \cup EpochParts
      <3>1. CASE l.dep
        <4> DEFINE d == DepDestroy(l)
        <4>1. l \in Lib /\ DependencyParts \ {"info_index"} \subseteq l.live
          BY <3>1 DEF Shape, TrackerIs
        <4>2. Like(l, d) /\ d.live = l.live \ Tracker
          BY <4>1, DepDestroyLike DEF Tracker
        <4>3. w = [d EXCEPT !.dep = FALSE]
          BY <3>1
        <4> HIDE DEF d, w
        <4>4. d.live = PoolParts \cup EpochParts
          BY <1>2, <4>2 DEF Shape
        <4>5. /\ d \in Lib /\ ~d.crashed /\ d.pool /\ d.init
              /\ d.leaked \subseteq {"cache"} /\ d.misused \subseteq {"commit_lock"}
          BY <1>2, <4>2 DEF Like, Sound, Shape
        <4> QED
          BY <4>3, <4>4, <4>5 DEF Lib
      <3>2. CASE ~l.dep
        <4>1. l.live = PoolParts \cup EpochParts
          BY <1>2, <3>2 DEF Shape, TrackerIs
        <4> QED
          BY <1>2, <3>2, <4>1 DEF Shape
      <3> QED
        BY <3>1, <3>2
    <2> HIDE DEF w
    <2>2. EpochParts \in SUBSET w.live
      BY <2>1
    <2>3. Like(w, e) /\ e.live = w.live \ EpochParts
      BY <2>1, <2>2, ReleaseLike DEF EpochDestroy
    <2> HIDE DEF e
    <2>4. e \in Lib /\ e.pool /\ e.live = PoolParts
      BY <2>1, <2>3, PartsApart DEF Like, Sound
    <2>5. /\ Sound(e, t)
          /\ t.init = e.init /\ t.dep = e.dep
          /\ t.pool = FALSE
          /\ t.live = e.live \ PoolParts
      BY <2>4, TpoolDestroySound
    <2>6. YarnDestroy(l) = [t EXCEPT !.init = FALSE]
      BY <1>2 DEF YarnDestroy, t, e, w
    <2> HIDE DEF t
    <2>7. /\ t \in Lib /\ ~t.crashed /\ ~t.dep
          /\ t.leaked \subseteq {"cache"} /\ t.misused \subseteq {"commit_lock"}
          /\ t.live = {}
      BY <2>1, <2>3, <2>4, <2>5 DEF Like, Sound
    <2> QED
      BY <2>5, <2>6, <2>7 DEF Shape, TrackerIs, Lib
  <1> QED
    BY <1>1, <1>2 DEF Shape, Lib


-----------------------------------------------------------------------------
(* The invariant.                                                           *)

(* Between the steps of the caller the library has a shape, and inside of   *)
(* yarn_exec_simple it is initialised and knows whether to destroy it.  The *)
(* assert of yarn.c:40 ends the program.                                    *)
Inductive ==
  \/ /\ Shape(lib)
     /\ pc \in {"idle", "prepare", "run", "leave"}
     /\ before \in BOOLEAN
     /\ pc # "idle" => lib.init /\ delOnExit = ~before
     /\ pc = "run" => lib.dep
  \/ /\ lib.crashed /\ AssertsOn
     /\ lib.misused \subseteq {"commit_lock"}

\* Before the first call the library is empty.
LEMMA InitInductive == Init => Inductive
  <1> SUFFICES ASSUME Init PROVE Inductive
    OBVIOUS
  <1>1. Fresh \in Lib
    BY DEF Fresh, Lib
  <1>2. Shape(Fresh)
    BY <1>1, EmptyShape DEF Fresh
  <1> QED
    BY <1>2 DEF Init, Inductive

\* A library in shape whose parts in use are used.
LEMMA UseShape ==
  ASSUME NEW l, Shape(l), NEW S \in SUBSET l.live
  PROVE  Shape(Use(l, S)) /\ Use(l, S).init = l.init /\ Use(l, S).dep = l.dep
  <1>1. l \in Lib
    BY DEF Shape
  <1>2. Like(l, Use(l, S)) /\ Use(l, S).live = l.live
    BY <1>1, UseLike
  <1> QED
    BY <1>2 DEF Shape, Like, Sound, TrackerIs

\* Items come and go while there is a tracker.
LEMMA ItemsShape ==
  ASSUME NEW l, Shape(l), l.dep, NEW m, Like(l, m),
         NEW T \in SUBSET Items, NEW U \in SUBSET Items, m.live = (l.live \ T) \cup U
  PROVE  Shape(m)
  <1>1. m.live \ Tracker = l.live \ Tracker
    BY DEF Tracker
  <1>2. DependencyParts \subseteq m.live
    BY DEF Shape, TrackerIs, DependencyParts, Items
  <1> QED
    BY <1>1, <1>2 DEF Shape, Like, Sound, TrackerIs

\* Every call of the application leads from one of the shapes to another.
LEMMA StepInductive ==
  ASSUME Handled, Inductive, [Next]_vars
  PROVE  Inductive'
  <1>1. CASE UNCHANGED vars
    BY <1>1 DEF Inductive, vars
  <1>2. CASE lib.crashed
    <2>1. ~Next
      BY <1>2 DEF Next, Proceed, CallInit, CallDestroy, CallExec, Prepare, ThreadInit,
                  FindRecord, Joined, Leave
    <2> QED
      BY <1>1, <2>1
  <1>3. CASE Next /\ ~lib.crashed
    <2>1. /\ Shape(lib)
          /\ before \in BOOLEAN
          /\ pc \in {"idle", "prepare", "run", "leave"}
          /\ pc # "idle" => lib.init /\ delOnExit = ~before
          /\ pc = "run" => lib.dep
      BY <1>3 DEF Inductive
    <2>2. CASE CallInit
      <3>1. PICK o \in YarnInit(lib) : lib' = o.lib
        BY <2>2 DEF CallInit
      <3>2. Shape(lib')
        BY <2>1, <3>1, YarnInitShape
      <3> QED
        BY <2>2, <3>2 DEF CallInit, Proceed, Inductive
    <2>3. CASE CallDestroy
      <3>1. Shape(lib')
        BY <2>1, <2>3, YarnDestroyShape DEF CallDestroy
      <3> QED
        BY <2>3, <3>1 DEF CallDestroy, Proceed, Inductive
    <2>4. CASE CallExec
      <3>1. PICK o \in YarnInit(lib) : lib' = o.lib /\ Proceed("idle", IF o.ok THEN "prepare" ELSE "idle")
        BY <2>4 DEF CallExec
      <3>2. Shape(lib') /\ (o.ok => lib'.init)
        BY <2>1, <3>1, YarnInitShape
      <3>3. delOnExit' = ~before' /\ before' \in BOOLEAN
        BY <2>1, <2>4 DEF CallExec, Shape, Lib
      <3> QED
        BY <3>1, <3>2, <3>3 DEF Proceed, Inductive
    <2>5. CASE Prepare
      <3>1. PICK ws \in 1 .. 2, indexSize \in 1 .. 2 :
              \E o \in InitDep(lib, ws, indexSize) :
                /\ lib' = IF o.ok THEN Use(o.lib, PoolParts \cup EpochParts) ELSE o.lib
                /\ \/ Proceed("prepare", IF o.ok THEN "run" ELSE "leave")
                   \/ o.ok /\ "task" \in Fallible /\ Proceed("prepare", "leave")
        BY <2>5 DEF Prepare
      <3>pick. PICK o \in InitDep(lib, ws, indexSize) :
              /\ lib' = IF o.ok THEN Use(o.lib, PoolParts \cup EpochParts) ELSE o.lib
              /\ \/ Proceed("prepare", IF o.ok THEN "run" ELSE "leave")
                 \/ o.ok /\ "task" \in Fallible /\ Proceed("prepare", "leave")
        BY <3>1
      <3>2. lib \in Lib /\ ~lib.crashed /\ TrackerIs(lib, lib.dep) /\ ws \in Nat /\ indexSize \in Nat
        BY <2>1 DEF Shape
      <3>3. /\ o.ok \in BOOLEAN /\ o.lib \in Lib
            /\ o.lib.leaked \subseteq lib.leaked \cup {"cache"}
            /\ o.lib.misused \subseteq lib.misused \cup {"commit_lock"}
            /\ o.lib.init = lib.init /\ o.lib.pool = lib.pool
            /\ \/ o.lib.crashed /\ AssertsOn /\ ~o.ok
               \/ /\ ~o.lib.crashed
                  /\ o.lib.dep = o.ok /\ TrackerIs(o.lib, o.ok)
                  /\ o.lib.live \ Tracker = lib.live \ Tracker
        BY ONLY <3>2, InitDepSound, Handled
      <3>4. pc = "prepare" /\ lib.init
        BY <2>1, <3>pick DEF Proceed
      <3>5. CASE o.lib.crashed
        BY <2>1, <3>pick, <3>3, <3>5 DEF Inductive, Shape
      <3>6. CASE ~o.lib.crashed
        <4>1. Shape(o.lib) /\ o.lib.init /\ o.lib.dep = o.ok
          BY <2>1, <3>3, <3>4, <3>6 DEF Shape
        <4>2. CASE o.ok
          <5>1. PoolParts \cup EpochParts \in SUBSET o.lib.live
            BY <4>1 DEF Shape
          <5>2. Shape(lib') /\ lib'.init /\ lib'.dep
            BY <3>pick, <4>1, <4>2, <5>1, UseShape
          <5> QED
            BY <2>1, <2>5, <3>pick, <3>4, <5>2 DEF Proceed, Inductive, Prepare
        <4>3. CASE ~o.ok
          BY <2>1, <2>5, <3>pick, <3>4, <4>1, <4>3 DEF Proceed, Inductive, Prepare
        <4> QED
          BY <3>3, <4>2, <4>3
      <3> QED
        BY <3>5, <3>6
    <2>6. CASE ThreadInit
      <3>1. pc = "run" /\ lib.dep /\ lib.init /\ delOnExit' = ~before' /\ before' \in BOOLEAN
            /\ pc' \in {"run", "leave"}
        BY <2>1, <2>6 DEF ThreadInit, Proceed
      <3>2. CASE UNCHANGED lib
        BY <2>1, <3>1, <3>2 DEF Inductive
      <3>3. CASE lib' = Use([lib EXCEPT !.live = @ \cup {"thread_epoch"}], {"store"})
        <4> DEFINE m == [lib EXCEPT !.live = @ \cup {"thread_epoch"}]
        <4>1. Like(lib, m) /\ m.live = (lib.live \ {}) \cup {"thread_epoch"}
          BY <2>1 DEF Shape, Like, Sound, Lib, Resource, Items
        <4> HIDE DEF m
        <4>2. {} \in SUBSET Items /\ {"thread_epoch"} \in SUBSET Items
          BY DEF Items
        <4>3. Shape(m)
          BY <2>1, <3>1, <4>1, <4>2, ItemsShape
        <4>4. m.dep /\ m.init /\ {"store"} \in SUBSET m.live
          BY <3>1, <4>1, <4>3 DEF Like, Shape, TrackerIs, DependencyParts
        <4>5. Shape(lib') /\ lib'.init /\ lib'.dep
          BY <3>3, <4>3, <4>4, UseShape DEF m
        <4> QED
          BY <3>1, <4>5 DEF Inductive
      <3> QED
        BY <2>6, <3>2, <3>3 DEF ThreadInit
    <2>7. CASE FindRecord
      <3>1. pc = "run" /\ lib.dep /\ lib.init /\ delOnExit' = ~before' /\ before' \in BOOLEAN
            /\ pc' \in {"run", "leave"}
        BY <2>1, <2>7 DEF FindRecord, Proceed
      <3>2. CASE UNCHANGED lib
        BY <2>1, <3>1, <3>2 DEF Inductive
      <3>3. CASE ~UNCHANGED lib
        <4> DEFINE T == {"cached_item"} \cap lib.live
                   taken == Release(lib, T)
                   m(spot) == [taken EXCEPT !.live = @ \cup {spot}]
                   used == {"map", "table", "pmem", "cache", "info_list", "info_index"}
        <4>1. PICK spot \in {"record", "cached_item"} : lib' = Use(m(spot), used)
          BY <2>7, <3>3 DEF FindRecord
        <4>2. lib \in Lib /\ T \in SUBSET lib.live
          BY <2>1 DEF Shape
        <4>3. Like(lib, taken) /\ taken.live = lib.live \ T
          BY <4>2, ReleaseLike
        <4> HIDE DEF T, taken
        <4>4. Like(taken, m(spot)) /\ m(spot).live = (lib.live \ T) \cup {spot}
          BY <4>3 DEF Like, Sound, Lib, Resource, Items
        <4> HIDE DEF m
        <4>5. Like(lib, m(spot))
          BY <4>3, <4>4, LikeTransitive
        <4>6. T \in SUBSET Items /\ {spot} \in SUBSET Items
          BY DEF Items, T
        <4>7. Shape(m(spot))
          BY <2>1, <3>1, <4>4, <4>5, <4>6, ItemsShape
        <4>8. m(spot).dep /\ m(spot).init /\ used \in SUBSET m(spot).live
          BY <3>1, <4>5, <4>7 DEF Like, Shape, TrackerIs, DependencyParts
        <4>9. Shape(lib') /\ lib'.init /\ lib'.dep
          BY <4>1, <4>7, <4>8, UseShape
        <4> QED
          BY <3>1, <4>9 DEF Inductive
      <3> QED
        BY <3>2, <3>3
    <2>8. CASE Joined
      BY <2>1, <2>8 DEF Joined, Proceed, Inductive
    <2>9. CASE Leave
      <3>1. Shape(lib')
        BY <2>1, <2>9, YarnDestroyShape DEF Leave
      <3> QED
        BY <2>9, <3>1 DEF Leave, Proceed, Inductive
    <2> QED
      BY <1>3, <2>2, <2>3, <2>4, <2>5, <2>6, <2>7, <2>8, <2>9 DEF Next
  <1> QED
    BY <1>1, <1>2, <1>3

-----------------------------------------------------------------------------
(* The theorems.                                                            *)

\* The shapes are those of all reachable states, if no unhandled failure is met.
LEMMA Invariant ==
  ASSUME Handled
  PROVE  Spec => []Inductive
  <1>1. Init => Inductive
    BY InitInductive
  <1>2. Inductive /\ [Next]_vars => Inductive'
    BY StepInductive
  <1> QED
    BY <1>1, <1>2, PTL DEF Spec

(* An initialised library has its pool and its epochs, running workers have *)
(* a tracker, and whatever is not initialised holds nothing, after every    *)
(* sequence of calls and failures; in a build with asserts that is so until *)
(* the assert of yarn.c:40 ends the program.                                *)
THEOREM FlagsAlwaysTell ==
  ASSUME Handled
  PROVE  /\ ~AssertsOn => (Spec => []FlagsTell)
         /\ Spec => []((lib.crashed /\ AssertsOn) \/ FlagsTell)
  <1>1. ASSUME Shape(lib), pc = "run" => lib.dep
        PROVE  FlagsTell
    BY <1>1, PartsApart DEF Shape, TrackerIs, FlagsTell, Ready, NothingLeft
  <1>2. Inductive => (lib.crashed /\ AssertsOn) \/ FlagsTell
    BY <1>1 DEF Inductive
  <1>3. ~AssertsOn => (Inductive => FlagsTell)
    BY <1>2
  <1>4. ASSUME ~AssertsOn PROVE Spec => []FlagsTell
    <2>1. Inductive => FlagsTell
      BY <1>3, <1>4
    <2> QED
      BY <2>1, Invariant, PTL
  <1>5. Spec => []((lib.crashed /\ AssertsOn) \/ FlagsTell)
    BY <1>2, Invariant, PTL
  <1> QED
    BY <1>4, <1>5

(* No path through the library, in success or in error, uses or destroys    *)
(* what does not exist, but for the lock of a record.                       *)
THEOREM NothingMisused ==
  ASSUME Handled
  PROVE  Spec => []NoMisuse
  <1>1. Inductive => NoMisuse
    BY DEF Inductive, Shape, NoMisuse
  <1> QED
    BY <1>1, Invariant, PTL

(* yarn_exec_simple leaves the library initialised if and only if it found  *)
(* it so, whatever failed in between.                                       *)
THEOREM ExecAlwaysRestores ==
  ASSUME Handled
  PROVE  Spec => ExecRestores
  <1>1. ASSUME Inductive, [Next]_vars
        PROVE  [pc # "idle" /\ pc' = "idle" => lib'.init = before]_vars
    <2> SUFFICES ASSUME Next, pc # "idle", pc' = "idle"
                 PROVE  lib'.init = before
      BY <1>1
    <2>1. Leave
      BY DEF Next, Proceed, CallInit, CallDestroy, CallExec, Prepare, ThreadInit, FindRecord,
             Joined
    <2>2. Shape(lib) /\ lib.init /\ delOnExit = ~before
          /\ before \in BOOLEAN
      BY <1>1, <2>1 DEF Inductive, Leave, Proceed
    <2>3. CASE delOnExit
      <3>1. ~lib'.init /\ Shape(lib')
        BY <2>1, <2>2, <2>3, YarnDestroyShape DEF Leave
      <3> QED
        BY <2>2, <2>3, <3>1 DEF Shape, Lib
    <2>4. CASE ~delOnExit
      BY <2>1, <2>2, <2>4 DEF Leave, Shape, Lib
    <2> QED
      BY <2>3, <2>4
  <1> QED
    BY <1>1, Invariant, PTL DEF Spec, ExecRestores
=============================================================================
