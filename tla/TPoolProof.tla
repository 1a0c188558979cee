----------------------------- MODULE TPoolProof -----------------------------
(***************************************************************************)
(* The thread pool keeps its promises whatever the number of workers and   *)
(* of calls: TPool implements ForkJoin, never frees a task in use, and the *)
(* two meetings at its one barrier never mix.                              *)
(***************************************************************************)
EXTENDS TPool, TLAPS

FirstHalf == {"loop", "look", "check", "run", "barrier1", "exit"}
SecondHalf == {"clear", "notify", "between", "barrier2"}

(* The workers go around together: all of them are before the first meeting *)
(* of a task, or all of them are behind it.                                 *)
Together ==
  \/ \A w \in Worker : pc[w] \in FirstHalf
  \/ \A w \in Worker : pc[w] \in SecondHalf

(* A task is posted during a call only, and it is the one of this call.     *)
CallInv ==
  /\ task \in {NoTask, execs}
  /\ task # NoTask => call \in {"collect", "wait"}
  /\ destroy <=> call \in {"join", "down"}
  /\ call = "down" => \A w \in Worker : pc[w] = "exit"

(* A worker that has not reached the first meeting holds the posted task.   *)
HoldInv ==
  \A w \in Worker :
    /\ pc[w] \in {"check", "run"} => got[w] = task
    /\ pc[w] \in {"run", "barrier1", "clear"} => task # NoTask
    /\ pc[w] = "check" => task # NoTask \/ destroy
    /\ pc[w] \in {"clear", "notify"} => w = 0

(* Who ran the task: nobody that has it before him, and at the meetings     *)
(* everybody it was posted for.                                             *)
RanInv ==
  /\ ran \subseteq 0 .. count - 1
  /\ \A w \in Worker :
       /\ pc[w] = "run" => w < count
       /\ pc[w] = "barrier1" => (w \in ran <=> w < count)
       /\ task # NoTask /\ pc[0] # "clear" /\ pc[w] # "barrier1" => w \notin ran
  /\ pc[0] = "clear" => ran = 0 .. count - 1
  /\ task = NoTask /\ call \in {"collect", "wait"} => ran = 0 .. count - 1
  /\ error <=> bad # {}

Inductive ==
  /\ TypeOK
  /\ Together
  /\ CallInv
  /\ HoldInv
  /\ RanInv

-----------------------------------------------------------------------------
(* Init and Next have the invariant.                                        *)

\* The workers start in front of the pool, which has no task.
LEMMA InitInductive == Init => Inductive
  <1> SUFFICES ASSUME Init PROVE Inductive
    OBVIOUS
  <1> USE DEF Init
  <1>1. TypeOK
    <2>1. /\ task \in 0 .. MaxExecs /\ count \in 0 .. Size /\ execs \in 0 .. MaxExecs
          /\ spurious \in 0 .. MaxSpurious /\ (execs > 0 => count > 0)
      BY SizeAssumption, MaxExecsAssumption, MaxSpuriousAssumption DEF NoTask
    <2>2. got \in [Worker -> 0 .. MaxExecs]
      BY MaxExecsAssumption DEF NoTask
    <2>3. pc \in [Worker -> {"loop", "look", "check", "run", "barrier1", "clear", "notify",
                             "between", "barrier2", "exit"}]
      OBVIOUS
    <2>4. error \in BOOLEAN /\ destroy \in BOOLEAN /\ outcome \in BOOLEAN
      OBVIOUS
    <2> QED
      BY <2>1, <2>2, <2>3, <2>4 DEF TypeOK
  <1>2. Together /\ CallInv /\ HoldInv
    BY DEF Together, FirstHalf, CallInv, HoldInv, NoTask
  <1>3. ran = {} /\ bad = {} /\ task = NoTask /\ ~error /\ 0 \in Worker
    BY SizeAssumption DEF Worker
  <1>4. RanInv
    BY <1>3 DEF RanInv
  <1> QED
    BY <1>1, <1>2, <1>4 DEF Inductive

\* Every step keeps the types.
LEMMA NextTypeOK ==
  ASSUME Inductive, [Next]_vars
  PROVE  TypeOK'
  <1> USE SizeAssumption, MaxExecsAssumption, MaxSpuriousAssumption DEF Inductive, Worker, NoTask, Caller, pool, worker,
       caller, ghosts, TypeOK
  <1>1. CASE Post
    <2>1. PICK n \in 1 .. Size : Posted(n) /\ error' = FALSE /\ waiters' = {}
      BY <1>1 DEF Post
    <2>2. execs' \in 0 .. MaxExecs /\ task' \in 0 .. MaxExecs
      BY <2>1 DEF Posted
    <2>3. count' \in 0 .. Size /\ count' > 0
      BY <2>1 DEF Posted
    <2> QED
      BY <2>1, <2>2, <2>3 DEF Posted, Call
  <1>2. CASE CollectLook
    BY <1>2 DEF CollectLook, Call
  <1>3. CASE CollectWait
    BY <1>3 DEF CollectWait, Call
  <1>4. CASE CollectReturn
    BY <1>4 DEF CollectReturn, Call
  <1>5. CASE StopThreads
    BY <1>5 DEF StopThreads, Call
  <1>6. CASE JoinThreads
    BY <1>6 DEF JoinThreads, Call
  <1>7. CASE Restart
    <2>1. pc' \in [Worker -> {"loop", "look", "check", "run", "barrier1", "clear", "notify",
                              "between", "barrier2", "exit"}]
      BY <1>7 DEF Restart
    <2>2. got' \in [Worker -> 0 .. MaxExecs]
      BY <1>7 DEF Restart
    <2> QED
      BY <1>7, <2>1, <2>2 DEF Restart, Call
  <1>8. ASSUME NEW w \in Worker, Loop(w) PROVE TypeOK'
    BY <1>8 DEF Loop, Step
  <1>9. ASSUME NEW w \in Worker, LookWait(w) PROVE TypeOK'
    BY <1>9 DEF LookWait, LockFree
  <1>10. ASSUME NEW w \in Worker, LookTake(w) PROVE TypeOK'
    BY <1>10 DEF LookTake, Step, LockFree
  <1>11. ASSUME NEW w \in Worker, Check(w) PROVE TypeOK'
    BY <1>11 DEF Check, Step
  <1>12. ASSUME NEW w \in Worker, Run(w) PROVE TypeOK'
    BY <1>12 DEF Run, Ran, Step
  <1>13. ASSUME NEW w \in Worker, Between(w) PROVE TypeOK'
    BY <1>13 DEF Between, Step
  <1>14. CASE Clear
    BY <1>14 DEF Clear, Step
  <1>15. CASE Notify
    BY <1>15 DEF Notify, Step
  <1>16. CASE BarrierPass
    BY <1>16 DEF BarrierPass
  <1>17. CASE SpuriousWakeup
    BY <1>17 DEF SpuriousWakeup
  <1>18. CASE UNCHANGED vars
    BY <1>18 DEF vars
  <1> QED
    BY <1>1, <1>2, <1>3, <1>4, <1>5, <1>6, <1>7, <1>8, <1>9, <1>10, <1>11, <1>12,
       <1>13, <1>14, <1>15, <1>16, <1>17, <1>18 DEF Next, Calling, NewCall,
       WorkerStep, Worker0

\* No step separates the workers: only a meeting takes them to the other half.
LEMMA NextTogether ==
  ASSUME Inductive, [Next]_vars
  PROVE  Together'
  <1> USE SizeAssumption DEF Inductive, Worker, NoTask, Caller, pool, worker,
       caller, ghosts, TypeOK, Together, FirstHalf, SecondHalf
  <1>1. CASE Post
    BY <1>1 DEF Post, Posted, Call
  <1>2. CASE CollectLook
    BY <1>2 DEF CollectLook, Call
  <1>3. CASE CollectWait
    BY <1>3 DEF CollectWait, Call
  <1>4. CASE CollectReturn
    BY <1>4 DEF CollectReturn, Call
  <1>5. CASE StopThreads
    BY <1>5 DEF StopThreads, Call
  <1>6. CASE JoinThreads
    BY <1>6 DEF JoinThreads, Call
  <1>7. CASE Restart
    BY <1>7 DEF Restart, Call
  <1>8. ASSUME NEW w \in Worker, Loop(w) PROVE Together'
    BY <1>8 DEF Loop, Step
  <1>9. ASSUME NEW w \in Worker, LookWait(w) PROVE Together'
    BY <1>9 DEF LookWait, LockFree
  <1>10. ASSUME NEW w \in Worker, LookTake(w) PROVE Together'
    BY <1>10 DEF LookTake, Step, LockFree
  <1>11. ASSUME NEW w \in Worker, Check(w) PROVE Together'
    BY <1>11 DEF Check, Step
  <1>12. ASSUME NEW w \in Worker, Run(w) PROVE Together'
    BY <1>12 DEF Run, Ran, Step
  <1>13. ASSUME NEW w \in Worker, Between(w) PROVE Together'
    BY <1>13 DEF Between, Step
  <1>14. CASE Clear
    BY <1>14 DEF Clear, Step
  <1>15. CASE Notify
    BY <1>15 DEF Notify, Step
  <1>16. CASE BarrierPass
    BY <1>16 DEF BarrierPass
  <1>17. CASE SpuriousWakeup
    BY <1>17 DEF SpuriousWakeup
  <1>18. CASE UNCHANGED vars
    BY <1>18 DEF vars
  <1> QED
    BY <1>1, <1>2, <1>3, <1>4, <1>5, <1>6, <1>7, <1>8, <1>9, <1>10, <1>11, <1>12,
       <1>13, <1>14, <1>15, <1>16, <1>17, <1>18 DEF Next, Calling, NewCall,
       WorkerStep, Worker0

\* Every step keeps the task and the call together.
LEMMA NextCallInv ==
  ASSUME Inductive, [Next]_vars
  PROVE  CallInv'
  <1> USE SizeAssumption DEF Inductive, Worker, NoTask, Caller, pool, worker,
       caller, ghosts, TypeOK, CallInv, HoldInv
  <1>1. CASE Post
    BY <1>1 DEF Post, Posted, Call
  <1>2. CASE CollectLook
    BY <1>2 DEF CollectLook, Call
  <1>3. CASE CollectWait
    BY <1>3 DEF CollectWait, Call
  <1>4. CASE CollectReturn
    BY <1>4 DEF CollectReturn, Call
  <1>5. CASE StopThreads
    BY <1>5 DEF StopThreads, Call
  <1>6. CASE JoinThreads
    BY <1>6 DEF JoinThreads, Call
  <1>7. CASE Restart
    BY <1>7 DEF Restart, Call
  <1>8. ASSUME NEW w \in Worker, Loop(w) PROVE CallInv'
    BY <1>8 DEF Loop, Step
  <1>9. ASSUME NEW w \in Worker, LookWait(w) PROVE CallInv'
    BY <1>9 DEF LookWait, LockFree
  <1>10. ASSUME NEW w \in Worker, LookTake(w) PROVE CallInv'
    BY <1>10 DEF LookTake, Step, LockFree
  <1>11. ASSUME NEW w \in Worker, Check(w) PROVE CallInv'
    BY <1>11 DEF Check, Step
  <1>12. ASSUME NEW w \in Worker, Run(w) PROVE CallInv'
    BY <1>12 DEF Run, Ran, Step
  <1>13. ASSUME NEW w \in Worker, Between(w) PROVE CallInv'
    BY <1>13 DEF Between, Step
  <1>14. CASE Clear
    BY <1>14 DEF Clear, Step
  <1>15. CASE Notify
    BY <1>15 DEF Notify, Step
  <1>16. CASE BarrierPass
    BY <1>16 DEF BarrierPass
  <1>17. CASE SpuriousWakeup
    BY <1>17 DEF SpuriousWakeup
  <1>18. CASE UNCHANGED vars
    BY <1>18 DEF vars
  <1> QED
    BY <1>1, <1>2, <1>3, <1>4, <1>5, <1>6, <1>7, <1>8, <1>9, <1>10, <1>11, <1>12,
       <1>13, <1>14, <1>15, <1>16, <1>17, <1>18 DEF Next, Calling, NewCall,
       WorkerStep, Worker0

\* Every step keeps what the workers hold.
LEMMA NextHoldInv ==
  ASSUME Inductive, [Next]_vars
  PROVE  HoldInv'
  <1> USE SizeAssumption DEF Inductive, Worker, NoTask, Caller, pool, worker,
       caller, ghosts, TypeOK, CallInv, HoldInv, Together, FirstHalf, SecondHalf
  <1>1. CASE Post
    BY <1>1 DEF Post, Posted, Call
  <1>2. CASE CollectLook
    BY <1>2 DEF CollectLook, Call
  <1>3. CASE CollectWait
    BY <1>3 DEF CollectWait, Call
  <1>4. CASE CollectReturn
    BY <1>4 DEF CollectReturn, Call
  <1>5. CASE StopThreads
    BY <1>5 DEF StopThreads, Call
  <1>6. CASE JoinThreads
    BY <1>6 DEF JoinThreads, Call
  <1>7. CASE Restart
    BY <1>7 DEF Restart, Call
  <1>8. ASSUME NEW w \in Worker, Loop(w) PROVE HoldInv'
    BY <1>8 DEF Loop, Step
  <1>9. ASSUME NEW w \in Worker, LookWait(w) PROVE HoldInv'
    BY <1>9 DEF LookWait, LockFree
  <1>10. ASSUME NEW w \in Worker, LookTake(w) PROVE HoldInv'
    BY <1>10 DEF LookTake, Step, LockFree
  <1>11. ASSUME NEW w \in Worker, Check(w) PROVE HoldInv'
    BY <1>11 DEF Check, Step
  <1>12. ASSUME NEW w \in Worker, Run(w) PROVE HoldInv'
    BY <1>12 DEF Run, Ran, Step
  <1>13. ASSUME NEW w \in Worker, Between(w) PROVE HoldInv'
    BY <1>13 DEF Between, Step
  <1>14. CASE Clear
    <2>1. pc[0] = "clear" /\ pc' = [pc EXCEPT ![0] = "notify"] /\ 0 \in Worker
      BY <1>14, SizeAssumption DEF Clear, Step
    <2>2. \A w \in Worker : pc'[w] \notin {"check", "run", "barrier1", "clear"}
      BY <2>1 DEF FirstHalf, SecondHalf
    <2>3. \A w \in Worker : pc'[w] = "notify" => w = 0
      BY <2>1
    <2> QED
      BY <2>2, <2>3 DEF HoldInv
  <1>15. CASE Notify
    BY <1>15 DEF Notify, Step
  <1>16. CASE BarrierPass
    BY <1>16 DEF BarrierPass
  <1>17. CASE SpuriousWakeup
    BY <1>17 DEF SpuriousWakeup
  <1>18. CASE UNCHANGED vars
    BY <1>18 DEF vars
  <1> QED
    BY <1>1, <1>2, <1>3, <1>4, <1>5, <1>6, <1>7, <1>8, <1>9, <1>10, <1>11, <1>12,
       <1>13, <1>14, <1>15, <1>16, <1>17, <1>18 DEF Next, Calling, NewCall,
       WorkerStep, Worker0

\* Every step keeps count of who ran the task.
LEMMA NextRanInv ==
  ASSUME Inductive, [Next]_vars
  PROVE  RanInv'
  <1> USE SizeAssumption DEF Inductive, Worker, NoTask, Caller, pool, worker,
       caller, ghosts, TypeOK, CallInv, HoldInv, RanInv, Together, FirstHalf,
       SecondHalf
  <1>1. CASE Post
    <2>1. call = "idle" /\ task = NoTask /\ pc' = pc /\ ran' = {} /\ bad' = {} /\ ~error'
      BY <1>1 DEF Post, Posted, Call
    <2>2. call' = "collect" /\ task' # NoTask
      BY <1>1 DEF Post, Posted, Call
    <2>3. \A w \in Worker : pc[w] \notin {"run", "barrier1", "clear"}
      BY <2>1 DEF HoldInv
    <2>4. 0 \in Worker
      BY SizeAssumption DEF Worker
    <2> QED
      BY <2>1, <2>2, <2>3, <2>4 DEF RanInv
  <1>2. CASE CollectLook
    BY <1>2 DEF CollectLook, Call
  <1>3. CASE CollectWait
    BY <1>3 DEF CollectWait, Call
  <1>4. CASE CollectReturn
    BY <1>4 DEF CollectReturn, Call
  <1>5. CASE StopThreads
    BY <1>5 DEF StopThreads, Call
  <1>6. CASE JoinThreads
    BY <1>6 DEF JoinThreads, Call
  <1>7. CASE Restart
    BY <1>7 DEF Restart, Call
  <1>8. ASSUME NEW w \in Worker, Loop(w) PROVE RanInv'
    BY <1>8 DEF Loop, Step
  <1>9. ASSUME NEW w \in Worker, LookWait(w) PROVE RanInv'
    BY <1>9 DEF LookWait, LockFree
  <1>10. ASSUME NEW w \in Worker, LookTake(w) PROVE RanInv'
    BY <1>10 DEF LookTake, Step, LockFree
  <1>11. ASSUME NEW w \in Worker, Check(w) PROVE RanInv'
    BY <1>11 DEF Check, Step
  <1>12. ASSUME NEW w \in Worker, Run(w) PROVE RanInv'
    <2>1. /\ pc[w] = "run" /\ pc' = [pc EXCEPT ![w] = "barrier1"]
          /\ ran' = ran \cup {w} /\ UNCHANGED <<task, count, call>>
      BY <1>12 DEF Run, Ran, Step, caller
    <2>2. w < count /\ task # NoTask
      BY <2>1 DEF Inductive, RanInv, HoldInv
    <2>3. \A v \in Worker : pc[v] \in FirstHalf /\ pc'[v] \in FirstHalf
      BY <2>1 DEF Inductive, Together, TypeOK, FirstHalf, SecondHalf
    <2>4. pc'[0] # "clear" /\ pc[0] # "clear"
      BY <2>3, SizeAssumption DEF Worker, FirstHalf
    <2>5. ran' \subseteq 0 .. count' - 1
      BY <2>1, <2>2 DEF Inductive, RanInv, TypeOK, Worker
    <2>6. ASSUME NEW v \in Worker
          PROVE  /\ pc'[v] = "run" => v < count'
                 /\ pc'[v] = "barrier1" => (v \in ran' <=> v < count')
                 /\ task' # NoTask /\ pc'[0] # "clear" /\ pc'[v] # "barrier1" => v \notin ran'
      <3>1. CASE v = w
        BY <3>1, <2>1, <2>2 DEF Inductive, TypeOK
      <3>2. CASE v # w
        BY <3>2, <2>1, <2>4 DEF Inductive, RanInv, TypeOK
      <3> QED
        BY <3>1, <3>2
    <2>7. error' <=> bad' # {}
      <3>1. CASE UNCHANGED <<bad, error>>
        BY <3>1, Zenon DEF Inductive, RanInv
      <3>2. CASE bad' = bad \cup {w} /\ error' = TRUE
        <4>1. bad' # {}
          BY <3>2
        <4> QED
          BY <3>2, <4>1
      <3> QED
        BY <1>12, <3>1, <3>2 DEF Run, Ran
    <2> QED
      BY <2>1, <2>2, <2>4, <2>5, <2>6, <2>7 DEF RanInv
  <1>13. ASSUME NEW w \in Worker, Between(w) PROVE RanInv'
    BY <1>13 DEF Between, Step
  <1>14. CASE Clear
    <2>1. /\ pc[0] = "clear" /\ pc' = [pc EXCEPT ![0] = "notify"] /\ task' = NoTask
          /\ UNCHANGED <<ran, bad, error, count>>
      BY <1>14 DEF Clear, Step, ghosts
    <2>2. 0 \in Worker
      BY SizeAssumption DEF Worker
    <2>3. pc'[0] = "notify" /\ ran = 0 .. count - 1
      BY <2>1, <2>2 DEF Inductive, TypeOK, RanInv
    <2>4. \A v \in Worker : pc'[v] \notin {"run", "barrier1"}
      BY <2>1, <2>2, <2>3 DEF Inductive, TypeOK, Together, FirstHalf, SecondHalf
    <2> QED
      BY <2>1, <2>3, <2>4 DEF Inductive, RanInv
  <1>15. CASE Notify
    BY <1>15 DEF Notify, Step
  <1>16. CASE BarrierPass
    <2>1. /\ \A v \in Worker : pc[v] \in {"barrier1", "barrier2"}
          /\ \A v \in Worker : pc'[v] = IF pc[v] = "barrier2" THEN "loop"
                                       ELSE IF v = 0 THEN "clear" ELSE "between"
          /\ UNCHANGED <<ran, bad, error, count, task, call>>
      BY <1>16 DEF BarrierPass, pool, caller, ghosts
    <2>2. 0 \in Worker
      BY SizeAssumption DEF Worker
    <2>3. \A v \in Worker : pc'[v] \notin {"run", "barrier1"}
      BY <2>1
    <2>4. CASE pc[0] = "barrier1"
      <3>1. \A v \in Worker : pc[v] = "barrier1"
        BY <2>1, <2>2, <2>4 DEF Inductive, Together, FirstHalf, SecondHalf
      <3>2. pc'[0] = "clear" /\ task # NoTask
        BY <2>1, <2>2, <2>4 DEF Inductive, HoldInv
      <3>3. ran = 0 .. count - 1
        <4>1. \A v \in Worker : v \in ran <=> v < count
          BY <3>1 DEF Inductive, RanInv
        <4>2. count \in 0 .. Size /\ ran \subseteq 0 .. count - 1
          BY DEF Inductive, TypeOK, RanInv
        <4>3. ASSUME NEW i \in 0 .. count - 1
              PROVE  i \in ran
          <5>1. i \in Worker /\ i < count
            BY ONLY <4>2, <4>3, SizeAssumption DEF Worker
          <5> QED
            BY ONLY <5>1, <4>1
        <4> QED
          BY ONLY <4>2, <4>3
      <3> QED
        BY <2>1, <2>3, <3>2, <3>3 DEF Inductive, RanInv
    <2>5. CASE pc[0] = "barrier2"
      <3>1. \A v \in Worker : pc[v] = "barrier2"
        BY <2>1, <2>2, <2>5 DEF Inductive, Together, FirstHalf, SecondHalf
      <3>2. pc'[0] = "loop"
        BY <2>1, <2>2, <2>5
      <3> QED
        BY <2>1, <2>3, <2>5, <3>1, <3>2 DEF Inductive, RanInv
    <2> QED
      BY <2>1, <2>2, <2>4, <2>5
  <1>17. CASE SpuriousWakeup
    BY <1>17 DEF SpuriousWakeup
  <1>18. CASE UNCHANGED vars
    BY <1>18 DEF vars
  <1> QED
    BY <1>1, <1>2, <1>3, <1>4, <1>5, <1>6, <1>7, <1>8, <1>9, <1>10, <1>11, <1>12,
       <1>13, <1>14, <1>15, <1>16, <1>17, <1>18 DEF Next, Calling, NewCall,
       WorkerStep, Worker0

LEMMA AlwaysInductive == Spec => []Inductive
  <1>1. Inductive /\ [Next]_vars => Inductive'
    BY NextTypeOK, NextTogether, NextCallInv, NextHoldInv, NextRanInv DEF Inductive
  <1> QED
    BY InitInductive, <1>1, PTL DEF Spec

-----------------------------------------------------------------------------
(* Every variable of the pool keeps its type.                               *)
THEOREM PoolTypeCorrect == Spec => []TypeOK
  <1>1. Inductive => TypeOK
    BY DEF Inductive
  <1> QED
    BY <1>1, AlwaysInductive, PTL

(* yarn_tpool_exec never frees a task that a worker still holds.            *)
THEOREM TaskStaysAlive == Spec => []TaskAlive
  <1>1. Inductive => TaskAlive
    BY DEF Inductive, TaskAlive, CallInv, HoldInv
  <1> QED
    BY <1>1, AlwaysInductive, PTL

(* The two meetings at the one barrier never mix.                           *)
THEOREM MeetingsStayApart == Spec => []MeetingsApart
  <1>1. Inductive => MeetingsApart
    BY DEF Inductive, MeetingsApart, Together, FirstHalf, SecondHalf
  <1> QED
    BY <1>1, AlwaysInductive, PTL

(* A step of the pool is a step of ForkJoin, or none: Post forks, the end   *)
(* of a worker function is work, and the return of the call joins.          *)
LEMMA PoolStep ==
  ASSUME Inductive, [Next]_vars
  PROVE  [Abstract!Next]_(Abstract!vars)
  <1> USE SizeAssumption DEF Inductive, TypeOK, Worker, NoTask, pool, worker,
       caller, ghosts, Abstract!vars
  <1>1. CASE Post
    BY <1>1 DEF Post, Posted, Call, Abstract!Next, Abstract!Fork
  <1>2. CASE CollectLook
    BY <1>2 DEF CollectLook, Call
  <1>3. CASE CollectWait
    BY <1>3 DEF CollectWait, Call
  <1>4. CASE CollectReturn
    <2>1. /\ call \in {"collect", "wait"} /\ call' \notin {"collect", "wait"} /\ task = NoTask
          /\ outcome' = ~error /\ UNCHANGED <<count, ran, bad>>
      BY <1>4 DEF CollectReturn, Call
    <2>2. ran = 0 .. count - 1
      BY <2>1 DEF RanInv
    <2>3. outcome' = (bad = {})
      BY <2>1, Zenon DEF RanInv
    <2> QED
      BY <2>1, <2>2, <2>3 DEF Abstract!Next, Abstract!Join
  <1>5. CASE StopThreads
    BY <1>5 DEF StopThreads, Call
  <1>6. CASE JoinThreads
    BY <1>6 DEF JoinThreads, Call
  <1>7. CASE Restart
    BY <1>7 DEF Restart, Call
  <1>8. ASSUME NEW w \in Worker, Loop(w) PROVE [Abstract!Next]_(Abstract!vars)
    BY <1>8 DEF Loop, Step
  <1>9. ASSUME NEW w \in Worker, LookWait(w) PROVE [Abstract!Next]_(Abstract!vars)
    BY <1>9 DEF LookWait, LockFree
  <1>10. ASSUME NEW w \in Worker, LookTake(w) PROVE [Abstract!Next]_(Abstract!vars)
    BY <1>10 DEF LookTake, Step, LockFree
  <1>11. ASSUME NEW w \in Worker, Check(w) PROVE [Abstract!Next]_(Abstract!vars)
    BY <1>11 DEF Check, Step
  <1>12. ASSUME NEW w \in Worker, Run(w) PROVE [Abstract!Next]_(Abstract!vars)
    <2>1. /\ pc[w] = "run" /\ ran' = ran \cup {w} /\ bad' \in {bad, bad \cup {w}}
          /\ UNCHANGED <<count, call, outcome>>
      BY <1>12 DEF Run, Ran, Step
    <2>2. w < count /\ task # NoTask
      BY <2>1 DEF RanInv, HoldInv
    <2>3. call \in {"collect", "wait"}
      BY <2>2 DEF CallInv
    <2>4. pc[0] # "clear"
      BY <2>1, SizeAssumption DEF Together, FirstHalf, SecondHalf
    <2>5. w \notin ran
      BY <2>1, <2>2, <2>4 DEF RanInv
    <2>6. Abstract!Work(w)
      BY <2>1, <2>2, <2>3, <2>5 DEF Abstract!Work
    <2> QED
      BY <2>6 DEF Abstract!Next
  <1>13. ASSUME NEW w \in Worker, Between(w) PROVE [Abstract!Next]_(Abstract!vars)
    BY <1>13 DEF Between, Step
  <1>14. CASE Clear
    BY <1>14 DEF Clear, Step
  <1>15. CASE Notify
    BY <1>15 DEF Notify, Step
  <1>16. CASE BarrierPass
    BY <1>16 DEF BarrierPass
  <1>17. CASE SpuriousWakeup
    BY <1>17 DEF SpuriousWakeup
  <1>18. CASE UNCHANGED vars
    BY <1>18 DEF vars
  <1> QED
    BY <1>1, <1>2, <1>3, <1>4, <1>5, <1>6, <1>7, <1>8, <1>9, <1>10, <1>11, <1>12,
       <1>13, <1>14, <1>15, <1>16, <1>17, <1>18 DEF Next, Calling, NewCall,
       WorkerStep, Worker0

(* The pool runs each task once on each of its workers, and the call        *)
(* returns after the last of them, with the news of any failure.            *)
THEOREM PoolImplementsForkJoin == Spec => ImplementsForkJoin
  <1>1. Init => Abstract!Init
    BY DEF Init, Abstract!Init
  <1> QED
    BY <1>1, PoolStep, AlwaysInductive, PTL DEF Spec, ImplementsForkJoin, Abstract!Spec
=============================================================================
