-------------------------- MODULE EpochSafetyProof --------------------------
(***************************************************************************)
(* The ring of epochs is safe for any number of threads, any size of the   *)
(* ring and any number of rollbacks.  Inductive is the invariant the       *)
(* argument rests on: who holds the locks, what each label of a thread     *)
(* says of the slot it works on, and which status the slots of each range  *)
(* of epochs have.                                                         *)
(***************************************************************************)
EXTENDS EpochClient, FiniteSetTheorems, TLAPS

-----------------------------------------------------------------------------
(* Slots.                                                                   *)

(* The slot of an epoch is a slot of the ring.                              *)
LEMMA IndexType ==
  ASSUME NEW e \in Nat
  PROVE  Index(e) \in Slot
  BY EpochMaxAssumption DEF Index, Slot

(* Only zero turns of the ring are less than one turn.                      *)
LEMMA Multiple ==
  ASSUME NEW k \in Int, EpochMax * k < EpochMax, -EpochMax < EpochMax * k
  PROVE  k = 0
  <1>1. k >= 1 => EpochMax * k >= EpochMax
    BY EpochMaxAssumption
  <1>2. k <= -1 => EpochMax * k <= -EpochMax
    BY EpochMaxAssumption
  <1> QED
    BY <1>1, <1>2, EpochMaxAssumption

(* An epoch is a number of turns and a slot.                                *)
LEMMA Division ==
  ASSUME NEW e \in Nat
  PROVE  /\ e \div EpochMax \in Int
         /\ Index(e) \in Int
         /\ e = EpochMax * (e \div EpochMax) + Index(e)
         /\ 0 <= Index(e) /\ Index(e) < EpochMax
  BY EpochMaxAssumption DEF Index

(* Two epochs that share a slot are a number of turns apart.                *)
LEMMA SameIndex ==
  ASSUME NEW e \in Nat, NEW f \in Nat, Index(e) = Index(f)
  PROVE  \E k \in Int : f - e = EpochMax * k
  <1> DEFINE p == e \div EpochMax
             q == f \div EpochMax
  <1>1. /\ p \in Int /\ e = EpochMax * p + Index(e) /\ Index(e) \in Int
        /\ q \in Int /\ f = EpochMax * q + Index(f) /\ Index(f) \in Int
    BY Division
  <1> HIDE DEF p, q
  <1>2. f - e = EpochMax * (q - p)
    BY <1>1, EpochMaxAssumption
  <1> QED
    BY <1>1, <1>2

(* Two epochs less than a turn apart have different slots.                  *)
LEMMA IndexDistinct ==
  ASSUME NEW e \in Nat, NEW f \in Nat, e < f, f < e + EpochMax
  PROVE  Index(e) # Index(f)
  <1> SUFFICES ASSUME Index(e) = Index(f) PROVE FALSE
    OBVIOUS
  <1>1. PICK k \in Int : f - e = EpochMax * k
    BY SameIndex
  <1>2. k = 0
    BY <1>1, Multiple, EpochMaxAssumption
  <1> QED
    BY <1>1, <1>2, EpochMaxAssumption

(* A whole turn of the ring comes back to the same slot.                    *)
LEMMA IndexTurn ==
  ASSUME NEW e \in Nat
  PROVE  Index(e + EpochMax) = Index(e)
  <1> DEFINE f == e + EpochMax
             p == e \div EpochMax
             q == f \div EpochMax
             k == q - p - 1
  <1>1. f \in Nat
    BY EpochMaxAssumption
  <1>2. /\ p \in Int /\ e = EpochMax * p + Index(e)
        /\ Index(e) \in Int /\ 0 <= Index(e) /\ Index(e) < EpochMax
    BY Division
  <1> HIDE DEF f
  <1>3. /\ q \in Int /\ f = EpochMax * q + Index(f)
        /\ Index(f) \in Int /\ 0 <= Index(f) /\ Index(f) < EpochMax
    BY <1>1, Division
  <1> HIDE DEF p, q
  <1>4. EpochMax * k = EpochMax * q - EpochMax * p - EpochMax /\ k \in Int
    BY <1>2, <1>3, EpochMaxAssumption
  <1> HIDE DEF k
  <1>5. EpochMax * k = Index(e) - Index(f)
    BY <1>2, <1>3, <1>4, EpochMaxAssumption DEF f
  <1>6. k = 0
    BY <1>2, <1>3, <1>4, <1>5, Multiple, EpochMaxAssumption
  <1> QED
    BY <1>2, <1>3, <1>5, <1>6, EpochMaxAssumption DEF f

-----------------------------------------------------------------------------
(* Type correctness.                                                        *)

LEMMA InitTypeOK == Init => TypeOK
  <1> SUFFICES ASSUME Init PROVE TypeOK
    OBVIOUS
  <1> QED
    BY DEF Init, EpochInit, TypeOK, Labels, Rolling, Status

LEMMA KernelTypeOK ==
  ASSUME TypeOK, NEW t \in Thread, Kernel(t)
  PROVE  TypeOK'
  <1> USE DEF TypeOK, Goto, cursors, locks, locals
  <1>0. UNCHANGED <<debt, rollbacks>>
    BY DEF Kernel
  <1>1. CASE NextEnter(t)
    BY <1>0, <1>1 DEF NextEnter, Labels, Rolling
  <1>2. CASE NextLook(t)
    BY <1>0, <1>2 DEF NextLook, Labels, Rolling
  <1>3. CASE NextStall(t)
    BY <1>0, <1>3 DEF NextStall, Labels, Rolling, Forget, Wait
  <1>4. CASE NextFinish(t)
    BY <1>0, <1>4 DEF NextFinish, Labels, Rolling, Forget
  <1>5. CASE NextClaim(t)
    BY <1>0, <1>5 DEF NextClaim, Labels, Rolling
  <1>6. CASE NextMark(t)
    BY <1>0, <1>6, IndexType DEF NextMark, Labels, Rolling, Forget, Status
  <1>7. CASE RollbackDone(t)
    BY <1>0, <1>7, IndexType DEF RollbackDone, Labels, Rolling, Status
  <1>8. CASE RollbackLock(t)
    BY <1>0, <1>8 DEF RollbackLock, Labels, Rolling
  <1>9. CASE RollbackEnter(t)
    BY <1>0, <1>9 DEF RollbackEnter, Labels, Rolling
  <1>10. CASE RollbackSkip(t)
    BY <1>0, <1>10 DEF RollbackSkip, Labels, Rolling
  <1>11. CASE RollbackStatus(t)
    BY <1>0, <1>11, IndexType DEF RollbackStatus, Labels, Rolling, Status
  <1>12. CASE RollbackFlag(t)
    BY <1>0, <1>12, IndexType DEF RollbackFlag, Labels, Rolling, Status
  <1>13. CASE RollbackNext(t)
    BY <1>0, <1>13 DEF RollbackNext, Labels, Rolling
  <1>14. CASE RollbackStopKeep(t)
    BY <1>0, <1>14 DEF RollbackStopKeep, Labels, Rolling
  <1>15. CASE RollbackStopRead(t)
    BY <1>0, <1>15 DEF RollbackStopRead, Labels, Rolling
  <1>16. CASE RollbackStopCas(t)
    BY <1>0, <1>16 DEF RollbackStopCas, Labels, Rolling, StopCas
  <1>17. CASE RollbackExit(t)
    BY <1>0, <1>17 DEF RollbackExit, Labels, Rolling, Forget
  <1>18. CASE Stop(t)
    BY <1>0, <1>18 DEF Stop, Labels, Rolling
  <1>19. CASE SetDone(t)
    BY <1>0, <1>19, IndexType DEF SetDone, Labels, Rolling, Status
  <1>20. CASE GetCommit(t)
    BY <1>0, <1>20 DEF GetCommit, Labels, Rolling
  <1>21. CASE GetCommitNone(t)
    BY <1>0, <1>21 DEF GetCommitNone, Labels, Rolling, Forget
  <1>22. CASE GetCommitCheck(t)
    BY <1>0, <1>22 DEF GetCommitCheck, Labels, Rolling
  <1>23. CASE GetCommitCas(t)
    BY <1>0, <1>23 DEF GetCommitCas, Labels, Rolling
  <1>24. CASE CommitDone(t)
    BY <1>0, <1>24, IndexType DEF CommitDone, Labels, Rolling, Status
  <1>25. CASE FirstRead(t)
    BY <1>0, <1>25 DEF FirstRead, Labels, Rolling
  <1>26. CASE FirstCheck(t)
    BY <1>0, <1>26 DEF FirstCheck, Labels, Rolling
  <1>27. CASE FirstCas(t)
    BY <1>0, <1>27 DEF FirstCas, Labels, Rolling
  <1>28. CASE UpdateStopKeep(t)
    BY <1>0, <1>28 DEF UpdateStopKeep, Labels, Rolling
  <1>29. CASE UpdateStopRead(t)
    BY <1>0, <1>29 DEF UpdateStopRead, Labels, Rolling
  <1>30. CASE UpdateStopCas(t)
    BY <1>0, <1>30 DEF UpdateStopCas, Labels, Rolling, StopCas
  <1>31. CASE Signal(t)
    BY <1>0, <1>31 DEF Signal, Labels, Rolling, Forget
  <1> QED
    BY <1>1, <1>2, <1>3, <1>4, <1>5, <1>6, <1>7, <1>8, <1>9, <1>10, <1>11, <1>12, <1>13, <1>14, <1>15, <1>16, <1>17, <1>18, <1>19, <1>20, <1>21, <1>22, <1>23, <1>24, <1>25, <1>26, <1>27, <1>28, <1>29, <1>30, <1>31 DEF Kernel

LEMMA BodyTypeOK ==
  ASSUME TypeOK, NEW t \in Thread, Body(t)
  PROVE  TypeOK'
  <1> USE DEF TypeOK, Goto, cursors, locks, locals
  <1>1. CASE Undo(t)
    BY <1>1 DEF Undo, Labels, Rolling
  <1>2. CASE Publish(t)
    BY <1>2 DEF Publish, Labels, Rolling
  <1>3. ASSUME NEW e \in epoch[t] + 1 .. epoch[t] + EpochMax - 1, StartRollback(t, e)
        PROVE  TypeOK'
    <2>1. e \in Nat
      BY EpochMaxAssumption
    <2>2. rollbacks' \in Nat
      BY <1>3 DEF StartRollback
    <2>3. UNCHANGED <<status, cursors, rollbackFlag, stop, locks, epoch, cur, oldStop, newStop>>
      BY <1>3 DEF StartRollback
    <2>4. /\ pc' = [pc EXCEPT ![t] = "rollback"]
          /\ start' = [start EXCEPT ![t] = e]
          /\ debt' = [debt EXCEPT ![t] = 0]
      BY <1>3 DEF StartRollback
    <2> QED
      BY <2>1, <2>2, <2>3, <2>4 DEF Labels, Rolling
  <1>4. CASE Return(t)
    BY <1>4 DEF Return, Labels, Rolling
  <1>5. CASE MisreadLate(t)
    BY <1>5 DEF MisreadLate, Labels, Rolling
  <1>6. CASE Fail(t)
    BY <1>6 DEF Fail, Labels, Rolling
  <1>7. ASSUME NEW u \in Thread, Misread(t, u)
        PROVE  TypeOK'
    BY <1>7 DEF Misread, Labels, Rolling
  <1> QED
    BY <1>1, <1>2, <1>3, <1>4, <1>5, <1>6, <1>7 DEF Body

LEMMA StepTypeOK == TypeOK /\ [Next]_vars => TypeOK'
  <1> SUFFICES ASSUME TypeOK, [Next]_vars PROVE TypeOK'
    OBVIOUS
  <1>1. ASSUME NEW t \in Thread, Worker(t) PROVE TypeOK'
    BY <1>1, KernelTypeOK, BodyTypeOK DEF Worker
  <1>2. ASSUME NEW t \in Thread, SpuriousWakeup(t) PROVE TypeOK'
    BY <1>2 DEF SpuriousWakeup, TypeOK, cursors, locals
  <1>3. CASE UNCHANGED vars
    BY <1>3 DEF vars, epochVars, TypeOK, cursors, locks, locals
  <1> QED
    BY <1>1, <1>2, <1>3 DEF Next, Terminating

(* Every variable keeps its type, whatever the bounds of the model.         *)
THEOREM TypeCorrect == Spec => []TypeOK
  <1> QED
    BY InitTypeOK, StepTypeOK, PTL DEF Spec

-----------------------------------------------------------------------------
(* The inductive invariant.                                                 *)

\* The labels at which g_next_lock and g_rollback_lock are held.
RollbackHolds == Rolling \ {"rollback"}
NextHolds == {"next_look", "next_stop", "next_mark"}
             \cup (RollbackHolds \ {"rollback_enter"})

\* The labels of yarn_epoch_get_next_commit: to_commit is read, it was found
\* different from next, its status was found done.
Looking == {"commit_last", "commit_status", "commit_stop", "commit_first", "commit_cas"}
Unblocked == Looking \ {"commit_last"}
FoundDone == Unblocked \ {"commit_status"}

(* The mutexes exclude: they belong to the thread whose label says so.      *)
LockInv ==
  \A t \in Thread :
    /\ nextLock = t <=> pc[t] \in NextHolds
    /\ rollbackLock = t <=> pc[t] \in RollbackHolds

(* An epoch that runs is not committed yet and less than a turn from the    *)
(* oldest one, and its slot says that it runs.                              *)
RunInv ==
  \A t \in Thread :
    /\ Running(t) => nextCommit <= epoch[t] /\ epoch[t] < first + EpochMax
    /\ Running(t) /\ pc[t] # "next_mark" =>
         status[Index(epoch[t])] \in {"executing", "pending_rollback"}
    /\ pc[t] = "next_mark" =>
         epoch[t] + 1 = next /\ status[Index(epoch[t])] \in {"commit", "rollback"}
    /\ pc[t] = "next_stop" =>
         next < first + EpochMax /\ status[Index(next)] # "pending_rollback"

(* A rollback starts after the epoch that asks for it, and leaves nothing   *)
(* but rolled back epochs behind the one it is at.                          *)
ScanInv ==
  \A t \in Thread :
    /\ pc[t] \in Rolling => epoch[t] < start[t]
    /\ pc[t] \in {"rollback_scan", "rollback_flag"} =>
         /\ start[t] <= cur[t]
         /\ \A e \in start[t] .. cur[t] - 1 :
              status[Index(e)] \in {"commit"} \cup RolledBack
    /\ pc[t] = "rollback_flag" =>
         cur[t] < next /\ status[Index(cur[t])] \in RolledBack

(* What the lock-free reads of get_next_commit have established is still    *)
(* true, unless the compare-and-swap is bound to fail; and a commit that    *)
(* was claimed stays done, in the window of the ring, until it is over.     *)
CommitInv ==
  \A t \in Thread :
    /\ pc[t] \in Looking => cur[t] <= nextCommit
    /\ pc[t] \in Unblocked /\ cur[t] = nextCommit => cur[t] < next
    /\ pc[t] \in FoundDone /\ cur[t] = nextCommit => status[Index(cur[t])] = "done"
    /\ Committing(t) =>
         first <= cur[t] /\ cur[t] < nextCommit /\ status[Index(cur[t])] = "done"

(* The same for the loop of commit_done that moves first.                   *)
FirstInv ==
  \A t \in Thread :
    /\ pc[t] \in {"first_check", "first_cas"} => cur[t] <= first
    /\ pc[t] = "first_cas" =>
         cur[t] < nextCommit /\ (cur[t] = first => status[Index(cur[t])] = "commit")

\* Epoch e is being claimed, or is behind a rollback that did not move next yet.
InHand(e) ==
  \E t \in Thread :
    \/ pc[t] = "next_mark" /\ epoch[t] = e
    \/ pc[t] = "rollback_scan" /\ start[t] <= e /\ e < cur[t]
    \/ pc[t] = "rollback_flag" /\ start[t] <= e /\ e <= cur[t]

(* The status of the slots, by the range of their epoch: commit claimed,    *)
(* given out, and still to give out (again).                                *)
CommittedInv ==
  \A e \in first .. nextCommit - 1 : status[Index(e)] \in {"done", "commit"}

ClaimedInv ==
  \A e \in nextCommit .. next - 1 : status[Index(e)] \in {"executing", "done"} \/ InHand(e)

FreeInv ==
  \A e \in next .. first + EpochMax - 1 : status[Index(e)] \in {"commit"} \cup RolledBack

Inductive ==
  /\ TypeOK
  /\ LockInv
  /\ CursorOrder
  /\ RunInv
  /\ ScanInv
  /\ CommitInv
  /\ FirstInv
  /\ CommittedInv
  /\ ClaimedInv
  /\ FreeInv
  /\ SlotExclusive
  /\ FlagImpliesUndo

-----------------------------------------------------------------------------
(* What a worker does to the ring outside of epoch.c, whatever the loop and *)
(* its dependency tracker are: it goes on from one function to the next, or *)
(* asks for the rollback of a later epoch, or wakes up for no reason, or    *)
(* leaves the ring alone.                                                   *)

Passes(t) ==
  /\ \/ Goto(t, "undo", "rollback_done")
     \/ Goto(t, "publish", "commit_done")
     \/ \E l \in {"stop", "set_done", "failed"} : Goto(t, "exec", l)
  /\ UNCHANGED <<status, cursors, rollbackFlag, stop, locks, locals>>

Asks(t) ==
  \E e \in Nat :
    /\ epoch[t] < e
    /\ Goto(t, "exec", "rollback")
    /\ start' = [start EXCEPT ![t] = e]
    /\ UNCHANGED <<status, cursors, rollbackFlag, stop, locks, epoch, cur, oldStop, newStop>>

Wakes(t) ==
  /\ t \in waiters
  /\ waiters' = waiters \ {t}
  /\ UNCHANGED <<status, cursors, rollbackFlag, stop, nextLock, rollbackLock, pc, locals>>

Uses(t) == Passes(t) \/ Asks(t) \/ Wakes(t) \/ UNCHANGED epochVars

LEMMA UsesTypeOK ==
  ASSUME TypeOK, UNCHANGED <<debt, rollbacks>>, NEW t \in Thread, Uses(t)
  PROVE  TypeOK'
  <1> USE DEF TypeOK, Goto, cursors, locks, locals, Labels, Rolling
  <1>1. CASE Passes(t)
    BY <1>1 DEF Passes
  <1>2. CASE Asks(t)
    BY <1>2 DEF Asks
  <1>3. CASE Wakes(t)
    BY <1>3 DEF Wakes
  <1>4. CASE UNCHANGED epochVars
    BY <1>4 DEF epochVars
  <1> QED
    BY <1>1, <1>2, <1>3, <1>4 DEF Uses

\* The workers of the module EpochClient do no more than that.
LEMMA ClientUses ==
  ASSUME Inductive,
         NEW t \in Thread,
         Body(t) \/ SpuriousWakeup(t) \/ UNCHANGED vars
  PROVE  Uses(t)
  <1>1. CASE Undo(t) \/ Publish(t) \/ Return(t) \/ MisreadLate(t) \/ Fail(t)
    BY <1>1 DEF Undo, Publish, Return, MisreadLate, Fail, Uses, Passes, Goto
  <1>2. ASSUME NEW u \in Thread, Misread(t, u)
        PROVE  Uses(t)
    BY <1>2 DEF Misread, Uses, Passes, Goto
  <1>3. ASSUME NEW e \in epoch[t] + 1 .. epoch[t] + EpochMax - 1, StartRollback(t, e)
        PROVE  Uses(t)
    <2>1. e \in Nat /\ epoch[t] < e
      BY EpochMaxAssumption DEF Inductive, TypeOK
    <2> QED
      BY <1>3, <2>1 DEF StartRollback, Uses, Asks
  <1>4. CASE SpuriousWakeup(t)
    BY <1>4 DEF SpuriousWakeup, Uses, Wakes
  <1>5. CASE UNCHANGED vars
    BY <1>5 DEF vars, Uses
  <1> QED
    BY <1>1, <1>2, <1>3, <1>4, <1>5 DEF Body

-----------------------------------------------------------------------------
\* The steps of epoch.c preserve LockInv: who holds the locks.
LEMMA KernelLockInv ==
  ASSUME Inductive, NEW t \in Thread, Kernel(t)
  PROVE  LockInv'
  <1> USE DEF Inductive, LockInv, NextHolds, RollbackHolds, Rolling, TypeOK,
      cursors, locks, locals, Goto
  <1>1. CASE NextEnter(t)
    BY <1>1, NoThreadAssumption DEF NextEnter
  <1>2. CASE NextLook(t)
    BY <1>2 DEF NextLook
  <1>3. CASE NextStall(t)
    BY <1>3, NoThreadAssumption DEF NextStall, Forget, Wait
  <1>4. CASE NextFinish(t)
    BY <1>4, NoThreadAssumption DEF NextFinish, Forget
  <1>5. CASE NextClaim(t)
    BY <1>5 DEF NextClaim
  <1>6. CASE NextMark(t)
    BY <1>6, NoThreadAssumption DEF NextMark, Forget
  <1>7. CASE RollbackDone(t)
    BY <1>7 DEF RollbackDone
  <1>8. CASE RollbackLock(t)
    BY <1>8, NoThreadAssumption DEF RollbackLock
  <1>9. CASE RollbackEnter(t)
    BY <1>9, NoThreadAssumption DEF RollbackEnter
  <1>10. CASE RollbackSkip(t)
    BY <1>10 DEF RollbackSkip
  <1>11. CASE RollbackStatus(t)
    BY <1>11 DEF RollbackStatus
  <1>12. CASE RollbackFlag(t)
    BY <1>12 DEF RollbackFlag
  <1>13. CASE RollbackNext(t)
    BY <1>13 DEF RollbackNext
  <1>14. CASE RollbackStopKeep(t)
    BY <1>14 DEF RollbackStopKeep
  <1>15. CASE RollbackStopRead(t)
    BY <1>15 DEF RollbackStopRead
  <1>16. CASE RollbackStopCas(t)
    BY <1>16 DEF RollbackStopCas, StopCas
  <1>17. CASE RollbackExit(t)
    BY <1>17, NoThreadAssumption DEF RollbackExit, Forget
  <1>18. CASE Stop(t)
    BY <1>18 DEF Stop
  <1>19. CASE SetDone(t)
    BY <1>19 DEF SetDone
  <1>20. CASE GetCommit(t)
    BY <1>20 DEF GetCommit
  <1>21. CASE GetCommitNone(t)
    BY <1>21 DEF GetCommitNone, Forget
  <1>22. CASE GetCommitCheck(t)
    BY <1>22 DEF GetCommitCheck
  <1>23. CASE GetCommitCas(t)
    BY <1>23 DEF GetCommitCas
  <1>24. CASE CommitDone(t)
    BY <1>24 DEF CommitDone
  <1>25. CASE FirstRead(t)
    BY <1>25 DEF FirstRead
  <1>26. CASE FirstCheck(t)
    BY <1>26 DEF FirstCheck
  <1>27. CASE FirstCas(t)
    BY <1>27 DEF FirstCas
  <1>28. CASE UpdateStopKeep(t)
    BY <1>28 DEF UpdateStopKeep
  <1>29. CASE UpdateStopRead(t)
    BY <1>29 DEF UpdateStopRead
  <1>30. CASE UpdateStopCas(t)
    BY <1>30 DEF UpdateStopCas, StopCas
  <1>31. CASE Signal(t)
    BY <1>31 DEF Signal, Forget
  <1> QED
    BY <1>1, <1>2, <1>3, <1>4, <1>5, <1>6, <1>7, <1>8, <1>9, <1>10, <1>11, <1>12,
       <1>13, <1>14, <1>15, <1>16, <1>17, <1>18, <1>19, <1>20, <1>21, <1>22, <1>23,
       <1>24, <1>25, <1>26, <1>27, <1>28, <1>29, <1>30, <1>31 DEF Kernel

\* So do the steps of the workers around it.
LEMMA UsesLockInv ==
  ASSUME Inductive, NEW t \in Thread, Uses(t)
  PROVE  LockInv'
  <1> USE DEF Inductive, LockInv, NextHolds, RollbackHolds, Rolling, TypeOK,
      cursors, locks, locals, Goto
  <1>1. CASE Passes(t)
    BY <1>1 DEF Passes
  <1>2. CASE Asks(t)
    BY <1>2 DEF Asks
  <1>3. CASE Wakes(t)
    BY <1>3 DEF Wakes
  <1>4. CASE UNCHANGED epochVars
    BY <1>4 DEF epochVars
  <1> QED
    BY <1>1, <1>2, <1>3, <1>4 DEF Uses

-----------------------------------------------------------------------------
\* The steps of epoch.c preserve CursorOrder: the order of the cursors.
LEMMA KernelCursorOrder ==
  ASSUME Inductive, NEW t \in Thread, Kernel(t)
  PROVE  CursorOrder'
  <1> USE DEF Inductive, CursorOrder, cursors, locks, locals, Goto
  <1>1. CASE NextEnter(t)
    BY <1>1 DEF NextEnter
  <1>2. CASE NextLook(t)
    BY <1>2 DEF NextLook
  <1>3. CASE NextStall(t)
    BY <1>3 DEF NextStall, Forget, Wait
  <1>4. CASE NextFinish(t)
    BY <1>4 DEF NextFinish, Forget
  <1>5. CASE NextClaim(t)
    BY <1>5, EpochMaxAssumption DEF NextClaim, RunInv, TypeOK
  <1>6. CASE NextMark(t)
    BY <1>6 DEF NextMark, Forget
  <1>7. CASE RollbackDone(t)
    BY <1>7 DEF RollbackDone
  <1>8. CASE RollbackLock(t)
    BY <1>8 DEF RollbackLock
  <1>9. CASE RollbackEnter(t)
    BY <1>9 DEF RollbackEnter
  <1>10. CASE RollbackSkip(t)
    BY <1>10 DEF RollbackSkip
  <1>11. CASE RollbackStatus(t)
    BY <1>11 DEF RollbackStatus
  <1>12. CASE RollbackFlag(t)
    BY <1>12 DEF RollbackFlag
  <1>13. CASE RollbackNext(t)
    BY <1>13, EpochMaxAssumption DEF RollbackNext, RunInv, ScanInv, Running,
       Rolling, TypeOK
  <1>14. CASE RollbackStopKeep(t)
    BY <1>14 DEF RollbackStopKeep
  <1>15. CASE RollbackStopRead(t)
    BY <1>15 DEF RollbackStopRead
  <1>16. CASE RollbackStopCas(t)
    BY <1>16 DEF RollbackStopCas, StopCas
  <1>17. CASE RollbackExit(t)
    BY <1>17 DEF RollbackExit, Forget
  <1>18. CASE Stop(t)
    BY <1>18 DEF Stop
  <1>19. CASE SetDone(t)
    BY <1>19 DEF SetDone
  <1>20. CASE GetCommit(t)
    BY <1>20 DEF GetCommit
  <1>21. CASE GetCommitNone(t)
    BY <1>21 DEF GetCommitNone, Forget
  <1>22. CASE GetCommitCheck(t)
    BY <1>22 DEF GetCommitCheck
  <1>23. CASE GetCommitCas(t)
    BY <1>23 DEF GetCommitCas, CommitInv, Looking, Unblocked, FoundDone, TypeOK
  <1>24. CASE CommitDone(t)
    BY <1>24 DEF CommitDone
  <1>25. CASE FirstRead(t)
    BY <1>25 DEF FirstRead
  <1>26. CASE FirstCheck(t)
    BY <1>26 DEF FirstCheck
  <1>27. CASE FirstCas(t)
    BY <1>27, EpochMaxAssumption DEF FirstCas, FirstInv, TypeOK
  <1>28. CASE UpdateStopKeep(t)
    BY <1>28 DEF UpdateStopKeep
  <1>29. CASE UpdateStopRead(t)
    BY <1>29 DEF UpdateStopRead
  <1>30. CASE UpdateStopCas(t)
    BY <1>30 DEF UpdateStopCas, StopCas
  <1>31. CASE Signal(t)
    BY <1>31 DEF Signal, Forget
  <1> QED
    BY <1>1, <1>2, <1>3, <1>4, <1>5, <1>6, <1>7, <1>8, <1>9, <1>10, <1>11, <1>12,
       <1>13, <1>14, <1>15, <1>16, <1>17, <1>18, <1>19, <1>20, <1>21, <1>22, <1>23,
       <1>24, <1>25, <1>26, <1>27, <1>28, <1>29, <1>30, <1>31 DEF Kernel

\* So do the steps of the workers around it.
LEMMA UsesCursorOrder ==
  ASSUME Inductive, NEW t \in Thread, Uses(t)
  PROVE  CursorOrder'
  <1> USE DEF Inductive, CursorOrder, TypeOK, cursors, locks, locals, Goto
  <1>1. CASE Passes(t)
    BY <1>1 DEF Passes
  <1>2. CASE Asks(t)
    BY <1>2 DEF Asks
  <1>3. CASE Wakes(t)
    BY <1>3 DEF Wakes
  <1>4. CASE UNCHANGED epochVars
    BY <1>4 DEF epochVars
  <1> QED
    BY <1>1, <1>2, <1>3, <1>4 DEF Uses

-----------------------------------------------------------------------------
\* The steps of epoch.c preserve RunInv: the running epochs.
LEMMA KernelRunInv ==
  ASSUME Inductive, NEW t \in Thread, Kernel(t)
  PROVE  RunInv'
  <1> USE DEF Inductive, RunInv, Running, Rolling, TypeOK, cursors, locks, locals,
      Goto
  <1>1. CASE NextEnter(t)
    BY <1>1 DEF NextEnter
  <1>2. CASE NextLook(t)
    <2> USE EpochMaxAssumption DEF CursorOrder
    <2>1. ASSUME next = first + EpochMax
          PROVE  FALSE
      <3>1. next # first
        BY <2>1
      <3>2. Index(next) = Index(first)
        BY <2>1, IndexTurn
      <3> QED
        BY <1>2, <3>1, <3>2 DEF NextLook, RingFull
    <2> QED
      BY <1>2, <2>1 DEF NextLook, SlotPending
  <1>3. CASE NextStall(t)
    BY <1>3 DEF NextStall, Forget, Wait
  <1>4. CASE NextFinish(t)
    BY <1>4 DEF NextFinish, Forget
  <1>5. CASE NextClaim(t)
    BY <1>5, EpochMaxAssumption DEF NextClaim, LockInv, CursorOrder, FreeInv,
       NextHolds, RolledBack
  <1>6. CASE NextMark(t)
    BY <1>6, IndexType DEF NextMark, Forget, SlotExclusive, Held
  <1>7. CASE RollbackDone(t)
    BY <1>7 DEF RollbackDone
  <1>8. CASE RollbackLock(t)
    BY <1>8 DEF RollbackLock
  <1>9. CASE RollbackEnter(t)
    BY <1>9 DEF RollbackEnter
  <1>10. CASE RollbackSkip(t)
    BY <1>10 DEF RollbackSkip
  <1>11. CASE RollbackStatus(t)
    BY <1>11 DEF RollbackStatus, LockInv, RollbackHolds, NextHolds
  <1>12. CASE RollbackFlag(t)
    BY <1>12 DEF RollbackFlag
  <1>13. CASE RollbackNext(t)
    BY <1>13 DEF RollbackNext, LockInv, RollbackHolds, NextHolds
  <1>14. CASE RollbackStopKeep(t)
    BY <1>14 DEF RollbackStopKeep
  <1>15. CASE RollbackStopRead(t)
    BY <1>15 DEF RollbackStopRead
  <1>16. CASE RollbackStopCas(t)
    BY <1>16 DEF RollbackStopCas, StopCas
  <1>17. CASE RollbackExit(t)
    BY <1>17 DEF RollbackExit, Forget
  <1>18. CASE Stop(t)
    BY <1>18 DEF Stop
  <1>19. CASE SetDone(t)
    <2>1. \A u \in Thread : Running(u) /\ u # t => Index(epoch[u]) # Index(epoch[t])
      BY <1>19 DEF SetDone, SlotExclusive, Held
    <2> QED
      BY <1>19, <2>1 DEF SetDone
  <1>20. CASE GetCommit(t)
    BY <1>20 DEF GetCommit
  <1>21. CASE GetCommitNone(t)
    BY <1>21 DEF GetCommitNone, Forget
  <1>22. CASE GetCommitCheck(t)
    BY <1>22 DEF GetCommitCheck
  <1>23. CASE GetCommitCas(t)
    <2> USE DEF CommitInv, Looking, Unblocked, FoundDone
    <2>1. CASE nextCommit = cur[t]
      <3>1. status[Index(nextCommit)] = "done" /\ cur[t] < next
        BY <1>23, <2>1 DEF GetCommitCas
      <3>2. /\ pc' = [pc EXCEPT ![t] = "publish"] /\ nextCommit' = nextCommit + 1
            /\ UNCHANGED <<status, first, next, locals>>
        BY <1>23, <2>1 DEF GetCommitCas
      <3>3. ASSUME NEW u \in Thread, Running(u)'
            PROVE  Running(u) /\ epoch[u] # nextCommit /\ pc'[u] = pc[u]
        <4>1. u # t /\ Running(u) /\ pc'[u] = pc[u]
          BY <3>2, <3>3
        <4>2. CASE epoch[u] = nextCommit
          BY <3>1, <4>1, <4>2
        <4> QED
          BY <4>1, <4>2
      <3>4. pc'[t] = "publish" /\ \A u \in Thread : u # t => pc'[u] = pc[u]
        BY <3>2
      <3>5. ASSUME NEW u \in Thread
            PROVE  /\ Running(u)' => nextCommit' <= epoch'[u] /\ epoch'[u] < first' + EpochMax
                   /\ (Running(u) /\ pc[u] # "next_mark")' =>
                        status'[Index(epoch'[u])] \in {"executing", "pending_rollback"}
                   /\ pc'[u] = "next_mark" =>
                        epoch'[u] + 1 = next' /\ status'[Index(epoch'[u])] \in {"commit", "rollback"}
                   /\ pc'[u] = "next_stop" =>
                        next' < first' + EpochMax /\ status'[Index(next')] # "pending_rollback"
        <4>1. CASE Running(u)'
          <5>1. nextCommit <= epoch[u] /\ epoch[u] # nextCommit /\ Running(u)
            BY <3>3, <4>1
          <5>2. nextCommit \in Nat /\ epoch[u] \in Nat
            OBVIOUS
          <5>3. nextCommit + 1 <= epoch[u]
            BY ONLY <5>1, <5>2
          <5> QED
            BY <3>2, <3>3, <4>1, <5>1, <5>3
        <4>2. CASE ~Running(u)'
          BY <3>2, <3>4, <4>2
        <4> QED
          BY <4>1, <4>2
      <3> QED
        BY <3>5
    <2>2. CASE nextCommit # cur[t]
      BY <1>23, <2>2 DEF GetCommitCas
    <2> QED
      BY <2>1, <2>2
  <1>24. CASE CommitDone(t)
    BY <1>24 DEF CommitDone
  <1>25. CASE FirstRead(t)
    BY <1>25 DEF FirstRead
  <1>26. CASE FirstCheck(t)
    BY <1>26 DEF FirstCheck
  <1>27. CASE FirstCas(t)
    BY <1>27, EpochMaxAssumption DEF FirstCas
  <1>28. CASE UpdateStopKeep(t)
    BY <1>28 DEF UpdateStopKeep
  <1>29. CASE UpdateStopRead(t)
    BY <1>29 DEF UpdateStopRead
  <1>30. CASE UpdateStopCas(t)
    BY <1>30 DEF UpdateStopCas, StopCas
  <1>31. CASE Signal(t)
    BY <1>31 DEF Signal, Forget
  <1> QED
    BY <1>1, <1>2, <1>3, <1>4, <1>5, <1>6, <1>7, <1>8, <1>9, <1>10, <1>11, <1>12,
       <1>13, <1>14, <1>15, <1>16, <1>17, <1>18, <1>19, <1>20, <1>21, <1>22, <1>23,
       <1>24, <1>25, <1>26, <1>27, <1>28, <1>29, <1>30, <1>31 DEF Kernel

\* So do the steps of the workers around it.
LEMMA UsesRunInv ==
  ASSUME Inductive, NEW t \in Thread, Uses(t)
  PROVE  RunInv'
  <1> USE DEF Inductive, RunInv, Running, Rolling, TypeOK, cursors, locks, locals,
      Goto
  <1>1. CASE Passes(t)
    BY <1>1 DEF Passes
  <1>2. CASE Asks(t)
    BY <1>2 DEF Asks
  <1>3. CASE Wakes(t)
    BY <1>3 DEF Wakes
  <1>4. CASE UNCHANGED epochVars
    BY <1>4 DEF epochVars
  <1> QED
    BY <1>1, <1>2, <1>3, <1>4 DEF Uses

-----------------------------------------------------------------------------
\* The steps of epoch.c preserve ScanInv: the progress of a rollback.
LEMMA KernelScanInv ==
  ASSUME Inductive, NEW t \in Thread, Kernel(t)
  PROVE  ScanInv'
  <1> USE DEF Inductive, ScanInv, Rolling, RolledBack, TypeOK, cursors, locks,
      locals, Goto
  <1>1. CASE NextEnter(t)
    BY <1>1 DEF NextEnter
  <1>2. CASE NextLook(t)
    BY <1>2 DEF NextLook
  <1>3. CASE NextStall(t)
    BY <1>3 DEF NextStall, Forget, Wait
  <1>4. CASE NextFinish(t)
    BY <1>4 DEF NextFinish, Forget
  <1>5. CASE NextClaim(t)
    BY <1>5 DEF NextClaim
  <1>6. CASE NextMark(t)
    BY <1>6 DEF NextMark, Forget, LockInv, RollbackHolds, NextHolds
  <1>7. CASE RollbackDone(t)
    BY <1>7 DEF RollbackDone
  <1>8. CASE RollbackLock(t)
    BY <1>8 DEF RollbackLock
  <1>9. CASE RollbackEnter(t)
    BY <1>9 DEF RollbackEnter
  <1>10. CASE RollbackSkip(t)
    BY <1>10 DEF RollbackSkip
  <1>11. CASE RollbackStatus(t)
    BY <1>11, IndexType DEF RollbackStatus
  <1>12. CASE RollbackFlag(t)
    BY <1>12, NoThreadAssumption DEF RollbackFlag, LockInv
  <1>13. CASE RollbackNext(t)
    BY <1>13 DEF RollbackNext, LockInv, RollbackHolds
  <1>14. CASE RollbackStopKeep(t)
    BY <1>14 DEF RollbackStopKeep
  <1>15. CASE RollbackStopRead(t)
    BY <1>15 DEF RollbackStopRead
  <1>16. CASE RollbackStopCas(t)
    BY <1>16 DEF RollbackStopCas, StopCas
  <1>17. CASE RollbackExit(t)
    BY <1>17 DEF RollbackExit, Forget
  <1>18. CASE Stop(t)
    BY <1>18 DEF Stop
  <1>19. CASE SetDone(t)
    BY <1>19 DEF SetDone
  <1>20. CASE GetCommit(t)
    BY <1>20 DEF GetCommit
  <1>21. CASE GetCommitNone(t)
    BY <1>21 DEF GetCommitNone, Forget
  <1>22. CASE GetCommitCheck(t)
    BY <1>22 DEF GetCommitCheck
  <1>23. CASE GetCommitCas(t)
    BY <1>23 DEF GetCommitCas
  <1>24. CASE CommitDone(t)
    BY <1>24 DEF CommitDone
  <1>25. CASE FirstRead(t)
    BY <1>25 DEF FirstRead
  <1>26. CASE FirstCheck(t)
    BY <1>26 DEF FirstCheck
  <1>27. CASE FirstCas(t)
    BY <1>27 DEF FirstCas
  <1>28. CASE UpdateStopKeep(t)
    BY <1>28 DEF UpdateStopKeep
  <1>29. CASE UpdateStopRead(t)
    BY <1>29 DEF UpdateStopRead
  <1>30. CASE UpdateStopCas(t)
    BY <1>30 DEF UpdateStopCas, StopCas
  <1>31. CASE Signal(t)
    BY <1>31 DEF Signal, Forget
  <1> QED
    BY <1>1, <1>2, <1>3, <1>4, <1>5, <1>6, <1>7, <1>8, <1>9, <1>10, <1>11, <1>12,
       <1>13, <1>14, <1>15, <1>16, <1>17, <1>18, <1>19, <1>20, <1>21, <1>22, <1>23,
       <1>24, <1>25, <1>26, <1>27, <1>28, <1>29, <1>30, <1>31 DEF Kernel

\* So do the steps of the workers around it.
LEMMA UsesScanInv ==
  ASSUME Inductive, NEW t \in Thread, Uses(t)
  PROVE  ScanInv'
  <1> USE DEF Inductive, ScanInv, Rolling, RolledBack, TypeOK, cursors, locks,
      locals, Goto
  <1>1. CASE Passes(t)
    BY <1>1 DEF Passes
  <1>2. CASE Asks(t)
    BY <1>2 DEF Asks
  <1>3. CASE Wakes(t)
    BY <1>3 DEF Wakes
  <1>4. CASE UNCHANGED epochVars
    BY <1>4 DEF epochVars
  <1> QED
    BY <1>1, <1>2, <1>3, <1>4 DEF Uses

-----------------------------------------------------------------------------
\* The steps of epoch.c preserve CommitInv: the claim of a commit.
LEMMA KernelCommitInv ==
  ASSUME Inductive, NEW t \in Thread, Kernel(t)
  PROVE  CommitInv'
  <1> USE DEF Inductive, CommitInv, Looking, Unblocked, FoundDone, Committing,
      TypeOK, cursors, locks, locals, Goto
  <1>1. CASE NextEnter(t)
    BY <1>1 DEF NextEnter
  <1>2. CASE NextLook(t)
    BY <1>2 DEF NextLook
  <1>3. CASE NextStall(t)
    BY <1>3 DEF NextStall, Forget, Wait
  <1>4. CASE NextFinish(t)
    BY <1>4 DEF NextFinish, Forget
  <1>5. CASE NextClaim(t)
    BY <1>5 DEF NextClaim
  <1>6. CASE NextMark(t)
    BY <1>6 DEF NextMark, Forget
  <1>7. CASE RollbackDone(t)
    BY <1>7 DEF RollbackDone
  <1>8. CASE RollbackLock(t)
    BY <1>8 DEF RollbackLock
  <1>9. CASE RollbackEnter(t)
    BY <1>9 DEF RollbackEnter
  <1>10. CASE RollbackSkip(t)
    BY <1>10 DEF RollbackSkip
  <1>11. CASE RollbackStatus(t)
    BY <1>11, EpochMaxAssumption, IndexDistinct DEF RollbackStatus, CursorOrder,
       RunInv, ScanInv, Running, Rolling
  <1>12. CASE RollbackFlag(t)
    BY <1>12 DEF RollbackFlag
  <1>13. CASE RollbackNext(t)
    BY <1>13 DEF RollbackNext, RunInv, ScanInv, Running, Rolling
  <1>14. CASE RollbackStopKeep(t)
    BY <1>14 DEF RollbackStopKeep
  <1>15. CASE RollbackStopRead(t)
    BY <1>15 DEF RollbackStopRead
  <1>16. CASE RollbackStopCas(t)
    BY <1>16 DEF RollbackStopCas, StopCas
  <1>17. CASE RollbackExit(t)
    BY <1>17 DEF RollbackExit, Forget
  <1>18. CASE Stop(t)
    BY <1>18 DEF Stop
  <1>19. CASE SetDone(t)
    BY <1>19 DEF SetDone
  <1>20. CASE GetCommit(t)
    BY <1>20 DEF GetCommit
  <1>21. CASE GetCommitNone(t)
    BY <1>21 DEF GetCommitNone, Forget
  <1>22. CASE GetCommitCheck(t)
    <2> USE DEF CursorOrder
    <2>1. UNCHANGED <<status, cursors, locals>>
      BY <1>22 DEF GetCommitCheck
    <2>2. CASE Goto(t, "commit_last", "commit_status") /\ cur[t] # next
      BY <2>1, <2>2
    <2>3. CASE Goto(t, "commit_status", "commit_stop") /\ status[Index(cur[t])] = "done"
      BY <2>1, <2>3
    <2>4. CASE Goto(t, "commit_stop", "commit_first")
      BY <2>1, <2>4
    <2>5. CASE Goto(t, "commit_stop", "commit_cas")
      BY <2>1, <2>5
    <2>6. CASE Goto(t, "commit_first", "commit_cas")
      BY <2>1, <2>6
    <2> QED
      BY <1>22, <2>2, <2>3, <2>4, <2>5, <2>6 DEF GetCommitCheck
  <1>23. CASE GetCommitCas(t)
    BY <1>23 DEF GetCommitCas, CursorOrder
  <1>24. CASE CommitDone(t)
    <2> USE EpochMaxAssumption, IndexDistinct DEF LockInv, CursorOrder, RunInv,
      Running, Rolling
    <2>1. \A u \in Thread : Committing(u) /\ u # t => Index(cur[u]) # Index(cur[t])
      BY <1>24 DEF CommitDone, SlotExclusive, Held
    <2>2. Index(nextCommit) # Index(cur[t]) \/ ~(nextCommit < first + EpochMax)
      BY <1>24 DEF CommitDone
    <2>3. \A u \in Thread : pc[u] \in Unblocked /\ cur[u] = nextCommit =>
            nextCommit < first + EpochMax
      OBVIOUS
    <2> QED
      BY <1>24, <2>1, <2>2, <2>3 DEF CommitDone
  <1>25. CASE FirstRead(t)
    BY <1>25 DEF FirstRead
  <1>26. CASE FirstCheck(t)
    BY <1>26 DEF FirstCheck
  <1>27. CASE FirstCas(t)
    BY <1>27 DEF FirstCas, FirstInv
  <1>28. CASE UpdateStopKeep(t)
    BY <1>28 DEF UpdateStopKeep
  <1>29. CASE UpdateStopRead(t)
    BY <1>29 DEF UpdateStopRead
  <1>30. CASE UpdateStopCas(t)
    BY <1>30 DEF UpdateStopCas, StopCas
  <1>31. CASE Signal(t)
    BY <1>31 DEF Signal, Forget
  <1> QED
    BY <1>1, <1>2, <1>3, <1>4, <1>5, <1>6, <1>7, <1>8, <1>9, <1>10, <1>11, <1>12,
       <1>13, <1>14, <1>15, <1>16, <1>17, <1>18, <1>19, <1>20, <1>21, <1>22, <1>23,
       <1>24, <1>25, <1>26, <1>27, <1>28, <1>29, <1>30, <1>31 DEF Kernel

\* So do the steps of the workers around it.
LEMMA UsesCommitInv ==
  ASSUME Inductive, NEW t \in Thread, Uses(t)
  PROVE  CommitInv'
  <1> USE DEF Inductive, CommitInv, Looking, Unblocked, FoundDone, Committing,
      TypeOK, cursors, locks, locals, Goto
  <1>1. CASE Passes(t)
    BY <1>1 DEF Passes
  <1>2. CASE Asks(t)
    BY <1>2 DEF Asks
  <1>3. CASE Wakes(t)
    BY <1>3 DEF Wakes
  <1>4. CASE UNCHANGED epochVars
    BY <1>4 DEF epochVars
  <1> QED
    BY <1>1, <1>2, <1>3, <1>4 DEF Uses

-----------------------------------------------------------------------------
\* The steps of epoch.c preserve FirstInv: the move of first.
LEMMA KernelFirstInv ==
  ASSUME Inductive, NEW t \in Thread, Kernel(t)
  PROVE  FirstInv'
  <1> USE DEF Inductive, FirstInv, cursors, locks, locals, Goto
  <1>1. CASE NextEnter(t)
    BY <1>1 DEF NextEnter
  <1>2. CASE NextLook(t)
    BY <1>2 DEF NextLook
  <1>3. CASE NextStall(t)
    BY <1>3 DEF NextStall, Forget, Wait, TypeOK
  <1>4. CASE NextFinish(t)
    BY <1>4 DEF NextFinish, Forget
  <1>5. CASE NextClaim(t)
    BY <1>5 DEF NextClaim
  <1>6. CASE NextMark(t)
    BY <1>6, IndexDistinct DEF NextMark, Forget, RunInv, Running, TypeOK
  <1>7. CASE RollbackDone(t)
    BY <1>7 DEF RollbackDone
  <1>8. CASE RollbackLock(t)
    BY <1>8 DEF RollbackLock
  <1>9. CASE RollbackEnter(t)
    BY <1>9 DEF RollbackEnter
  <1>10. CASE RollbackSkip(t)
    BY <1>10 DEF RollbackSkip
  <1>11. CASE RollbackStatus(t)
    BY <1>11 DEF RollbackStatus
  <1>12. CASE RollbackFlag(t)
    BY <1>12 DEF RollbackFlag
  <1>13. CASE RollbackNext(t)
    BY <1>13 DEF RollbackNext
  <1>14. CASE RollbackStopKeep(t)
    BY <1>14 DEF RollbackStopKeep
  <1>15. CASE RollbackStopRead(t)
    BY <1>15 DEF RollbackStopRead
  <1>16. CASE RollbackStopCas(t)
    BY <1>16 DEF RollbackStopCas, StopCas
  <1>17. CASE RollbackExit(t)
    BY <1>17 DEF RollbackExit, Forget
  <1>18. CASE Stop(t)
    BY <1>18 DEF Stop
  <1>19. CASE SetDone(t)
    BY <1>19 DEF SetDone
  <1>20. CASE GetCommit(t)
    BY <1>20 DEF GetCommit
  <1>21. CASE GetCommitNone(t)
    BY <1>21 DEF GetCommitNone, Forget, TypeOK
  <1>22. CASE GetCommitCheck(t)
    BY <1>22 DEF GetCommitCheck, TypeOK
  <1>23. CASE GetCommitCas(t)
    BY <1>23 DEF GetCommitCas, TypeOK
  <1>24. CASE CommitDone(t)
    BY <1>24 DEF CommitDone
  <1>25. CASE FirstRead(t)
    BY <1>25 DEF FirstRead, TypeOK
  <1>26. CASE FirstCheck(t)
    <2> USE DEF CursorOrder, TypeOK
    <2>1. CASE cur[t] # nextCommit /\ status[Index(cur[t])] = "commit"
      <3>1. /\ pc[t] = "first_check" /\ pc' = [pc EXCEPT ![t] = "first_cas"]
            /\ UNCHANGED <<status, cursors, rollbackFlag, stop, locks, locals>>
        BY <1>26, <2>1 DEF FirstCheck
      <3> QED
        BY <2>1, <3>1
    <2>2. CASE ~(cur[t] # nextCommit /\ status[Index(cur[t])] = "commit")
      <3>1. /\ pc[t] = "first_check" /\ pc' = [pc EXCEPT ![t] = "update_stop"]
            /\ UNCHANGED <<status, cursors, rollbackFlag, stop, locks, locals>>
        BY <1>26, <2>2 DEF FirstCheck
      <3> QED
        BY <2>2, <3>1
    <2> QED
      BY <2>1, <2>2
  <1>27. CASE FirstCas(t)
    BY <1>27 DEF FirstCas, TypeOK
  <1>28. CASE UpdateStopKeep(t)
    BY <1>28 DEF UpdateStopKeep
  <1>29. CASE UpdateStopRead(t)
    BY <1>29 DEF UpdateStopRead
  <1>30. CASE UpdateStopCas(t)
    BY <1>30 DEF UpdateStopCas, StopCas
  <1>31. CASE Signal(t)
    BY <1>31 DEF Signal, Forget
  <1> QED
    BY <1>1, <1>2, <1>3, <1>4, <1>5, <1>6, <1>7, <1>8, <1>9, <1>10, <1>11, <1>12,
       <1>13, <1>14, <1>15, <1>16, <1>17, <1>18, <1>19, <1>20, <1>21, <1>22, <1>23,
       <1>24, <1>25, <1>26, <1>27, <1>28, <1>29, <1>30, <1>31 DEF Kernel

\* So do the steps of the workers around it.
LEMMA UsesFirstInv ==
  ASSUME Inductive, NEW t \in Thread, Uses(t)
  PROVE  FirstInv'
  <1> USE DEF Inductive, FirstInv, TypeOK, cursors, locks, locals, Goto
  <1>1. CASE Passes(t)
    BY <1>1 DEF Passes
  <1>2. CASE Asks(t)
    BY <1>2 DEF Asks
  <1>3. CASE Wakes(t)
    BY <1>3 DEF Wakes
  <1>4. CASE UNCHANGED epochVars
    BY <1>4 DEF epochVars
  <1> QED
    BY <1>1, <1>2, <1>3, <1>4 DEF Uses

-----------------------------------------------------------------------------
\* The steps of epoch.c preserve CommittedInv: the slots of claimed commits.
LEMMA KernelCommittedInv ==
  ASSUME Inductive, NEW t \in Thread, Kernel(t)
  PROVE  CommittedInv'
  <1> USE DEF Inductive, CommittedInv, cursors, locks, locals, Goto
  <1>1. CASE NextEnter(t)
    BY <1>1 DEF NextEnter
  <1>2. CASE NextLook(t)
    BY <1>2 DEF NextLook
  <1>3. CASE NextStall(t)
    BY <1>3 DEF NextStall, Forget, Wait
  <1>4. CASE NextFinish(t)
    BY <1>4 DEF NextFinish, Forget
  <1>5. CASE NextClaim(t)
    BY <1>5 DEF NextClaim
  <1>6. CASE NextMark(t)
    BY <1>6, EpochMaxAssumption, IndexType, IndexDistinct DEF NextMark, Forget,
       RunInv, FirstInv, Running, TypeOK
  <1>7. CASE RollbackDone(t)
    BY <1>7 DEF RollbackDone
  <1>8. CASE RollbackLock(t)
    BY <1>8 DEF RollbackLock
  <1>9. CASE RollbackEnter(t)
    BY <1>9 DEF RollbackEnter
  <1>10. CASE RollbackSkip(t)
    BY <1>10 DEF RollbackSkip
  <1>11. CASE RollbackStatus(t)
    BY <1>11, EpochMaxAssumption, IndexDistinct DEF RollbackStatus, CursorOrder,
       RunInv, ScanInv, Running, Rolling, TypeOK
  <1>12. CASE RollbackFlag(t)
    BY <1>12 DEF RollbackFlag
  <1>13. CASE RollbackNext(t)
    BY <1>13 DEF RollbackNext
  <1>14. CASE RollbackStopKeep(t)
    BY <1>14 DEF RollbackStopKeep
  <1>15. CASE RollbackStopRead(t)
    BY <1>15 DEF RollbackStopRead
  <1>16. CASE RollbackStopCas(t)
    BY <1>16 DEF RollbackStopCas, StopCas
  <1>17. CASE RollbackExit(t)
    BY <1>17 DEF RollbackExit, Forget
  <1>18. CASE Stop(t)
    BY <1>18 DEF Stop
  <1>19. CASE SetDone(t)
    BY <1>19 DEF SetDone
  <1>20. CASE GetCommit(t)
    BY <1>20 DEF GetCommit
  <1>21. CASE GetCommitNone(t)
    BY <1>21 DEF GetCommitNone, Forget
  <1>22. CASE GetCommitCheck(t)
    BY <1>22 DEF GetCommitCheck
  <1>23. CASE GetCommitCas(t)
    <2> USE DEF CommitInv, Looking, Unblocked, FoundDone, TypeOK
    <2>1. CASE nextCommit = cur[t]
      <3>1. status[Index(nextCommit)] = "done"
        BY <1>23, <2>1 DEF GetCommitCas
      <3>2. nextCommit' = nextCommit + 1 /\ UNCHANGED <<status, first>>
        BY <1>23, <2>1 DEF GetCommitCas
      <3>3. ASSUME NEW e \in first .. nextCommit
            PROVE  status[Index(e)] \in {"done", "commit"}
        <4>1. CASE e = nextCommit
          BY <3>1, <4>1
        <4>2. CASE e \in first .. nextCommit - 1
          BY <4>2
        <4> QED
          BY <4>1, <4>2
      <3> QED
        BY <3>2, <3>3
    <2>2. CASE nextCommit # cur[t]
      BY <1>23, <2>2 DEF GetCommitCas
    <2> QED
      BY <2>1, <2>2
  <1>24. CASE CommitDone(t)
    BY <1>24 DEF CommitDone
  <1>25. CASE FirstRead(t)
    BY <1>25 DEF FirstRead
  <1>26. CASE FirstCheck(t)
    BY <1>26 DEF FirstCheck
  <1>27. CASE FirstCas(t)
    BY <1>27 DEF FirstCas, TypeOK
  <1>28. CASE UpdateStopKeep(t)
    BY <1>28 DEF UpdateStopKeep
  <1>29. CASE UpdateStopRead(t)
    BY <1>29 DEF UpdateStopRead
  <1>30. CASE UpdateStopCas(t)
    BY <1>30 DEF UpdateStopCas, StopCas
  <1>31. CASE Signal(t)
    BY <1>31 DEF Signal, Forget
  <1> QED
    BY <1>1, <1>2, <1>3, <1>4, <1>5, <1>6, <1>7, <1>8, <1>9, <1>10, <1>11, <1>12,
       <1>13, <1>14, <1>15, <1>16, <1>17, <1>18, <1>19, <1>20, <1>21, <1>22, <1>23,
       <1>24, <1>25, <1>26, <1>27, <1>28, <1>29, <1>30, <1>31 DEF Kernel

\* So do the steps of the workers around it.
LEMMA UsesCommittedInv ==
  ASSUME Inductive, NEW t \in Thread, Uses(t)
  PROVE  CommittedInv'
  <1> USE DEF Inductive, CommittedInv, TypeOK, cursors, locks, locals, Goto
  <1>1. CASE Passes(t)
    BY <1>1 DEF Passes
  <1>2. CASE Asks(t)
    BY <1>2 DEF Asks
  <1>3. CASE Wakes(t)
    BY <1>3 DEF Wakes
  <1>4. CASE UNCHANGED epochVars
    BY <1>4 DEF epochVars
  <1> QED
    BY <1>1, <1>2, <1>3, <1>4 DEF Uses

-----------------------------------------------------------------------------
\* The steps of epoch.c preserve ClaimedInv: the slots that are given out.
LEMMA KernelClaimedInv ==
  ASSUME Inductive, NEW t \in Thread, Kernel(t)
  PROVE  ClaimedInv'
  <1> USE DEF Inductive, ClaimedInv, InHand, TypeOK, cursors, locks, locals, Goto
  <1>1. CASE NextEnter(t)
    BY <1>1 DEF NextEnter
  <1>2. CASE NextLook(t)
    BY <1>2 DEF NextLook
  <1>3. CASE NextStall(t)
    BY <1>3 DEF NextStall, Forget, Wait
  <1>4. CASE NextFinish(t)
    BY <1>4 DEF NextFinish, Forget
  <1>5. CASE NextClaim(t)
    BY <1>5 DEF NextClaim
  <1>6. CASE NextMark(t)
    <2> SUFFICES ASSUME NEW e \in nextCommit .. next - 1
                 PROVE  status'[Index(e)] \in {"executing", "done"} \/ InHand(e)'
      BY <1>6 DEF NextMark
    <2>1. /\ pc[t] = "next_mark"
          /\ status' = [status EXCEPT ![Index(epoch[t])] = "executing"]
          /\ \A u \in Thread : u # t =>
               pc'[u] = pc[u] /\ cur'[u] = cur[u] /\ UNCHANGED <<epoch[u], start[u]>>
      BY <1>6 DEF NextMark, Forget
    <2>2. CASE status[Index(e)] \in {"executing", "done"}
      BY <2>1, <2>2, IndexType
    <2>3. CASE InHand(e)
      <3>1. CASE e = epoch[t]
        BY <2>1, <3>1, IndexType
      <3>2. CASE e # epoch[t]
        BY <2>1, <2>3, <3>2
      <3> QED
        BY <3>1, <3>2
    <2> QED
      BY <2>2, <2>3
  <1>7. CASE RollbackDone(t)
    BY <1>7 DEF RollbackDone
  <1>8. CASE RollbackLock(t)
    BY <1>8 DEF RollbackLock
  <1>9. CASE RollbackEnter(t)
    BY <1>9 DEF RollbackEnter
  <1>10. CASE RollbackSkip(t)
    BY <1>10 DEF RollbackSkip
  <1>11. CASE RollbackStatus(t)
    <2> USE DEF CursorOrder, RunInv, ScanInv, Running, Rolling
    <2> SUFFICES ASSUME NEW e \in nextCommit .. next - 1
                 PROVE  status'[Index(e)] \in {"executing", "done"} \/ InHand(e)'
      BY <1>11 DEF RollbackStatus
    <2>1. CASE e = cur[t]
      BY <1>11, <2>1 DEF RollbackStatus
    <2>2. CASE e # cur[t]
      <3>1. /\ first \in Nat /\ next \in Nat /\ e \in Nat /\ cur[t] \in Nat
            /\ first <= cur[t] /\ cur[t] < next /\ first <= e /\ e < next
            /\ next <= first + EpochMax
        BY <1>11 DEF RollbackStatus
      <3>2. \/ e < cur[t] /\ cur[t] < e + EpochMax
            \/ cur[t] < e /\ e < cur[t] + EpochMax
        BY ONLY <2>2, <3>1, EpochMaxAssumption
      <3>3. Index(e) # Index(cur[t])
        BY <3>1, <3>2, IndexDistinct
      <3>4. status'[Index(e)] = status[Index(e)]
        BY <1>11, <3>3 DEF RollbackStatus
      <3>5. InHand(e) => InHand(e)'
        BY <1>11, <2>2 DEF RollbackStatus
      <3> QED
        BY <3>4, <3>5
    <2> QED
      BY <2>1, <2>2
  <1>12. CASE RollbackFlag(t)
    BY <1>12 DEF RollbackFlag
  <1>13. CASE RollbackNext(t)
    <2> USE DEF LockInv, Rolling, RollbackHolds, NextHolds
    <2> DEFINE n == IF next <= start[t] THEN next ELSE start[t]
    <2>1. next' = n /\ UNCHANGED <<nextCommit, status>>
      BY <1>13 DEF RollbackNext
    <2>2. \A u \in Thread : u # t =>
            pc[u] \notin {"next_mark", "rollback_scan", "rollback_flag"}
      BY <1>13 DEF RollbackNext
    <2>3. ASSUME NEW e \in nextCommit .. n - 1
          PROVE  status[Index(e)] \in {"executing", "done"}
      <3>1. e \in nextCommit .. next - 1 /\ e < start[t]
        OBVIOUS
      <3>2. ~InHand(e)
        BY <1>13, <2>2, <3>1 DEF RollbackNext
      <3> QED
        BY <3>1, <3>2
    <2> QED
      BY <2>1, <2>3
  <1>14. CASE RollbackStopKeep(t)
    BY <1>14 DEF RollbackStopKeep
  <1>15. CASE RollbackStopRead(t)
    BY <1>15 DEF RollbackStopRead
  <1>16. CASE RollbackStopCas(t)
    BY <1>16 DEF RollbackStopCas, StopCas
  <1>17. CASE RollbackExit(t)
    BY <1>17 DEF RollbackExit, Forget
  <1>18. CASE Stop(t)
    BY <1>18 DEF Stop
  <1>19. CASE SetDone(t)
    BY <1>19 DEF SetDone
  <1>20. CASE GetCommit(t)
    BY <1>20 DEF GetCommit
  <1>21. CASE GetCommitNone(t)
    BY <1>21 DEF GetCommitNone, Forget
  <1>22. CASE GetCommitCheck(t)
    <2> USE DEF Looking
    <2>1. UNCHANGED <<status, cursors, locals>>
      BY <1>22 DEF GetCommitCheck
    <2>2. /\ pc[t] \in Looking /\ pc'[t] \in Looking
          /\ \A u \in Thread : u # t => pc'[u] = pc[u]
      BY <1>22 DEF GetCommitCheck
    <2>3. \A e : InHand(e) => InHand(e)'
      BY <2>1, <2>2
    <2> QED
      BY <2>1, <2>3
  <1>23. CASE GetCommitCas(t)
    BY <1>23 DEF GetCommitCas
  <1>24. CASE CommitDone(t)
    <2> USE EpochMaxAssumption, IndexDistinct DEF CursorOrder, CommitInv, Committing
    <2> SUFFICES ASSUME NEW e \in nextCommit .. next - 1
                 PROVE  status'[Index(e)] \in {"executing", "done"} \/ InHand(e)'
      BY <1>24 DEF CommitDone
    <2>1. first <= cur[t] /\ cur[t] < e /\ e < first + EpochMax
      BY <1>24 DEF CommitDone
    <2>2. status'[Index(e)] = status[Index(e)]
      BY <1>24, <2>1 DEF CommitDone
    <2>3. InHand(e) => InHand(e)'
      BY <1>24 DEF CommitDone
    <2> QED
      BY <2>2, <2>3
  <1>25. CASE FirstRead(t)
    BY <1>25 DEF FirstRead
  <1>26. CASE FirstCheck(t)
    BY <1>26 DEF FirstCheck
  <1>27. CASE FirstCas(t)
    BY <1>27 DEF FirstCas
  <1>28. CASE UpdateStopKeep(t)
    BY <1>28 DEF UpdateStopKeep
  <1>29. CASE UpdateStopRead(t)
    BY <1>29 DEF UpdateStopRead
  <1>30. CASE UpdateStopCas(t)
    BY <1>30 DEF UpdateStopCas, StopCas
  <1>31. CASE Signal(t)
    BY <1>31 DEF Signal, Forget
  <1> QED
    BY <1>1, <1>2, <1>3, <1>4, <1>5, <1>6, <1>7, <1>8, <1>9, <1>10, <1>11, <1>12,
       <1>13, <1>14, <1>15, <1>16, <1>17, <1>18, <1>19, <1>20, <1>21, <1>22, <1>23,
       <1>24, <1>25, <1>26, <1>27, <1>28, <1>29, <1>30, <1>31 DEF Kernel

\* So do the steps of the workers around it.
LEMMA UsesClaimedInv ==
  ASSUME Inductive, NEW t \in Thread, Uses(t)
  PROVE  ClaimedInv'
  <1> USE DEF Inductive, ClaimedInv, InHand, TypeOK, cursors, locks, locals, Goto
  <1>1. CASE Passes(t)
    BY <1>1 DEF Passes
  <1>2. CASE Asks(t)
    BY <1>2 DEF Asks
  <1>3. CASE Wakes(t)
    BY <1>3 DEF Wakes
  <1>4. CASE UNCHANGED epochVars
    BY <1>4 DEF epochVars
  <1> QED
    BY <1>1, <1>2, <1>3, <1>4 DEF Uses

-----------------------------------------------------------------------------
\* The steps of epoch.c preserve FreeInv: the slots still to give out.
LEMMA KernelFreeInv ==
  ASSUME Inductive, NEW t \in Thread, Kernel(t)
  PROVE  FreeInv'
  <1> USE DEF Inductive, FreeInv, RolledBack, cursors, locks, locals, Goto
  <1>1. CASE NextEnter(t)
    BY <1>1 DEF NextEnter
  <1>2. CASE NextLook(t)
    BY <1>2 DEF NextLook
  <1>3. CASE NextStall(t)
    BY <1>3 DEF NextStall, Forget, Wait
  <1>4. CASE NextFinish(t)
    BY <1>4 DEF NextFinish, Forget
  <1>5. CASE NextClaim(t)
    BY <1>5 DEF NextClaim, TypeOK
  <1>6. CASE NextMark(t)
    BY <1>6, EpochMaxAssumption, IndexDistinct DEF NextMark, Forget, CursorOrder,
       RunInv, Running, TypeOK
  <1>7. CASE RollbackDone(t)
    BY <1>7 DEF RollbackDone
  <1>8. CASE RollbackLock(t)
    BY <1>8 DEF RollbackLock
  <1>9. CASE RollbackEnter(t)
    BY <1>9 DEF RollbackEnter
  <1>10. CASE RollbackSkip(t)
    BY <1>10 DEF RollbackSkip
  <1>11. CASE RollbackStatus(t)
    BY <1>11 DEF RollbackStatus
  <1>12. CASE RollbackFlag(t)
    BY <1>12 DEF RollbackFlag
  <1>13. CASE RollbackNext(t)
    BY <1>13 DEF RollbackNext, ScanInv, TypeOK
  <1>14. CASE RollbackStopKeep(t)
    BY <1>14 DEF RollbackStopKeep
  <1>15. CASE RollbackStopRead(t)
    BY <1>15 DEF RollbackStopRead
  <1>16. CASE RollbackStopCas(t)
    BY <1>16 DEF RollbackStopCas, StopCas
  <1>17. CASE RollbackExit(t)
    BY <1>17 DEF RollbackExit, Forget
  <1>18. CASE Stop(t)
    BY <1>18 DEF Stop
  <1>19. CASE SetDone(t)
    BY <1>19 DEF SetDone
  <1>20. CASE GetCommit(t)
    BY <1>20 DEF GetCommit
  <1>21. CASE GetCommitNone(t)
    BY <1>21 DEF GetCommitNone, Forget
  <1>22. CASE GetCommitCheck(t)
    BY <1>22 DEF GetCommitCheck
  <1>23. CASE GetCommitCas(t)
    BY <1>23 DEF GetCommitCas
  <1>24. CASE CommitDone(t)
    BY <1>24 DEF CommitDone
  <1>25. CASE FirstRead(t)
    BY <1>25 DEF FirstRead
  <1>26. CASE FirstCheck(t)
    BY <1>26 DEF FirstCheck
  <1>27. CASE FirstCas(t)
    <2> USE EpochMaxAssumption DEF FirstInv, TypeOK
    <2>1. CASE first = cur[t]
      <3>1. status[Index(first + EpochMax)] = "commit"
        BY <1>27, <2>1, IndexTurn DEF FirstCas
      <3>2. first' = first + 1 /\ UNCHANGED <<status, next>>
        BY <1>27, <2>1 DEF FirstCas
      <3>3. ASSUME NEW e \in next .. first + EpochMax
            PROVE  status[Index(e)] \in {"commit"} \cup RolledBack
        <4>1. CASE e = first + EpochMax
          BY <3>1, <4>1
        <4>2. CASE e \in next .. first + EpochMax - 1
          BY <4>2
        <4> QED
          BY <4>1, <4>2
      <3> QED
        BY <3>2, <3>3
    <2>2. CASE first # cur[t]
      BY <1>27, <2>2 DEF FirstCas
    <2> QED
      BY <2>1, <2>2
  <1>28. CASE UpdateStopKeep(t)
    BY <1>28 DEF UpdateStopKeep
  <1>29. CASE UpdateStopRead(t)
    BY <1>29 DEF UpdateStopRead
  <1>30. CASE UpdateStopCas(t)
    BY <1>30 DEF UpdateStopCas, StopCas
  <1>31. CASE Signal(t)
    BY <1>31 DEF Signal, Forget
  <1> QED
    BY <1>1, <1>2, <1>3, <1>4, <1>5, <1>6, <1>7, <1>8, <1>9, <1>10, <1>11, <1>12,
       <1>13, <1>14, <1>15, <1>16, <1>17, <1>18, <1>19, <1>20, <1>21, <1>22, <1>23,
       <1>24, <1>25, <1>26, <1>27, <1>28, <1>29, <1>30, <1>31 DEF Kernel

\* So do the steps of the workers around it.
LEMMA UsesFreeInv ==
  ASSUME Inductive, NEW t \in Thread, Uses(t)
  PROVE  FreeInv'
  <1> USE DEF Inductive, FreeInv, RolledBack, TypeOK, cursors, locks, locals, Goto
  <1>1. CASE Passes(t)
    BY <1>1 DEF Passes
  <1>2. CASE Asks(t)
    BY <1>2 DEF Asks
  <1>3. CASE Wakes(t)
    BY <1>3 DEF Wakes
  <1>4. CASE UNCHANGED epochVars
    BY <1>4 DEF epochVars
  <1> QED
    BY <1>1, <1>2, <1>3, <1>4 DEF Uses

-----------------------------------------------------------------------------
\* The steps of epoch.c preserve SlotExclusive: the users of the slots.
LEMMA KernelSlotExclusive ==
  ASSUME Inductive, NEW t \in Thread, Kernel(t)
  PROVE  SlotExclusive'
  <1> USE DEF Inductive, SlotExclusive, Held, Running, Committing, Rolling, cursors,
      locks, locals, Goto
  <1>1. CASE NextEnter(t)
    BY <1>1 DEF NextEnter
  <1>2. CASE NextLook(t)
    BY <1>2 DEF NextLook
  <1>3. CASE NextStall(t)
    BY <1>3 DEF NextStall, Forget, Wait, TypeOK
  <1>4. CASE NextFinish(t)
    BY <1>4 DEF NextFinish, Forget
  <1>5. CASE NextClaim(t)
    BY <1>5, EpochMaxAssumption, NoThreadAssumption, IndexDistinct DEF NextClaim,
       LockInv, RunInv, CommitInv, FreeInv, RolledBack, TypeOK
  <1>6. CASE NextMark(t)
    BY <1>6 DEF NextMark, Forget
  <1>7. CASE RollbackDone(t)
    BY <1>7 DEF RollbackDone
  <1>8. CASE RollbackLock(t)
    BY <1>8 DEF RollbackLock
  <1>9. CASE RollbackEnter(t)
    BY <1>9 DEF RollbackEnter
  <1>10. CASE RollbackSkip(t)
    BY <1>10 DEF RollbackSkip
  <1>11. CASE RollbackStatus(t)
    BY <1>11 DEF RollbackStatus
  <1>12. CASE RollbackFlag(t)
    BY <1>12 DEF RollbackFlag
  <1>13. CASE RollbackNext(t)
    BY <1>13 DEF RollbackNext
  <1>14. CASE RollbackStopKeep(t)
    BY <1>14 DEF RollbackStopKeep
  <1>15. CASE RollbackStopRead(t)
    BY <1>15 DEF RollbackStopRead
  <1>16. CASE RollbackStopCas(t)
    BY <1>16 DEF RollbackStopCas, StopCas
  <1>17. CASE RollbackExit(t)
    BY <1>17 DEF RollbackExit, Forget
  <1>18. CASE Stop(t)
    BY <1>18 DEF Stop
  <1>19. CASE SetDone(t)
    BY <1>19 DEF SetDone, TypeOK
  <1>20. CASE GetCommit(t)
    BY <1>20 DEF GetCommit
  <1>21. CASE GetCommitNone(t)
    BY <1>21 DEF GetCommitNone, Forget, TypeOK
  <1>22. CASE GetCommitCheck(t)
    BY <1>22 DEF GetCommitCheck, TypeOK
  <1>23. CASE GetCommitCas(t)
    <2> USE EpochMaxAssumption, IndexDistinct DEF CursorOrder, RunInv, CommitInv,
      Looking, Unblocked, FoundDone, TypeOK
    <2>1. CASE nextCommit = cur[t]
      <3>1. status[Index(cur[t])] = "done"
        BY <1>23, <2>1 DEF GetCommitCas
      <3>2. ASSUME NEW u \in Thread, u # t, NEW f \in Held(u)
            PROVE  Index(f) # Index(cur[t])
        <4>1. CASE Running(u)
          BY <3>1, <3>2, <4>1
        <4>2. CASE Committing(u) /\ ~Running(u)
          <5>1. f = cur[u] /\ first <= f /\ f < cur[t] /\ cur[t] < first + EpochMax
            BY <1>23, <2>1, <3>2, <4>2 DEF GetCommitCas
          <5> QED
            BY <5>1
        <4> QED
          BY <3>2, <4>1, <4>2
      <3>3. pc' = [pc EXCEPT ![t] = "publish"] /\ UNCHANGED <<epoch, cur>>
        BY <1>23, <2>1 DEF GetCommitCas
      <3>4. Held(t)' = {cur[t]} /\ \A u \in Thread : u # t => Held(u)' = Held(u)
        BY <3>3
      <3> HIDE DEF Inductive, Held, Running, Committing, Rolling, Goto, locals
      <3>5. SlotExclusive
        BY DEF Inductive
      <3>6. ASSUME NEW u \in Thread, NEW v \in Thread, u # v,
                   NEW e \in Held(u)', NEW f \in Held(v)'
            PROVE  Index(e) # Index(f)
        <4>1. CASE u = t
          BY <3>2, <3>4, <3>6, <4>1
        <4>2. CASE v = t
          BY <3>2, <3>4, <3>6, <4>2
        <4>3. CASE u # t /\ v # t
          BY <3>4, <3>6, <3>5, <4>3
        <4> QED
          BY <4>1, <4>2, <4>3
      <3> QED
        BY <3>6
    <2>2. CASE nextCommit # cur[t]
      BY <1>23, <2>2 DEF GetCommitCas
    <2> QED
      BY <2>1, <2>2
  <1>24. CASE CommitDone(t)
    BY <1>24 DEF CommitDone
  <1>25. CASE FirstRead(t)
    BY <1>25 DEF FirstRead
  <1>26. CASE FirstCheck(t)
    BY <1>26 DEF FirstCheck
  <1>27. CASE FirstCas(t)
    BY <1>27 DEF FirstCas
  <1>28. CASE UpdateStopKeep(t)
    BY <1>28 DEF UpdateStopKeep
  <1>29. CASE UpdateStopRead(t)
    BY <1>29 DEF UpdateStopRead
  <1>30. CASE UpdateStopCas(t)
    BY <1>30 DEF UpdateStopCas, StopCas
  <1>31. CASE Signal(t)
    BY <1>31 DEF Signal, Forget
  <1> QED
    BY <1>1, <1>2, <1>3, <1>4, <1>5, <1>6, <1>7, <1>8, <1>9, <1>10, <1>11, <1>12,
       <1>13, <1>14, <1>15, <1>16, <1>17, <1>18, <1>19, <1>20, <1>21, <1>22, <1>23,
       <1>24, <1>25, <1>26, <1>27, <1>28, <1>29, <1>30, <1>31 DEF Kernel

\* So do the steps of the workers around it.
LEMMA UsesSlotExclusive ==
  ASSUME Inductive, NEW t \in Thread, Uses(t)
  PROVE  SlotExclusive'
  <1> USE DEF Inductive, SlotExclusive, Held, Running, Committing, Rolling, TypeOK,
      cursors, locks, locals, Goto
  <1>1. CASE Passes(t)
    BY <1>1 DEF Passes
  <1>2. CASE Asks(t)
    BY <1>2 DEF Asks
  <1>3. CASE Wakes(t)
    BY <1>3 DEF Wakes
  <1>4. CASE UNCHANGED epochVars
    BY <1>4 DEF epochVars
  <1> QED
    BY <1>1, <1>2, <1>3, <1>4 DEF Uses

-----------------------------------------------------------------------------
\* The steps of epoch.c preserve FlagImpliesUndo: the rollback flags.
LEMMA KernelFlagImpliesUndo ==
  ASSUME Inductive, NEW t \in Thread, Kernel(t)
  PROVE  FlagImpliesUndo'
  <1> USE DEF Inductive, FlagImpliesUndo, RolledBack, cursors, locks, locals, Goto
  <1>1. CASE NextEnter(t)
    BY <1>1 DEF NextEnter
  <1>2. CASE NextLook(t)
    BY <1>2 DEF NextLook
  <1>3. CASE NextStall(t)
    BY <1>3 DEF NextStall, Forget, Wait, TypeOK
  <1>4. CASE NextFinish(t)
    BY <1>4 DEF NextFinish, Forget
  <1>5. CASE NextClaim(t)
    BY <1>5 DEF NextClaim
  <1>6. CASE NextMark(t)
    BY <1>6 DEF NextMark, Forget, TypeOK
  <1>7. CASE RollbackDone(t)
    BY <1>7 DEF RollbackDone
  <1>8. CASE RollbackLock(t)
    BY <1>8 DEF RollbackLock
  <1>9. CASE RollbackEnter(t)
    BY <1>9 DEF RollbackEnter
  <1>10. CASE RollbackSkip(t)
    BY <1>10 DEF RollbackSkip
  <1>11. CASE RollbackStatus(t)
    BY <1>11 DEF RollbackStatus
  <1>12. CASE RollbackFlag(t)
    BY <1>12 DEF RollbackFlag, ScanInv
  <1>13. CASE RollbackNext(t)
    BY <1>13 DEF RollbackNext
  <1>14. CASE RollbackStopKeep(t)
    BY <1>14 DEF RollbackStopKeep
  <1>15. CASE RollbackStopRead(t)
    BY <1>15 DEF RollbackStopRead
  <1>16. CASE RollbackStopCas(t)
    BY <1>16 DEF RollbackStopCas, StopCas
  <1>17. CASE RollbackExit(t)
    BY <1>17 DEF RollbackExit, Forget
  <1>18. CASE Stop(t)
    BY <1>18 DEF Stop
  <1>19. CASE SetDone(t)
    BY <1>19 DEF SetDone
  <1>20. CASE GetCommit(t)
    BY <1>20 DEF GetCommit
  <1>21. CASE GetCommitNone(t)
    BY <1>21 DEF GetCommitNone, Forget, TypeOK
  <1>22. CASE GetCommitCheck(t)
    BY <1>22 DEF GetCommitCheck, TypeOK
  <1>23. CASE GetCommitCas(t)
    BY <1>23 DEF GetCommitCas
  <1>24. CASE CommitDone(t)
    BY <1>24 DEF CommitDone
  <1>25. CASE FirstRead(t)
    BY <1>25 DEF FirstRead
  <1>26. CASE FirstCheck(t)
    <2>1. CASE cur[t] # nextCommit /\ status[Index(cur[t])] = "commit"
      <3>1. /\ pc[t] = "first_check" /\ pc' = [pc EXCEPT ![t] = "first_cas"]
            /\ UNCHANGED <<status, cursors, rollbackFlag, stop, locks, locals>>
        BY <1>26, <2>1 DEF FirstCheck
      <3> QED
        BY <2>1, <3>1
    <2>2. CASE ~(cur[t] # nextCommit /\ status[Index(cur[t])] = "commit")
      <3>1. /\ pc[t] = "first_check" /\ pc' = [pc EXCEPT ![t] = "update_stop"]
            /\ UNCHANGED <<status, cursors, rollbackFlag, stop, locks, locals>>
        BY <1>26, <2>2 DEF FirstCheck
      <3> QED
        BY <2>2, <3>1
    <2> QED
      BY <2>1, <2>2
  <1>27. CASE FirstCas(t)
    BY <1>27 DEF FirstCas
  <1>28. CASE UpdateStopKeep(t)
    BY <1>28 DEF UpdateStopKeep
  <1>29. CASE UpdateStopRead(t)
    BY <1>29 DEF UpdateStopRead
  <1>30. CASE UpdateStopCas(t)
    BY <1>30 DEF UpdateStopCas, StopCas
  <1>31. CASE Signal(t)
    BY <1>31 DEF Signal, Forget
  <1> QED
    BY <1>1, <1>2, <1>3, <1>4, <1>5, <1>6, <1>7, <1>8, <1>9, <1>10, <1>11, <1>12,
       <1>13, <1>14, <1>15, <1>16, <1>17, <1>18, <1>19, <1>20, <1>21, <1>22, <1>23,
       <1>24, <1>25, <1>26, <1>27, <1>28, <1>29, <1>30, <1>31 DEF Kernel

\* So do the steps of the workers around it.
LEMMA UsesFlagImpliesUndo ==
  ASSUME Inductive, NEW t \in Thread, Uses(t)
  PROVE  FlagImpliesUndo'
  <1> USE DEF Inductive, FlagImpliesUndo, RolledBack, TypeOK, cursors, locks,
      locals, Goto
  <1>1. CASE Passes(t)
    BY <1>1 DEF Passes
  <1>2. CASE Asks(t)
    BY <1>2 DEF Asks
  <1>3. CASE Wakes(t)
    BY <1>3 DEF Wakes
  <1>4. CASE UNCHANGED epochVars
    BY <1>4 DEF epochVars
  <1> QED
    BY <1>1, <1>2, <1>3, <1>4 DEF Uses

-----------------------------------------------------------------------------
\* The workers start outside of every function, on an empty ring.
LEMMA InitInductive == Init => Inductive
  <1> SUFFICES ASSUME Init PROVE Inductive
    OBVIOUS
  <1> USE DEF Init, EpochInit
  <1>1. TypeOK
    BY InitTypeOK
  <1>2. LockInv
    BY NoThreadAssumption DEF LockInv, NextHolds, RollbackHolds, Rolling
  <1>3. CursorOrder
    BY EpochMaxAssumption DEF CursorOrder
  <1>4. RunInv /\ ScanInv
    BY DEF RunInv, ScanInv, Running, Rolling
  <1>5. CommitInv /\ FirstInv
    BY DEF CommitInv, FirstInv, Looking, Unblocked, FoundDone, Committing
  <1>6. CommittedInv /\ ClaimedInv
    BY DEF CommittedInv, ClaimedInv
  <1>7. FreeInv
    BY EpochMaxAssumption, IndexType DEF FreeInv
  <1>8. SlotExclusive /\ FlagImpliesUndo
    BY DEF SlotExclusive, FlagImpliesUndo, Held, Running, Committing, Rolling
  <1> QED
    BY <1>1, <1>2, <1>3, <1>4, <1>5, <1>6, <1>7, <1>8 DEF Inductive

\* Every step of a worker preserves the invariant, in epoch.c or outside of it.
LEMMA RingInductive ==
  ASSUME Inductive, TypeOK', NEW t \in Thread, Kernel(t) \/ Uses(t)
  PROVE  Inductive'
  <1>1. CASE Kernel(t)
    <2>1. /\ LockInv' /\ CursorOrder' /\ RunInv' /\ ScanInv' /\ CommitInv' /\ FirstInv'
      BY <1>1, KernelLockInv, KernelCursorOrder, KernelRunInv, KernelScanInv,
         KernelCommitInv, KernelFirstInv
    <2>2. /\ CommittedInv' /\ ClaimedInv' /\ FreeInv' /\ SlotExclusive' /\ FlagImpliesUndo'
      BY <1>1, KernelCommittedInv, KernelClaimedInv, KernelFreeInv,
         KernelSlotExclusive, KernelFlagImpliesUndo
    <2> QED
      BY <2>1, <2>2 DEF Inductive
  <1>2. CASE Uses(t)
    <2>1. /\ LockInv' /\ CursorOrder' /\ RunInv' /\ ScanInv' /\ CommitInv' /\ FirstInv'
      BY <1>2, UsesLockInv, UsesCursorOrder, UsesRunInv, UsesScanInv,
         UsesCommitInv, UsesFirstInv
    <2>2. /\ CommittedInv' /\ ClaimedInv' /\ FreeInv' /\ SlotExclusive' /\ FlagImpliesUndo'
      BY <1>2, UsesCommittedInv, UsesClaimedInv, UsesFreeInv,
         UsesSlotExclusive, UsesFlagImpliesUndo
    <2> QED
      BY <2>1, <2>2 DEF Inductive
  <1> QED
    BY <1>1, <1>2

\* So does every step of the specification, and every stutter.
LEMMA StepInductive == Inductive /\ [Next]_vars => Inductive'
  <1> SUFFICES ASSUME Inductive, [Next]_vars PROVE Inductive'
    OBVIOUS
  <1>1. TypeOK'
    BY StepTypeOK DEF Inductive
  <1>2. ASSUME NEW t \in Thread, Kernel(t) \/ Body(t) \/ SpuriousWakeup(t)
        PROVE  Inductive'
    BY <1>1, <1>2, RingInductive, ClientUses
  <1>3. CASE UNCHANGED vars
    BY <1>1, <1>3 DEF vars, epochVars, cursors, locks, locals, Inductive, LockInv,
       CursorOrder, RunInv, ScanInv, CommitInv, FirstInv, CommittedInv, ClaimedInv,
       InHand, FreeInv, SlotExclusive, FlagImpliesUndo, Running, Committing, Held
  <1> QED
    BY <1>2, <1>3 DEF Next, Worker, Terminating

LEMMA AlwaysInductive == Spec => []Inductive
  BY InitInductive, StepInductive, PTL DEF Spec

\* Two properties that are not conjuncts of the invariant.
LEMMA InductiveAsserts == Inductive => AssertsHold
  BY DEF Inductive, AssertsHold, RunInv, CommitInv, Running

LEMMA InductiveStatus == Inductive => StatusByRange
  <1>1. ASSUME Inductive, nextLock = NoThread
        PROVE  \A e \in nextCommit .. next - 1 : ~InHand(e)
    BY <1>1, NoThreadAssumption DEF Inductive, LockInv, NextHolds, RollbackHolds, Rolling, InHand
  <1> QED
    BY <1>1 DEF Inductive, StatusByRange, CommittedInv, ClaimedInv, FreeInv

-----------------------------------------------------------------------------
(* No two workers ever use the same slot of the ring, to run or to commit.  *)
THEOREM SlotsExclusive == Spec => []SlotExclusive
  <1>1. Inductive => SlotExclusive
    BY DEF Inductive
  <1> QED
    BY <1>1, AlwaysInductive, PTL

(* The cursors stay in order and at most one turn of the ring apart.        *)
THEOREM CursorsOrdered == Spec => []CursorOrder
  <1>1. Inductive => CursorOrder
    BY DEF Inductive
  <1> QED
    BY <1>1, AlwaysInductive, PTL

(* The asserts of epoch.c hold, and no rollback reaches an epoch whose      *)
(* commit was claimed.                                                      *)
THEOREM AssertionsHold == Spec => []AssertsHold
  BY InductiveAsserts, AlwaysInductive, PTL

(* While g_next_lock is free, the status of a slot says between which       *)
(* cursors its epoch is (epoch.c:397).                                      *)
THEOREM StatusFollowsCursors == Spec => []StatusByRange
  BY InductiveStatus, AlwaysInductive, PTL

(* A rollback flag is only set for a slot that is rolled back or is being   *)
(* undone: the reads of a valid execution are never ignored.                *)
THEOREM FlagsImplyUndo == Spec => []FlagImpliesUndo
  <1>1. Inductive => FlagImpliesUndo
    BY DEF Inductive
  <1> QED
    BY <1>1, AlwaysInductive, PTL

(* No step of epoch.c moves g_epoch_first or g_epoch_next_commit backwards, *)
(* or g_epoch_next below a claimed commit.                                  *)
LEMMA KernelAdvances ==
  ASSUME Inductive, NEW t \in Thread, Kernel(t)
  PROVE  /\ first' >= first
         /\ nextCommit' >= nextCommit
         /\ next' < next => next' >= nextCommit'
  <1> USE DEF Inductive, TypeOK, cursors
  <1>1. CASE NextClaim(t)
    BY <1>1 DEF NextClaim
  <1>2. CASE RollbackNext(t)
    <2>1. UNCHANGED <<first, nextCommit>> /\ next' \in {next, start[t]} /\ start[t] \in Nat
      BY <1>2 DEF RollbackNext
    <2>2. nextCommit <= start[t]
      BY <1>2 DEF RollbackNext, Goto, RunInv, Running, Rolling, ScanInv
    <2> QED
      BY <2>1, <2>2
  <1>3. CASE GetCommitCas(t)
    BY <1>3 DEF GetCommitCas
  <1>4. CASE FirstCas(t)
    BY <1>4 DEF FirstCas
  <1>5. CASE UNCHANGED cursors
    BY <1>5
  <1> QED
    <2>1. NextEnter(t) \/ NextLook(t) \/ NextStall(t) \/ NextFinish(t) \/ NextMark(t)
          \/ RollbackDone(t) \/ RollbackLock(t) \/ RollbackEnter(t) \/ RollbackSkip(t)
          => UNCHANGED cursors
      BY DEF NextEnter, NextLook, NextStall, NextFinish, NextMark, RollbackDone,
             RollbackLock, RollbackEnter, RollbackSkip
    <2>2. RollbackStatus(t) \/ RollbackFlag(t) \/ RollbackStopKeep(t) \/ RollbackStopRead(t)
          \/ RollbackStopCas(t) \/ RollbackExit(t) \/ Stop(t) \/ SetDone(t)
          => UNCHANGED cursors
      BY DEF RollbackStatus, RollbackFlag, RollbackStopKeep, RollbackStopRead,
             RollbackStopCas, RollbackExit, Stop, SetDone
    <2>3. GetCommit(t) \/ GetCommitNone(t) \/ GetCommitCheck(t) \/ CommitDone(t)
          \/ FirstRead(t) \/ FirstCheck(t) \/ UpdateStopKeep(t) \/ UpdateStopRead(t)
          \/ UpdateStopCas(t) \/ Signal(t)
          => UNCHANGED cursors
      BY DEF GetCommit, GetCommitNone, GetCommitCheck, CommitDone, FirstRead, FirstCheck,
             UpdateStopKeep, UpdateStopRead, UpdateStopCas, Signal
    <2> QED
      BY <1>1, <1>2, <1>3, <1>4, <1>5, <2>1, <2>2, <2>3 DEF Kernel

(* No step at all does.                                                     *)
THEOREM CursorsOnlyAdvance == Spec => CursorsAdvance
  <1> DEFINE Advance == /\ first' >= first
                        /\ nextCommit' >= nextCommit
                        /\ next' < next => next' >= nextCommit'
  <1>1. Inductive /\ [Next]_vars => [Advance]_vars
    <2> SUFFICES ASSUME Inductive, Next PROVE Advance
      OBVIOUS
    <2>1. CASE \E t \in Thread : Kernel(t)
      BY <2>1, KernelAdvances
    <2>2. CASE \/ \E t \in Thread : Body(t) \/ SpuriousWakeup(t)
               \/ UNCHANGED vars
      <3>1. UNCHANGED cursors
        BY <2>2 DEF Body, Undo, Publish, StartRollback, Return, MisreadLate, Fail, Misread,
                    SpuriousWakeup, vars, epochVars
      <3> QED
        BY <3>1 DEF Inductive, TypeOK, cursors
    <2> QED
      BY <2>1, <2>2 DEF Next, Worker, Terminating
  <1> HIDE DEF Advance
  <1>2. Spec => [][Advance]_vars
    BY <1>1, AlwaysInductive, PTL DEF Spec
  <1> QED
    BY <1>2 DEF Advance, CursorsAdvance

-----------------------------------------------------------------------------
(***************************************************************************)
(* What g_epoch_stop, the end bound of the loop, is good for.              *)
(*                                                                         *)
(* The parallel loop ends where the sequential one does, for any number of *)
(* threads, any size of the ring and any number of rollbacks, although     *)
(* executions that misread break where they should not, or go on where     *)
(* they should break, provided that no break by mistake overlaps a         *)
(* rollback (~LateBreaks).  The argument (EndInv): an execution that went  *)
(* wrong is going to be rolled back, by a thread in an earlier epoch that  *)
(* is not committed, and so is the bound it may have set.  The bound that  *)
(* the last commit and the end of the loop go by is therefore that of the  *)
(* iteration LastEpoch.                                                    *)
(*                                                                         *)
(* Whether set or not, the bound stays near g_epoch_first.  The argument   *)
(* (StopInv): the commits outrun the bound by one turn of the ring and one *)
(* epoch for each thread that is yet to go through update_stop.            *)
(***************************************************************************)

\* The labels of a rollback until g_epoch_stop is put right.
BeforeStop == Rolling \ {"rollback_exit"}
RollTail == {"rollback_stop", "rollback_stop_cas", "rollback_exit"}

\* Thread u will roll back epoch e, and the bound that e has set.
Obliged(u, e) == pc[u] = "exec" /\ Owes(u) /\ epoch[u] < e /\ debt[u] <= e

Reverts(u, e) ==
  \/ Obliged(u, e)
  \/ pc[u] \in BeforeStop /\ start[u] <= e

\* Thread u will roll back epoch e, and did not come to it yet.
Undoes(u, e) ==
  \/ Obliged(u, e)
  \/ pc[u] \in {"rollback", "rollback_enter"} /\ start[u] <= e
  \/ pc[u] = "rollback_scan" /\ start[u] <= e /\ cur[u] <= e
  \/ pc[u] = "rollback_flag" /\ start[u] <= e /\ cur[u] < e

BoundDoomed(e) == \E u \in Thread : Reverts(u, e)
Doomed(e) == \E u \in Thread : Undoes(u, e)

\* The bound is not set, is not too low, or will be reverted.
BoundOK(s) == s < first \/ s > LastEpoch \/ BoundDoomed(s - 1)

\* No commit passes the last iteration; once that is over the bound says so, unless
\* it will be rolled back.
EndGlobal ==
  /\ BoundOK(stop)
  /\ nextCommit <= LastEpoch + 1
  /\ LastEpoch < next /\ (nextCommit > LastEpoch \/ status[Index(LastEpoch)] = "done") =>
       stop = LastEpoch + 1 \/ Doomed(LastEpoch)

\* What a thread has read of the bound, and is about to do to it.
EndThread(t) ==
  /\ debt[t] # 0 => pc[t] = "exec" /\ epoch[t] < debt[t] /\ debt[t] < first + EpochMax
  /\ BreaksByMistake(t) =>
       /\ \A u \in Thread : pc[u] \notin Rolling
       /\ \E u \in Thread : Obliged(u, epoch[t])
  /\ pc[t] = "set_done" /\ epoch[t] = LastEpoch /\ status[Index(LastEpoch)] = "executing" =>
       stop = LastEpoch + 1 \/ Doomed(LastEpoch)
  /\ pc[t] = "commit_cas" => cur[t] <= LastEpoch
  /\ pc[t] = "next_stop" => BoundOK(oldStop[t])
  /\ pc[t] = "exit" => first = LastEpoch + 1
  /\ pc[t] \in RollTail => next <= start[t]
  /\ pc[t] = "rollback_stop_cas" => start[t] < oldStop[t] /\ newStop[t] < first
  /\ pc[t] = "update_stop_cas" => oldStop[t] < first /\ newStop[t] < first

EndInv == EndGlobal /\ \A t \in Thread : EndThread(t)

-----------------------------------------------------------------------------
(* What the invariant of the ring says.                                     *)

\* The types of the ring, and the order of the cursors.
LEMMA Types ==
  ASSUME Inductive
  PROVE  /\ first \in Nat /\ nextCommit \in Nat /\ next \in Nat /\ EpochMax \in Nat
         /\ first <= nextCommit /\ nextCommit <= next /\ next <= first + EpochMax
         /\ epoch \in [Thread -> Nat] /\ start \in [Thread -> Nat] /\ cur \in [Thread -> Nat]
         /\ stop \in Int /\ oldStop \in [Thread -> Int] /\ newStop \in [Thread -> Int]
         /\ debt \in [Thread -> Nat] /\ status \in [Slot -> Status] /\ rollbackFlag \subseteq Slot
         /\ pc \in [Thread -> Labels]
         /\ LastEpoch \in Nat /\ Index(LastEpoch) \in Slot
  BY EpochMaxAssumption, LastEpochAssumption, IndexType DEF Inductive, TypeOK, CursorOrder

\* The labels of a thread that runs an epoch, and what it knows of the epoch.
RunLabels == {"next_mark", "undo", "rollback_done", "exec", "stop", "set_done", "failed"} \cup Rolling

LEMMA RunFacts ==
  ASSUME Inductive, NEW t \in Thread
  PROVE  /\ pc[t] \in RunLabels =>
              /\ first <= epoch[t] /\ nextCommit <= epoch[t] /\ epoch[t] < first + EpochMax
              /\ status[Index(epoch[t])] = "executing" => epoch[t] < next
         /\ pc[t] = "next_stop" => next < first + EpochMax
  <1>1. RunInv /\ FreeInv
    BY DEF Inductive
  <1>2. pc[t] \in RunLabels => nextCommit <= epoch[t] /\ epoch[t] < first + EpochMax
    BY <1>1 DEF RunInv, Running, RunLabels
  <1>3. pc[t] \in RunLabels /\ status[Index(epoch[t])] = "executing" => epoch[t] < next
    <2> SUFFICES ASSUME pc[t] \in RunLabels, status[Index(epoch[t])] = "executing", ~(epoch[t] < next)
                 PROVE  FALSE
      OBVIOUS
    <2>1. epoch[t] \in next .. first + EpochMax - 1
      BY <1>2, Types
    <2> QED
      BY <1>1, <2>1 DEF FreeInv, RolledBack
  <1>4. pc[t] = "next_stop" => next < first + EpochMax
    BY <1>1 DEF RunInv
  <1> QED
    BY <1>2, <1>3, <1>4, Types

\* What a rollback has behind it.
LEMMA RollFacts ==
  ASSUME Inductive, NEW t \in Thread
  PROVE  /\ pc[t] \in Rolling => epoch[t] < start[t]
         /\ pc[t] \in {"rollback_scan", "rollback_flag"} =>
              /\ start[t] <= cur[t]
              /\ \A e \in Nat : start[t] <= e /\ e < cur[t] =>
                   status[Index(e)] \in {"commit"} \cup RolledBack
         /\ pc[t] = "rollback_flag" => cur[t] < next /\ status[Index(cur[t])] \in RolledBack
  <1>1. ScanInv
    BY DEF Inductive
  <1>2. start[t] \in Nat /\ cur[t] \in Nat
    BY Types
  <1> QED
    BY <1>1, <1>2 DEF ScanInv

\* What a commit has found out.
LEMMA CommitFacts ==
  ASSUME Inductive, NEW t \in Thread
  PROVE  /\ pc[t] \in {"commit_stop", "commit_first", "commit_cas"} =>
              /\ cur[t] <= nextCommit
              /\ cur[t] = nextCommit => cur[t] < next /\ status[Index(cur[t])] = "done"
         /\ pc[t] = "first_cas" => cur[t] < nextCommit
  BY DEF Inductive, CommitInv, FirstInv, Looking, Unblocked, FoundDone

\* What the status of a free slot says.
LEMMA FreeFacts ==
  ASSUME Inductive, NEW e \in Nat, next <= e, e < first + EpochMax
  PROVE  status[Index(e)] \in {"commit"} \cup RolledBack
  <1>1. e \in next .. first + EpochMax - 1
    BY Types
  <1> QED
    BY <1>1 DEF Inductive, FreeInv

\* The slots of the ring are distinct.
LEMMA SameSlot ==
  ASSUME Inductive, NEW e \in Nat, NEW f \in Nat, Index(e) = Index(f),
         first <= e, e < first + EpochMax, first <= f, f < first + EpochMax
  PROVE  e = f
  <1>1. (e < f => f < e + EpochMax) /\ (f < e => e < f + EpochMax)
    BY Types
  <1>2. ~(e < f) /\ ~(f < e)
    BY <1>1, IndexDistinct
  <1> QED
    BY <1>2

\* Who holds g_next_lock.
LEMMA LockFacts ==
  ASSUME Inductive, NEW t \in Thread, NEW u \in Thread, u # t,
         pc[t] \in {"next_stop", "rollback_scan", "rollback_flag"} \cup RollTail
  PROVE  pc[u] \notin {"next_stop", "rollback_scan", "rollback_flag"} \cup RollTail
  BY DEF Inductive, LockInv, NextHolds, RollbackHolds, Rolling, RollTail

\* Only an epoch that is not committed is a threat to another one.
LEMMA ThreatFacts ==
  ASSUME Inductive, NEW u \in Thread, NEW e \in Int, Reverts(u, e) \/ Undoes(u, e)
  PROVE  nextCommit <= epoch[u] /\ epoch[u] < e
  <1>0. /\ nextCommit \in Nat /\ epoch[u] \in Nat /\ start[u] \in Nat
    BY Types
  <1>1. CASE Obliged(u, e)
    BY <1>1, RunFacts DEF Obliged, RunLabels
  <1>2. CASE pc[u] \in BeforeStop /\ start[u] <= e
    <2>1. nextCommit <= epoch[u] /\ epoch[u] < start[u]
      BY <1>2, RunFacts, RollFacts DEF BeforeStop, Rolling, RunLabels
    <2> QED
      BY <1>0, <1>2, <2>1
  <1>3. Undoes(u, e) => Obliged(u, e) \/ (pc[u] \in BeforeStop /\ start[u] <= e)
    BY DEF Undoes, BeforeStop, Rolling
  <1> QED
    BY <1>1, <1>2, <1>3 DEF Reverts

-----------------------------------------------------------------------------
(* The steps of epoch.c.                                                    *)

\* What the other threads see of a step of epoch.c.
Frame(t) ==
  /\ UNCHANGED debt
  /\ pc[t] # "exec"
  /\ \A u \in Thread : u # t =>
       UNCHANGED <<pc[u], epoch[u], start[u], cur[u], oldStop[u], newStop[u]>>
  /\ pc[t] \in Rolling \/ pc'[t] \notin Rolling
  /\ first' = first \/ (FirstCas(t) /\ first = cur[t])
  /\ nextCommit' = nextCommit \/ (GetCommitCas(t) /\ nextCommit = cur[t])
  /\ next' = next \/ NextClaim(t) \/ RollbackNext(t)
  /\ status' = status \/ NextMark(t) \/ RollbackStatus(t) \/ SetDone(t) \/ CommitDone(t)
  /\ rollbackFlag' \subseteq rollbackFlag \/ RollbackFlag(t)
  /\ stop' = stop \/ Stop(t)
       \/ ((RollbackStopCas(t) \/ UpdateStopCas(t)) /\ stop = oldStop[t] /\ stop' = newStop[t])

LEMMA KernelFrame ==
  ASSUME Inductive, NEW t \in Thread, Kernel(t)
  PROVE  Frame(t)
  <1>0. /\ pc \in [Thread -> Labels]
        /\ epoch \in [Thread -> Nat] /\ start \in [Thread -> Nat] /\ cur \in [Thread -> Nat]
        /\ oldStop \in [Thread -> Int] /\ newStop \in [Thread -> Int]
        /\ UNCHANGED debt
    BY Types DEF Kernel
  <1> USE DEF cursors, locals, Forget, Goto, Frame, Rolling
  <1>1. CASE NextEnter(t) \/ NextLook(t) \/ NextStall(t) \/ NextFinish(t) \/ NextClaim(t)
    BY <1>0, <1>1 DEF NextEnter, NextLook, NextStall, NextFinish, NextClaim
  <1>2. CASE NextMark(t) \/ RollbackDone(t) \/ RollbackLock(t) \/ RollbackEnter(t)
             \/ RollbackSkip(t) \/ RollbackStatus(t)
    BY <1>0, <1>2 DEF NextMark, RollbackDone, RollbackLock, RollbackEnter, RollbackSkip, RollbackStatus
  <1>3. CASE RollbackFlag(t) \/ RollbackNext(t) \/ RollbackStopKeep(t) \/ RollbackStopRead(t)
             \/ RollbackExit(t)
    BY <1>0, <1>3 DEF RollbackFlag, RollbackNext, RollbackStopKeep, RollbackStopRead, RollbackExit
  <1>4. CASE RollbackStopCas(t) \/ UpdateStopCas(t)
    BY <1>0, <1>4 DEF RollbackStopCas, UpdateStopCas, StopCas
  <1>5. CASE Stop(t) \/ SetDone(t) \/ GetCommit(t) \/ GetCommitNone(t) \/ GetCommitCheck(t)
             \/ GetCommitCas(t)
    BY <1>0, <1>5 DEF Stop, SetDone, GetCommit, GetCommitNone, GetCommitCheck, GetCommitCas
  <1>6. CASE CommitDone(t) \/ FirstRead(t) \/ FirstCheck(t) \/ FirstCas(t)
             \/ UpdateStopKeep(t) \/ UpdateStopRead(t) \/ Signal(t)
    BY <1>0, <1>6 DEF CommitDone, FirstRead, FirstCheck, FirstCas, UpdateStopKeep, UpdateStopRead,
       Signal
  <1> QED
    BY <1>1, <1>2, <1>3, <1>4, <1>5, <1>6 DEF Kernel

\* The debt of a thread is settled by nobody else, or by a rollback that is at it.
LEMMA ObligedStays ==
  ASSUME Inductive, EndInv, NEW t \in Thread, Kernel(t), NEW u \in Thread, NEW e \in Int, Obliged(u, e)
  PROVE  /\ u # t
         /\ \/ Obliged(u, e)'
            \/ RollbackFlag(t) /\ cur[t] = debt[u]
  <1>0. Frame(t) /\ u # t /\ UNCHANGED debt
    BY KernelFrame DEF Obliged, Frame
  <1>1. CASE RollbackFlag(t) /\ Index(cur[t]) = Index(debt[u])
    <2>1. first <= cur[t] /\ cur[t] < first + EpochMax /\ cur[t] \in Nat
      <3>1. pc[t] = "rollback_flag" /\ pc[t] \in Rolling
        BY <1>1 DEF RollbackFlag, Goto, Rolling
      <3>2. /\ first <= epoch[t] /\ epoch[t] < start[t] /\ start[t] <= cur[t] /\ cur[t] < next
        BY <3>1, RunFacts, RollFacts DEF RunLabels
      <3> QED
        BY <3>2, Types
    <2>2. first <= debt[u] /\ debt[u] < first + EpochMax /\ debt[u] \in Nat
      <3>1. first <= epoch[u] /\ epoch[u] < debt[u] /\ debt[u] < first + EpochMax
        BY RunFacts DEF Obliged, Owes, RunLabels, EndInv, EndThread
      <3> QED
        BY <3>1, Types
    <2> QED
      BY <1>0, <1>1, <2>1, <2>2, SameSlot
  <1>2. CASE ~(RollbackFlag(t) /\ Index(cur[t]) = Index(debt[u]))
    <2>1. Index(debt[u]) \notin rollbackFlag'
      BY <1>0, <1>2 DEF Obliged, Owes, Frame, RollbackFlag
    <2> QED
      BY <1>0, <2>1 DEF Obliged, Owes, Frame, Index
  <1> QED
    BY <1>0, <1>1, <1>2

\* What reverts a bound goes on until the bound is put right.
LEMMA BoundDoomedStays ==
  ASSUME Inductive, EndInv, NEW t \in Thread, Kernel(t), NEW e \in Int, BoundDoomed(e)
  PROVE  \/ BoundDoomed(e)'
         \/ start[t] <= e /\ (RollbackStopKeep(t) \/ (RollbackStopCas(t) /\ stop = oldStop[t]))
  <1>0. PICK u \in Thread : Reverts(u, e)
    BY DEF BoundDoomed
  <1>1. /\ Frame(t) /\ pc \in [Thread -> Labels] /\ epoch[u] \in Nat
        /\ start[u] \in Nat /\ start[t] \in Nat /\ cur[t] \in Nat /\ debt[u] \in Nat
    BY KernelFrame, Types
  <1>2. CASE Obliged(u, e)
    <2>1. CASE Obliged(u, e)'
      BY <2>1 DEF BoundDoomed, Reverts
    <2>2. CASE RollbackFlag(t) /\ cur[t] = debt[u]
      <3>1. pc[t] = "rollback_flag" /\ pc'[t] = "rollback_scan" /\ start'[t] = start[t]
        BY <1>1, <2>2 DEF RollbackFlag, Goto
      <3>2. start[t] <= e
        BY <1>1, <1>2, <2>2, <3>1, RollFacts DEF Obliged
      <3>3. Reverts(t, e)'
        BY <3>1, <3>2 DEF Reverts, BeforeStop, Rolling
      <3> QED
        BY <3>3 DEF BoundDoomed
    <2> QED
      BY <1>2, <2>1, <2>2, ObligedStays
  <1>3. CASE pc[u] \in BeforeStop /\ start[u] <= e
    <2>1. CASE u # t
      <3>1. pc'[u] = pc[u] /\ start'[u] = start[u]
        BY <1>1, <2>1 DEF Frame
      <3>2. Reverts(u, e)'
        BY <1>3, <3>1 DEF Reverts
      <3> QED
        BY <3>2 DEF BoundDoomed
    <2>2. CASE u = t
      <3>1. \/ pc'[t] \in BeforeStop /\ start'[t] = start[t]
            \/ RollbackStopKeep(t) \/ (RollbackStopCas(t) /\ stop = oldStop[t])
        <4> USE DEF Goto, BeforeStop, Rolling, locals
        <4>1. CASE RollbackLock(t) \/ RollbackEnter(t) \/ RollbackSkip(t) \/ RollbackStatus(t)
                   \/ RollbackFlag(t) \/ RollbackNext(t) \/ RollbackStopRead(t)
          BY <1>1, <4>1 DEF RollbackLock, RollbackEnter, RollbackSkip, RollbackStatus, RollbackFlag,
             RollbackNext, RollbackStopRead
        <4>2. CASE RollbackStopCas(t)
          BY <1>1, <4>2 DEF RollbackStopCas, StopCas
        <4>3. CASE RollbackStopKeep(t)
          BY <4>3
        <4>4. CASE NextEnter(t) \/ NextLook(t) \/ NextStall(t) \/ NextFinish(t) \/ NextClaim(t)
                   \/ NextMark(t) \/ RollbackDone(t) \/ RollbackExit(t) \/ Stop(t) \/ SetDone(t)
          BY <1>3, <2>2, <4>4 DEF NextEnter, NextLook, NextStall, NextFinish, NextClaim, NextMark,
             RollbackDone, RollbackExit, Stop, SetDone
        <4>5. CASE GetCommit(t) \/ GetCommitNone(t) \/ GetCommitCheck(t) \/ GetCommitCas(t)
                   \/ CommitDone(t) \/ FirstRead(t) \/ FirstCheck(t) \/ FirstCas(t)
                   \/ UpdateStopKeep(t) \/ UpdateStopRead(t) \/ UpdateStopCas(t) \/ Signal(t)
          BY <1>3, <2>2, <4>5 DEF GetCommit, GetCommitNone, GetCommitCheck, GetCommitCas, CommitDone,
             FirstRead, FirstCheck, FirstCas, UpdateStopKeep, UpdateStopRead, UpdateStopCas, StopCas, Signal
        <4> QED
          BY <4>1, <4>2, <4>3, <4>4, <4>5 DEF Kernel
      <3>2. pc'[t] \in BeforeStop /\ start'[t] = start[t] => Reverts(t, e)'
        BY <1>3, <2>2 DEF Reverts
      <3> QED
        BY <1>3, <2>2, <3>1, <3>2 DEF BoundDoomed
    <2> QED
      BY <2>1, <2>2
  <1> QED
    BY <1>0, <1>2, <1>3 DEF Reverts

\* Epoch e was given out, and is not rolled back.
Valid(e) == e < next /\ status[Index(e)] \in {"executing", "done"}

\* What dooms an epoch does so until the epoch is rolled back.
LEMMA DoomedStays ==
  ASSUME Inductive, EndInv, NEW t \in Thread, Kernel(t), NEW e \in Nat, Doomed(e)
  PROVE  Doomed(e)' \/ ~Valid(e)'
  <1>0. PICK u \in Thread : Undoes(u, e)
    BY DEF Doomed
  <1>1. /\ Frame(t) /\ pc \in [Thread -> Labels] /\ epoch[u] \in Nat /\ next \in Nat
        /\ start[u] \in Nat /\ start[t] \in Nat /\ cur \in [Thread -> Nat] /\ debt[u] \in Nat
        /\ status \in [Slot -> Status] /\ Index(e) \in Slot
    BY KernelFrame, Types, IndexType
  <1>2. CASE Obliged(u, e)
    <2>1. CASE Obliged(u, e)'
      BY <2>1 DEF Doomed, Undoes
    <2>2. CASE RollbackFlag(t) /\ cur[t] = debt[u]
      <3>1. /\ pc[t] = "rollback_flag" /\ pc'[t] = "rollback_scan" /\ start'[t] = start[t]
            /\ cur'[t] = cur[t] + 1 /\ UNCHANGED status
        BY <1>1, <2>2 DEF RollbackFlag, Goto
      <3>2. start[t] <= cur[t] /\ cur[t] <= e /\ status[Index(cur[t])] \in RolledBack
        BY <1>1, <1>2, <2>2, <3>1, RollFacts DEF Obliged
      <3>3. CASE cur[t] = e
        BY <3>1, <3>2, <3>3 DEF Valid, RolledBack, Index
      <3>4. CASE cur[t] < e
        <4>1. Undoes(t, e)'
          BY <1>1, <3>1, <3>2, <3>4 DEF Undoes
        <4> QED
          BY <4>1 DEF Doomed
      <3> QED
        BY <1>1, <3>2, <3>3, <3>4
    <2> QED
      BY <1>2, <2>1, <2>2, ObligedStays
  <1>3. CASE u # t /\ ~Obliged(u, e)
    <2>1. pc'[u] = pc[u] /\ start'[u] = start[u] /\ cur'[u] = cur[u]
      BY <1>1, <1>3 DEF Frame
    <2>2. Undoes(u, e)'
      BY <1>0, <1>3, <2>1 DEF Undoes
    <2> QED
      BY <2>2 DEF Doomed
  <1>4. CASE u = t /\ ~Obliged(u, e)
    <2> SUFFICES ASSUME Valid(e)' PROVE Undoes(t, e)'
      BY DEF Doomed
    <2>0. /\ pc[t] \in {"rollback", "rollback_enter", "rollback_scan", "rollback_flag"}
          /\ start[t] <= e
          /\ pc[t] = "rollback_scan" => cur[t] <= e
          /\ pc[t] = "rollback_flag" => cur[t] < e
      BY <1>0, <1>4 DEF Undoes
    <2> USE DEF Goto, Undoes, locals, cursors
    <2>1. CASE RollbackLock(t)
      BY <1>1, <2>0, <2>1 DEF RollbackLock
    <2>2. CASE RollbackEnter(t)
      BY <1>1, <2>0, <2>2 DEF RollbackEnter
    <2>3. CASE RollbackSkip(t)
      <3>1. cur[t] # e
        BY <2>3 DEF RollbackSkip, Valid, Index
      <3> QED
        BY <1>1, <2>0, <2>3, <3>1 DEF RollbackSkip
    <2>4. CASE RollbackStatus(t)
      <3>1. cur[t] # e
        BY <1>1, <2>4 DEF RollbackStatus, Valid, Index
      <3> QED
        BY <1>1, <2>0, <2>4, <3>1 DEF RollbackStatus
    <2>5. CASE RollbackFlag(t)
      BY <1>1, <2>0, <2>5 DEF RollbackFlag
    <2>6. CASE RollbackNext(t)
      <3>1. cur[t] <= e /\ cur[t] >= next /\ next' = IF next <= start[t] THEN next ELSE start[t]
        BY <2>0, <2>6 DEF RollbackNext
      <3>2. e < next'
        BY DEF Valid
      <3> QED
        BY <1>1, <2>0, <3>1, <3>2
    <2>7. ~(RollbackStopKeep(t) \/ RollbackStopRead(t) \/ RollbackStopCas(t) \/ RollbackExit(t) \/ Stop(t)
            \/ SetDone(t) \/ NextEnter(t) \/ NextLook(t) \/ NextStall(t) \/ NextFinish(t) \/ NextClaim(t)
            \/ NextMark(t) \/ RollbackDone(t))
      BY <2>0 DEF RollbackStopKeep, RollbackStopRead, RollbackStopCas, StopCas, RollbackExit, Stop, SetDone,
         NextEnter, NextLook, NextStall, NextFinish, NextClaim, NextMark, RollbackDone
    <2>8. ~(GetCommit(t) \/ GetCommitNone(t) \/ GetCommitCheck(t) \/ GetCommitCas(t)
            \/ CommitDone(t) \/ FirstRead(t) \/ FirstCheck(t) \/ FirstCas(t)
            \/ UpdateStopKeep(t) \/ UpdateStopRead(t) \/ UpdateStopCas(t) \/ Signal(t))
      BY <2>0 DEF GetCommit, GetCommitNone, GetCommitCheck, GetCommitCas, CommitDone,
         FirstRead, FirstCheck, FirstCas, UpdateStopKeep, UpdateStopRead, UpdateStopCas, StopCas, Signal
    <2> QED
      BY <2>1, <2>2, <2>3, <2>4, <2>5, <2>6, <2>7, <2>8 DEF Kernel
  <1> QED
    BY <1>0, <1>2, <1>3, <1>4

\* What reverts a bound that is too low dooms the last iteration too.
LEMMA RevertsLast ==
  ASSUME Inductive, EndInv, NEW u \in Thread, NEW e \in Int, Reverts(u, e), e <= LastEpoch, Valid(LastEpoch)
  PROVE  Undoes(u, LastEpoch)
  <1>0. /\ epoch[u] \in Nat /\ start[u] \in Nat /\ cur[u] \in Nat /\ debt[u] \in Nat /\ LastEpoch \in Nat
        /\ next \in Nat
    BY Types
  <1>1. CASE Obliged(u, e)
    BY <1>0, <1>1 DEF Obliged, Undoes
  <1>2. CASE pc[u] \in BeforeStop /\ start[u] <= e
    <2>0. start[u] <= LastEpoch
      BY <1>0, <1>2
    <2>1. pc[u] \notin RollTail
      <3>1. pc[u] \in RollTail => next <= start[u]
        BY DEF EndInv, EndThread
      <3> QED
        BY <1>0, <2>0, <3>1 DEF Valid
    <2>2. pc[u] = "rollback_scan" => cur[u] <= LastEpoch
      BY <1>0, <2>0, RollFacts DEF Valid, RolledBack
    <2>3. pc[u] = "rollback_flag" => cur[u] < LastEpoch
      <3>1. pc[u] = "rollback_flag" => cur[u] <= LastEpoch /\ cur[u] # LastEpoch
        BY <1>0, <2>0, RollFacts DEF Valid, RolledBack
      <3> QED
        BY <1>0, <3>1
    <2> QED
      BY <1>2, <2>0, <2>1, <2>2, <2>3 DEF Undoes, BeforeStop, Rolling, RollTail
  <1> QED
    BY <1>1, <1>2 DEF Reverts

\* The bound says that the last iteration is over, or that iteration is doomed.
Settled == stop = LastEpoch + 1 \/ Doomed(LastEpoch)

\* The last iteration is done only when its thread has set the bound, or was wrong.
LEMMA LastDone ==
  ASSUME Inductive, EndInv, NEW t \in Thread, Kernel(t),
         LastEpoch < next', nextCommit' > LastEpoch \/ status'[Index(LastEpoch)] = "done"
  PROVE  LastEpoch < next /\ Settled
  <1>0. /\ epoch[t] \in Nat /\ cur[t] \in Nat /\ start[t] \in Nat
        /\ first \in Nat /\ next \in Nat /\ nextCommit \in Nat /\ stop \in Int /\ EpochMax \in Nat
        /\ first <= nextCommit /\ nextCommit <= next /\ next <= first + EpochMax
        /\ LastEpoch \in Nat /\ Index(LastEpoch) \in Slot /\ status \in [Slot -> Status]
        /\ Index(epoch[t]) \in Slot /\ Index(cur[t]) \in Slot
        /\ EndThread(t) /\ EndGlobal /\ Frame(t)
    BY Types, IndexType, KernelFrame DEF EndInv
  <1>1. CASE NextClaim(t)
    <2>1. next' = next + 1 /\ UNCHANGED <<status, nextCommit>> /\ pc[t] = "next_stop"
      BY <1>1 DEF NextClaim, Goto
    <2>2. CASE LastEpoch < next
      BY <1>0, <2>1, <2>2 DEF EndGlobal, Settled
    <2>3. CASE ~(LastEpoch < next)
      <3>1. LastEpoch = next /\ ~(nextCommit > LastEpoch)
        BY <1>0, <2>1, <2>3
      <3>2. next < first + EpochMax
        BY <2>1, RunFacts
      <3>3. status[Index(LastEpoch)] # "done"
        BY <1>0, <3>1, <3>2, FreeFacts DEF RolledBack
      <3> QED
        BY <2>1, <3>1, <3>3
    <2> QED
      BY <2>2, <2>3
  <1>2. CASE GetCommitCas(t) /\ nextCommit = cur[t]
    <2>1. pc[t] = "commit_cas" /\ nextCommit' = nextCommit + 1 /\ UNCHANGED <<status, next>>
      BY <1>2 DEF GetCommitCas, Goto
    <2>2. status[Index(nextCommit)] = "done"
      BY <1>2, <2>1, CommitFacts
    <2>3. nextCommit > LastEpoch \/ status[Index(LastEpoch)] = "done"
      <3>1. nextCommit > LastEpoch \/ nextCommit = LastEpoch \/ nextCommit + 1 <= LastEpoch
        BY <1>0
      <3> QED
        BY <1>0, <2>1, <2>2, <3>1
    <2> QED
      BY <1>0, <2>1, <2>3 DEF EndGlobal, Settled
  <1>3. CASE SetDone(t)
    <2>1. /\ pc[t] = "set_done" /\ UNCHANGED <<next, nextCommit>>
          /\ status' = [status EXCEPT ![Index(epoch[t])] =
                          IF status[Index(epoch[t])] = "executing" THEN "done" ELSE "rollback"]
      BY <1>3 DEF SetDone, Goto, cursors
    <2>2. CASE nextCommit > LastEpoch \/ status[Index(LastEpoch)] = "done"
      BY <1>0, <2>1, <2>2 DEF EndGlobal, Settled
    <2>3. CASE ~(nextCommit > LastEpoch) /\ status[Index(LastEpoch)] # "done"
      <3>1. Index(epoch[t]) = Index(LastEpoch) /\ status[Index(LastEpoch)] = "executing"
        BY <1>0, <2>1, <2>3
      <3>2. first <= epoch[t] /\ epoch[t] < first + EpochMax
        BY <2>1, RunFacts DEF RunLabels
      <3>3. epoch[t] = LastEpoch
        BY <1>0, <2>1, <2>3, <3>1, <3>2, SameSlot
      <3> QED
        BY <1>0, <2>1, <3>1, <3>3 DEF EndThread, Settled
    <2> QED
      BY <2>2, <2>3
  <1>4. CASE RollbackNext(t)
    <2>1. /\ next' = IF next <= start[t] THEN next ELSE start[t]
          /\ UNCHANGED <<status, nextCommit>>
      BY <1>4 DEF RollbackNext
    <2> QED
      BY <1>0, <2>1 DEF EndGlobal, Settled
  <1>5. CASE ~NextClaim(t) /\ ~RollbackNext(t) /\ ~(GetCommitCas(t) /\ nextCommit = cur[t]) /\ ~SetDone(t)
    <2>1. next' = next /\ nextCommit' = nextCommit
      BY <1>0, <1>5 DEF Frame
    <2>2. status'[Index(LastEpoch)] = "done" => status[Index(LastEpoch)] = "done"
      BY <1>0, <1>5 DEF Frame, NextMark, RollbackStatus, CommitDone
    <2> QED
      BY <1>0, <2>1, <2>2 DEF EndGlobal, Settled
  <1> QED
    BY <1>1, <1>2, <1>3, <1>4, <1>5

\* A break by mistake is owed a rollback.
LEMMA MistakeDoomed ==
  ASSUME Inductive, EndInv, NEW t \in Thread, Kernel(t), BreaksByMistake(t)
  PROVE  \E u \in Thread : Obliged(u, epoch[t]) /\ Obliged(u, epoch[t])'
  <1>1. PICK u \in Thread : Obliged(u, epoch[t])
    BY DEF EndInv, EndThread
  <1>2. pc[t] = "stop" /\ epoch[t] \in Int
    BY Types DEF BreaksByMistake
  <1>3. ~RollbackFlag(t) /\ UNCHANGED epoch
    BY <1>2 DEF RollbackFlag, Goto, Kernel, Stop, NextClaim, SetDone, NextEnter, NextLook, NextStall,
       NextFinish, NextMark, RollbackDone, RollbackLock, RollbackEnter, RollbackSkip, RollbackStatus,
       RollbackNext, RollbackStopKeep, RollbackStopRead, RollbackStopCas, RollbackExit, GetCommit,
       GetCommitNone, GetCommitCheck, GetCommitCas, CommitDone, FirstRead, FirstCheck, FirstCas,
       UpdateStopKeep, UpdateStopRead, UpdateStopCas, StopCas, Signal, locals
  <1>4. Obliged(u, epoch[t])'
    <2> DEFINE e == epoch[t]
    <2>1. e \in Int /\ Obliged(u, e) /\ e' = e
      BY <1>1, <1>2, <1>3
    <2> HIDE DEF e
    <2>2. Obliged(u, e)'
      BY <1>3, <2>1, ObligedStays
    <2> QED
      BY <1>3, <2>2 DEF e
  <1> QED
    BY <1>1, <1>4

\* The bound of the last iteration stays until a break by mistake lowers it.
LEMMA BoundStays ==
  ASSUME Inductive, EndInv, NEW t \in Thread, Kernel(t), LastEpoch < next, stop = LastEpoch + 1
  PROVE  Settled'
  <1>0. /\ epoch[t] \in Nat /\ start[t] \in Nat /\ oldStop[t] \in Int /\ stop \in Int
        /\ first \in Nat /\ next \in Nat /\ nextCommit \in Nat /\ first <= nextCommit
        /\ LastEpoch \in Nat
        /\ EndThread(t) /\ EndGlobal /\ Frame(t)
    BY Types, KernelFrame DEF EndInv
  <1>1. CASE Stop(t) /\ stop' # stop
    <2>1. pc[t] = "stop" /\ stop' = epoch[t] + 1 /\ ~(IsStopSet(stop) /\ stop < epoch[t] + 1)
      BY <1>1 DEF Stop, Goto
    <2>2. CASE epoch[t] >= LastEpoch
      <3>1. nextCommit <= epoch[t] /\ first <= epoch[t]
        BY <2>1, RunFacts DEF RunLabels
      <3>2. first <= stop
        BY <1>0 DEF EndGlobal
      <3>3. epoch[t] = LastEpoch
        BY <1>0, <2>1, <2>2, <3>2 DEF IsStopSet
      <3> QED
        BY <2>1, <3>3 DEF Settled
    <2>3. CASE ~(epoch[t] >= LastEpoch)
      <3>1. PICK u \in Thread : Obliged(u, epoch[t])'
        BY <2>1, <2>3, MistakeDoomed DEF BreaksByMistake, Breaks
      <3>2. epoch' = epoch
        BY <1>1 DEF Stop, locals
      <3>3. epoch[u] \in Nat /\ debt'[u] \in Nat
        BY Types, <1>0 DEF Frame
      <3>4. Undoes(u, LastEpoch)'
        BY <1>0, <2>3, <3>1, <3>2, <3>3 DEF Undoes, Obliged
      <3> QED
        BY <3>4 DEF Settled, Doomed
    <2> QED
      BY <2>2, <2>3
  <1>2. ~((RollbackStopCas(t) \/ UpdateStopCas(t)) /\ stop = oldStop[t])
    <2>1. RollbackStopCas(t) /\ stop = oldStop[t] => next <= LastEpoch
      BY <1>0 DEF RollbackStopCas, StopCas, Goto, EndThread, RollTail
    <2>2. UpdateStopCas(t) /\ stop = oldStop[t] => stop < first
      BY <1>0 DEF UpdateStopCas, StopCas, Goto, EndThread
    <2> QED
      BY <1>0, <2>1, <2>2 DEF EndGlobal
  <1>3. CASE stop' = stop
    BY <1>3 DEF Settled
  <1> QED
    BY <1>0, <1>1, <1>2, <1>3 DEF Frame

\* It stays settled until a rollback reaches the last iteration.
LEMMA SettledStays ==
  ASSUME Inductive, EndInv, NEW t \in Thread, Kernel(t), LastEpoch < next, Settled
  PROVE  Settled' \/ ~Valid(LastEpoch)'
  <1>1. LastEpoch \in Nat
    BY Types
  <1> QED
    BY <1>1, BoundStays, DoomedStays DEF Settled

\* The bound is all right after every step.
LEMMA KernelBound ==
  ASSUME Inductive, EndInv, NEW t \in Thread, Kernel(t)
  PROVE  BoundOK(stop)'
  <1>0. /\ epoch[t] \in Nat /\ newStop[t] \in Int /\ start[t] \in Nat /\ cur[t] \in Nat
        /\ first \in Nat /\ stop \in Int /\ LastEpoch \in Nat
        /\ EndThread(t) /\ EndGlobal /\ Frame(t)
    BY Types, KernelFrame DEF EndInv
  <1>1. first' \in Nat /\ first <= first'
    BY <1>0 DEF Frame, FirstCas
  <1>2. CASE stop' = stop
    <2>1. CASE stop < first \/ stop > LastEpoch
      BY <1>0, <1>1, <1>2, <2>1 DEF BoundOK
    <2>2. CASE BoundDoomed(stop - 1) /\ ~(stop < first)
      <3> DEFINE e == stop - 1
      <3>1. e \in Int /\ BoundDoomed(e) /\ e' = e
        BY <1>0, <1>2, <2>2
      <3>2. ~(start[t] <= e /\ RollbackStopKeep(t))
        BY <1>0, <2>2 DEF RollbackStopKeep, IsStopSet
      <3>3. RollbackStopCas(t) /\ stop = oldStop[t] => stop' < first
        BY <1>0 DEF RollbackStopCas, StopCas, Goto, EndThread
      <3> HIDE DEF e
      <3>4. BoundDoomed(e)' \/ stop' < first
        BY <3>1, <3>2, <3>3, BoundDoomedStays
      <3>5. BoundDoomed(e)' => BoundOK(stop)'
        BY <3>1 DEF e, BoundOK
      <3> QED
        BY <1>0, <1>1, <1>2, <3>4, <3>5 DEF BoundOK
    <2> QED
      BY <1>0, <2>1, <2>2 DEF EndGlobal, BoundOK
  <1>3. CASE Stop(t) /\ stop' # stop
    <2>1. pc[t] = "stop" /\ stop' = epoch[t] + 1 /\ UNCHANGED epoch
      BY <1>3 DEF Stop, Goto, locals
    <2>2. CASE epoch[t] >= LastEpoch
      BY <1>0, <2>1, <2>2 DEF BoundOK
    <2>3. CASE ~(epoch[t] >= LastEpoch)
      <3>1. PICK u \in Thread : Obliged(u, epoch[t])'
        BY <2>1, <2>3, MistakeDoomed DEF BreaksByMistake, Breaks
      <3>2. stop' - 1 = epoch'[t]
        BY <1>0, <2>1
      <3>3. Reverts(u, stop - 1)'
        BY <3>1, <3>2 DEF Reverts
      <3> QED
        BY <3>3 DEF BoundOK, BoundDoomed
    <2> QED
      BY <2>2, <2>3
  <1>4. CASE (RollbackStopCas(t) \/ UpdateStopCas(t)) /\ stop' = newStop[t]
    <2>1. newStop[t] < first
      BY <1>0, <1>4 DEF RollbackStopCas, UpdateStopCas, StopCas, Goto, EndThread
    <2> QED
      BY <1>0, <1>1, <1>4, <2>1 DEF BoundOK
  <1> QED
    BY <1>0, <1>2, <1>3, <1>4 DEF Frame

\* So are the commits and the end of the last iteration.
LEMMA KernelGlobal ==
  ASSUME Inductive, EndInv, NEW t \in Thread, Kernel(t)
  PROVE  EndGlobal'
  <1>0. /\ cur[t] \in Nat /\ nextCommit \in Nat /\ LastEpoch \in Nat
        /\ EndThread(t) /\ EndGlobal /\ Frame(t)
    BY Types, KernelFrame DEF EndInv
  <1>1. BoundOK(stop)'
    BY KernelBound
  <1>2. nextCommit' <= LastEpoch + 1
    <2>1. CASE nextCommit' = nextCommit
      BY <1>0, <2>1 DEF EndGlobal
    <2>2. CASE GetCommitCas(t) /\ nextCommit = cur[t]
      <3>1. cur[t] <= LastEpoch /\ nextCommit' = cur[t] + 1
        BY <1>0, <2>2 DEF GetCommitCas, Goto, EndThread
      <3> QED
        BY <1>0, <3>1
    <2> QED
      BY <1>0, <2>1, <2>2 DEF Frame
  <1>3. ASSUME LastEpoch < next', nextCommit' > LastEpoch \/ status'[Index(LastEpoch)] = "done"
        PROVE  stop' = LastEpoch + 1 \/ Doomed(LastEpoch)'
    <2>1. LastEpoch < next /\ Settled
      BY <1>3, LastDone
    <2>2. CASE status'[Index(LastEpoch)] = "done"
      <3>1. Valid(LastEpoch)'
        BY <1>3, <2>2 DEF Valid, Index
      <3> QED
        BY <2>1, <3>1, SettledStays DEF Settled
    <2>3. CASE nextCommit' > LastEpoch /\ status'[Index(LastEpoch)] # "done"
      <3>1. ~Doomed(LastEpoch)
        <4> SUFFICES ASSUME NEW u \in Thread, Undoes(u, LastEpoch) PROVE FALSE
          BY DEF Doomed
        <4>1. nextCommit <= epoch[u] /\ epoch[u] < LastEpoch /\ epoch[u] \in Nat
          BY <1>0, ThreatFacts, Types
        <4>2. nextCommit' \in Nat /\ nextCommit' <= nextCommit + 1
          BY <1>0 DEF Frame, GetCommitCas
        <4> QED
          BY <1>0, <2>3, <4>1, <4>2
      <3>2. stop = LastEpoch + 1
        BY <2>1, <3>1 DEF Settled
      <3> QED
        BY <2>1, <3>2, BoundStays DEF Settled
    <2> QED
      BY <1>3, <2>2, <2>3
  <1> QED
    BY <1>1, <1>2, <1>3 DEF EndGlobal, Index

\* Which step leads to a label.
LEMMA Arrivals ==
  ASSUME Inductive, NEW t \in Thread, Kernel(t)
  PROVE  /\ pc'[t] # "stop"
         /\ pc'[t] = "set_done" => Stop(t)
         /\ pc'[t] = "next_stop" => NextLook(t)
         /\ pc'[t] = "exit" => NextFinish(t)
         /\ pc'[t] = "commit_cas" => GetCommitCheck(t)
         /\ pc'[t] = "rollback_stop" => RollbackNext(t) \/ RollbackStopCas(t)
         /\ pc'[t] = "rollback_stop_cas" => RollbackStopRead(t)
         /\ pc'[t] = "rollback_exit" => RollbackStopKeep(t) \/ RollbackStopCas(t)
         /\ pc'[t] = "update_stop_cas" => UpdateStopRead(t)
  <1>0. pc \in [Thread -> Labels]
    BY Types
  <1> USE DEF Goto
  <1>1. CASE NextEnter(t) \/ NextLook(t) \/ NextStall(t) \/ NextFinish(t) \/ NextClaim(t)
             \/ NextMark(t) \/ RollbackDone(t) \/ RollbackLock(t)
    BY <1>0, <1>1 DEF NextEnter, NextLook, NextStall, NextFinish, NextClaim, NextMark, RollbackDone, RollbackLock
  <1>2. CASE RollbackEnter(t) \/ RollbackSkip(t) \/ RollbackStatus(t) \/ RollbackFlag(t) \/ RollbackNext(t)
             \/ RollbackStopKeep(t) \/ RollbackStopRead(t) \/ RollbackStopCas(t) \/ RollbackExit(t)
    BY <1>0, <1>2 DEF RollbackEnter, RollbackSkip, RollbackStatus, RollbackFlag, RollbackNext,
       RollbackStopKeep, RollbackStopRead, RollbackStopCas, StopCas, RollbackExit
  <1>3. CASE Stop(t) \/ SetDone(t) \/ GetCommit(t) \/ GetCommitNone(t) \/ GetCommitCheck(t) \/ GetCommitCas(t)
    BY <1>0, <1>3 DEF Stop, SetDone, GetCommit, GetCommitNone, GetCommitCheck, GetCommitCas
  <1>4. CASE CommitDone(t) \/ FirstRead(t) \/ FirstCheck(t) \/ FirstCas(t)
             \/ UpdateStopKeep(t) \/ UpdateStopRead(t) \/ UpdateStopCas(t) \/ Signal(t)
    BY <1>0, <1>4 DEF CommitDone, FirstRead, FirstCheck, FirstCas, UpdateStopKeep, UpdateStopRead,
       UpdateStopCas, StopCas, Signal
  <1> QED
    BY <1>1, <1>2, <1>3, <1>4 DEF Kernel

\* What the thread itself has read, at the labels where it matters.
LEMMA OwnThread ==
  ASSUME Inductive, EndInv, NEW t \in Thread, Kernel(t), EndGlobal'
  PROVE  EndThread(t)'
  <1>0. /\ pc \in [Thread -> Labels]
        /\ epoch[t] \in Nat /\ start \in [Thread -> Nat] /\ cur \in [Thread -> Nat]
        /\ oldStop \in [Thread -> Int] /\ newStop \in [Thread -> Int] /\ debt[t] \in Nat
        /\ first \in Nat /\ next \in Nat /\ nextCommit \in Nat /\ stop \in Int
        /\ first <= nextCommit /\ nextCommit <= next
        /\ LastEpoch \in Nat
        /\ EndThread(t) /\ EndGlobal /\ Frame(t)
    BY Types, KernelFrame DEF EndInv
  <1> DEFINE Mistake == BreaksByMistake(t) =>
                 /\ \A u \in Thread : pc[u] \notin Rolling
                 /\ \E u \in Thread : Obliged(u, epoch[t])
             Over == pc[t] = "set_done" /\ epoch[t] = LastEpoch /\ status[Index(LastEpoch)] = "executing" =>
                       stop = LastEpoch + 1 \/ Doomed(LastEpoch)
             Looks == pc[t] = "next_stop" => BoundOK(oldStop[t])
             Rest == /\ pc[t] = "commit_cas" => cur[t] <= LastEpoch
                     /\ pc[t] = "exit" => first = LastEpoch + 1
                     /\ pc[t] \in RollTail => next <= start[t]
                     /\ pc[t] = "rollback_stop_cas" => start[t] < oldStop[t] /\ newStop[t] < first
                     /\ pc[t] = "update_stop_cas" => oldStop[t] < first /\ newStop[t] < first
  <1>1. debt'[t] = 0
    BY <1>0 DEF Frame, EndThread
  <1>2. Mistake'
    <2>1. pc'[t] # "stop"
      BY Arrivals
    <2> QED
      BY <2>1 DEF BreaksByMistake
  <1>3. Over'
    <2> SUFFICES ASSUME pc'[t] = "set_done", epoch'[t] = LastEpoch, status'[Index(LastEpoch)] = "executing"
                 PROVE  Settled'
      BY DEF Settled, Index
    <2>1. Stop(t)
      BY Arrivals
    <2>2. pc[t] = "stop" /\ epoch[t] = LastEpoch /\ UNCHANGED <<status, next>>
      BY <2>1 DEF Stop, Goto, locals, cursors
    <2>3. Valid(LastEpoch) /\ Valid(LastEpoch)'
      BY <2>2, RunFacts DEF RunLabels, Valid, Index
    <2>4. CASE stop' = LastEpoch + 1
      BY <2>4 DEF Settled
    <2>5. CASE stop' # LastEpoch + 1
      <3>1. first <= stop /\ stop <= LastEpoch
        BY <1>0, <2>1, <2>2, <2>5 DEF Stop, IsStopSet
      <3>2. PICK u \in Thread : Reverts(u, stop - 1)
        BY <1>0, <3>1 DEF EndGlobal, BoundOK, BoundDoomed
      <3>3. Doomed(LastEpoch)
        <4>1. stop - 1 \in Int /\ stop - 1 <= LastEpoch
          BY <1>0, <3>1
        <4> QED
          BY <2>3, <3>2, <4>1, RevertsLast DEF Doomed
      <3> QED
        BY <1>0, <2>3, <3>3, DoomedStays DEF Settled
    <2> QED
      BY <2>4, <2>5
  <1>4. Looks'
    <2> SUFFICES ASSUME pc'[t] = "next_stop" PROVE BoundOK(oldStop[t])'
      OBVIOUS
    <2>1. NextLook(t)
      BY Arrivals
    <2>2. oldStop'[t] = stop /\ stop' = stop
      BY <1>0, <2>1 DEF NextLook
    <2>3. BoundOK(stop)'
      BY DEF EndGlobal
    <2> QED
      BY <2>2, <2>3 DEF BoundOK
  <1>5. Rest'
    <2>1. ASSUME pc'[t] = "commit_cas"
          PROVE  cur'[t] <= LastEpoch
      <3>1. /\ pc[t] \in {"commit_stop", "commit_first"}
            /\ pc[t] = "commit_stop" => stop # cur[t]
            /\ pc[t] = "commit_first" => ~IsStopSet(cur[t])
            /\ UNCHANGED cur
        BY <1>0, <2>1, Arrivals DEF GetCommitCheck, Goto, locals
      <3>2. cur[t] <= nextCommit /\ (cur[t] = nextCommit => cur[t] < next)
        BY <3>1, CommitFacts
      <3>3. ASSUME cur[t] = LastEpoch + 1
            PROVE  FALSE
        <4>1. nextCommit = LastEpoch + 1 /\ LastEpoch < next /\ first <= cur[t]
          BY <1>0, <3>2, <3>3 DEF EndGlobal
        <4>2. ~Doomed(LastEpoch)
          BY <1>0, <4>1, ThreatFacts, Types DEF Doomed
        <4>3. stop = LastEpoch + 1
          BY <1>0, <4>1, <4>2 DEF EndGlobal
        <4> QED
          BY <1>0, <3>1, <3>3, <4>1, <4>3 DEF IsStopSet
      <3> QED
        BY <1>0, <3>1, <3>2, <3>3 DEF EndGlobal
    <2>2. ASSUME pc'[t] = "exit"
          PROVE  first' = LastEpoch + 1
      <3>1. pc[t] = "next_stop" /\ oldStop[t] = first /\ first' = first
        BY <2>2, Arrivals DEF NextFinish, Goto, cursors
      <3>2. ~BoundDoomed(first - 1)
        <4> SUFFICES ASSUME NEW u \in Thread, Reverts(u, first - 1) PROVE FALSE
          BY DEF BoundDoomed
        <4>1. first - 1 \in Int
          BY <1>0
        <4>2. nextCommit <= epoch[u] /\ epoch[u] < first - 1 /\ epoch[u] \in Nat
          BY <4>1, ThreatFacts, Types
        <4> QED
          BY <1>0, <4>2
      <3>3. first > LastEpoch
        BY <1>0, <3>1, <3>2 DEF EndThread, BoundOK
      <3> QED
        BY <1>0, <3>1, <3>3 DEF EndGlobal
    <2>3. ASSUME pc'[t] \in RollTail
          PROVE  next' <= start'[t]
      <3>1. CASE RollbackNext(t)
        BY <1>0, <3>1 DEF RollbackNext, locals
      <3>2. CASE RollbackStopKeep(t) \/ RollbackStopRead(t) \/ RollbackStopCas(t)
        <4>1. pc[t] \in RollTail /\ next' = next /\ start' = start
          BY <3>2 DEF RollbackStopKeep, RollbackStopRead, RollbackStopCas, StopCas, Goto, RollTail, cursors,
             locals
        <4> QED
          BY <1>0, <4>1 DEF EndThread
      <3> QED
        BY <2>3, <3>1, <3>2, Arrivals DEF RollTail
    <2>4. ASSUME pc'[t] = "rollback_stop_cas"
          PROVE  start'[t] < oldStop'[t] /\ newStop'[t] < first'
      BY <1>0, <2>4, Arrivals DEF RollbackStopRead, cursors
    <2>5. ASSUME pc'[t] = "update_stop_cas"
          PROVE  oldStop'[t] < first' /\ newStop'[t] < first'
      BY <1>0, <2>5, Arrivals DEF UpdateStopRead, IsStopSet, cursors
    <2> QED
      BY <2>1, <2>2, <2>3, <2>4, <2>5
  <1> QED
    BY <1>1, <1>2, <1>3, <1>4, <1>5 DEF EndThread

\* An epoch that executes was given out, also after a step.
ExecutingBelow ==
  \A t \in Thread :
    pc[t] \in RunLabels /\ status[Index(epoch[t])] = "executing" => epoch[t] < next

LEMMA BelowNow == Inductive => ExecutingBelow
  BY RunFacts DEF ExecutingBelow

LEMMA BelowNext == Inductive' => ExecutingBelow'
  BY BelowNow, PTL

\* What another thread has read stays true.
LEMMA OtherThread ==
  ASSUME Inductive, EndInv, NEW t \in Thread, Kernel(t), NEW u \in Thread, u # t
  PROVE  EndThread(u)'
  <1>0. /\ epoch[u] \in Nat /\ cur[t] \in Nat /\ start[t] \in Nat
        /\ oldStop[u] \in Int /\ newStop[u] \in Int /\ debt[u] \in Nat
        /\ first \in Nat /\ next \in Nat /\ nextCommit \in Nat /\ stop \in Int /\ EpochMax \in Nat
        /\ LastEpoch \in Nat /\ Index(LastEpoch) \in Slot /\ status \in [Slot -> Status]
        /\ Index(epoch[t]) \in Slot /\ Index(cur[t]) \in Slot
        /\ EndThread(u) /\ EndGlobal /\ Frame(t)
    BY Types, IndexType, KernelFrame DEF EndInv
  <1>1. UNCHANGED <<pc[u], epoch[u], start[u], cur[u], oldStop[u], newStop[u], debt>>
    BY <1>0 DEF Frame
  <1>2. first' \in Nat /\ first <= first'
    BY <1>0 DEF Frame, FirstCas
  <1>3. ASSUME BreaksByMistake(u)'
        PROVE  /\ \A v \in Thread : pc'[v] \notin Rolling
               /\ \E v \in Thread : Obliged(v, epoch[u])'
    <2>1. BreaksByMistake(u)
      BY <1>1, <1>3 DEF BreaksByMistake, Breaks
    <2>2. \A v \in Thread : pc[v] \notin Rolling
      BY <1>0, <2>1 DEF EndThread
    <2>3. \A v \in Thread : pc'[v] \notin Rolling
      <3> TAKE v \in Thread
      <3>1. pc'[v] = pc[v] \/ v = t
        BY <1>0 DEF Frame
      <3> QED
        BY <1>0, <2>2, <3>1 DEF Frame
    <2>4. PICK v \in Thread : Obliged(v, epoch[u])
      BY <1>0, <2>1 DEF EndThread
    <2>5. Obliged(v, epoch[u])'
      <3> DEFINE e == epoch[u]
      <3>1. e \in Int /\ Obliged(v, e) /\ e' = e
        BY <1>0, <1>1, <2>4
      <3>2. ~RollbackFlag(t)
        BY <2>2 DEF RollbackFlag, Goto, Rolling
      <3> HIDE DEF e
      <3>3. Obliged(v, e)'
        BY <3>1, <3>2, ObligedStays
      <3> QED
        BY <3>1, <3>3 DEF e, Obliged
    <2> QED
      BY <2>3, <2>5
  <1>4. ASSUME pc[u] = "set_done", epoch[u] = LastEpoch, status'[Index(LastEpoch)] = "executing"
        PROVE  Settled'
    <2>1. pc[u] \in RunLabels /\ pc'[u] \in RunLabels
      BY <1>1, <1>4 DEF RunLabels
    <2>2. Inductive'
      BY StepInductive DEF Next, Worker
    <2>3. status[Index(LastEpoch)] = "executing"
      <3> SUFFICES ASSUME status[Index(LastEpoch)] # "executing" PROVE FALSE
        OBVIOUS
      <3>1. NextMark(t) /\ Index(epoch[t]) = Index(LastEpoch)
        BY <1>0, <1>4 DEF Frame, NextMark, RollbackStatus, SetDone, CommitDone
      <3>2. epoch[t] \in Held(t) /\ epoch[u] \in Held(u)
        BY <1>4, <3>1 DEF Held, Running, NextMark, Goto
      <3> QED
        BY <1>4, <3>1, <3>2 DEF Inductive, SlotExclusive
    <2>4. LastEpoch < next /\ Settled
      BY <1>0, <1>4, <2>1, <2>3, RunFacts DEF EndThread, Settled
    <2>5. Valid(LastEpoch)'
      <3>1. ExecutingBelow'
        BY <2>2, BelowNext
      <3>2. status'[Index(epoch'[u])] = "executing" => epoch'[u] < next'
        BY <2>1, <3>1 DEF ExecutingBelow, Index
      <3> QED
        BY <1>1, <1>4, <3>2 DEF Valid, Index
    <2> QED
      BY <2>4, <2>5, SettledStays
  <1>5. ASSUME pc[u] = "next_stop"
        PROVE  BoundOK(oldStop[u])'
    <2>1. CASE oldStop[u] < first \/ oldStop[u] > LastEpoch
      BY <1>0, <1>1, <1>2, <2>1 DEF BoundOK
    <2>2. CASE BoundDoomed(oldStop[u] - 1)
      <3> DEFINE e == oldStop[u] - 1
      <3>1. e \in Int /\ BoundDoomed(e) /\ e' = e
        BY <1>0, <1>1, <2>2
      <3>2. ~RollbackStopKeep(t) /\ ~RollbackStopCas(t)
        BY <1>5, LockFacts DEF RollbackStopKeep, RollbackStopCas, StopCas, Goto, RollTail
      <3> HIDE DEF e
      <3>3. BoundDoomed(e)'
        BY <3>1, <3>2, BoundDoomedStays
      <3> QED
        BY <3>1, <3>3 DEF e, BoundOK
    <2> QED
      BY <1>0, <1>5, <2>1, <2>2 DEF EndThread, BoundOK
  <1>6. ASSUME pc[u] = "exit"
        PROVE  first' = LastEpoch + 1
    <2>1. first = LastEpoch + 1
      BY <1>0, <1>6 DEF EndThread
    <2>2. FirstCas(t) => cur[t] < nextCommit
      BY CommitFacts DEF FirstCas, Goto
    <2> QED
      BY <1>0, <2>1, <2>2 DEF Frame, EndGlobal
  <1>7. ASSUME pc[u] \in RollTail
        PROVE  next' <= start[u]
    <2>1. pc[t] \notin {"next_stop", "rollback_scan"}
      BY <1>7, LockFacts
    <2>2. next' = next
      BY <1>0, <2>1 DEF Frame, NextClaim, RollbackNext, Goto
    <2> QED
      BY <1>0, <1>7, <2>2 DEF EndThread
  <1> QED
    BY <1>0, <1>1, <1>2, <1>3, <1>4, <1>5, <1>6, <1>7 DEF EndThread, Index, Settled

-----------------------------------------------------------------------------
(* The steps of the loop body.                                              *)

\* What a step of the body leaves alone.
BodyFrame(t) ==
  /\ UNCHANGED <<status, first, next, nextCommit, rollbackFlag, stop, epoch, cur, oldStop, newStop>>
  /\ pc[t] \in {"exec", "undo", "publish"}
  /\ pc'[t] \in {"rollback_done", "commit_done", "rollback", "stop", "set_done", "failed"}
  /\ \A u \in Thread : u # t => UNCHANGED <<pc[u], start[u]>>
  /\ \A u \in Thread : u # t => debt'[u] = debt[u] \/ Misread(t, u)
  /\ debt'[t] = 0 \/ (debt'[t] = debt[t] /\ pc[t] # "exec")

LEMMA BodySteps ==
  ASSUME Inductive, NEW t \in Thread, Body(t)
  PROVE  BodyFrame(t)
  <1>0. /\ pc \in [Thread -> Labels] /\ start \in [Thread -> Nat] /\ debt \in [Thread -> Nat]
        /\ epoch \in [Thread -> Nat]
    BY Types
  <1> USE DEF BodyFrame, Goto, cursors, locals
  <1>1. CASE Undo(t) \/ Publish(t)
    BY <1>0, <1>1 DEF Undo, Publish
  <1>2. CASE \E e \in epoch[t] + 1 .. epoch[t] + EpochMax - 1 : StartRollback(t, e)
    BY <1>0, <1>2 DEF StartRollback
  <1>3. CASE Return(t) \/ MisreadLate(t) \/ Fail(t)
    BY <1>0, <1>3 DEF Return, MisreadLate, Fail
  <1>4. ASSUME NEW u \in Thread, Misread(t, u)
        PROVE  BodyFrame(t)
    <2>1. u # t
      BY <1>0, <1>4 DEF Misread
    <2> QED
      BY <1>0, <1>4, <2>1 DEF Misread
  <1> QED
    BY <1>1, <1>2, <1>3, <1>4 DEF Body

\* An execution that misreads will be rolled back by the thread it ran ahead of.
LEMMA MisreadObliges ==
  ASSUME Inductive, NEW t \in Thread, NEW u \in Thread, Misread(t, u)
  PROVE  u # t /\ Obliged(u, epoch[t])' /\ epoch[t] < first + EpochMax
  <1>0. /\ pc \in [Thread -> Labels] /\ debt \in [Thread -> Nat] /\ epoch \in [Thread -> Nat]
    BY Types
  <1>1. u # t
    BY <1>0 DEF Misread
  <1>2. Index(epoch[t]) \notin rollbackFlag
    <2> SUFFICES ASSUME Index(epoch[t]) \in rollbackFlag PROVE FALSE
      OBVIOUS
    <2>1. status[Index(epoch[t])] = "executing" /\ pc[t] = "exec"
      BY DEF Misread, Goto
    <2>2. PICK v \in Thread : pc[v] \in {"undo", "rollback_done"} /\ Index(epoch[v]) = Index(epoch[t])
      BY <2>1 DEF Inductive, FlagImpliesUndo, RolledBack
    <2>3. v # t /\ epoch[v] \in Held(v) /\ epoch[t] \in Held(t)
      BY <2>1, <2>2 DEF Held, Running
    <2> QED
      BY <2>2, <2>3 DEF Inductive, SlotExclusive
  <1>3. /\ pc'[u] = "exec" /\ debt'[u] = epoch[t] /\ epoch[u] < epoch[t]
        /\ UNCHANGED <<epoch, rollbackFlag>>
    BY <1>0, <1>1 DEF Misread, Goto, locals
  <1>4. Obliged(u, epoch[t])'
    BY <1>0, <1>2, <1>3 DEF Obliged, Owes, Index
  <1>5. epoch[t] < first + EpochMax
    BY RunFacts DEF Misread, Goto, RunLabels
  <1> QED
    BY <1>1, <1>4, <1>5

\* A debt is settled by a rollback only.
LEMMA BodyObliged ==
  ASSUME Inductive, NEW t \in Thread, Body(t), NEW u \in Thread, NEW e \in Int, Obliged(u, e)
  PROVE  \/ u # t /\ Obliged(u, e)'
         \/ u = t /\ pc'[t] = "rollback" /\ start'[t] <= e
  <1>0. /\ pc \in [Thread -> Labels] /\ start \in [Thread -> Nat] /\ debt[u] \in Nat /\ BodyFrame(t)
    BY Types, BodySteps
  <1>1. CASE u # t
    <2>1. debt'[u] = debt[u]
      BY <1>0, <1>1 DEF BodyFrame, Misread, Obliged
    <2> QED
      BY <1>0, <1>1, <2>1 DEF BodyFrame, Obliged, Owes, Index
  <1>2. CASE u = t
    <2>1. PICK f \in epoch[t] + 1 .. epoch[t] + EpochMax - 1 : StartRollback(t, f)
      BY <1>2 DEF Obliged, Body, Return, MisreadLate, Fail, Misread, Undo, Publish, Goto
    <2>2. f <= debt[t] /\ pc'[t] = "rollback" /\ start'[t] = f /\ f \in Int
      BY <1>0, <1>2, <2>1, Types DEF StartRollback, Obliged, Goto
    <2> QED
      BY <1>0, <1>2, <2>2 DEF Obliged
  <1> QED
    BY <1>1, <1>2

\* What is doomed stays so.
LEMMA BodyDoomed ==
  ASSUME Inductive, NEW t \in Thread, Body(t), NEW e \in Int
  PROVE  /\ BoundDoomed(e) => BoundDoomed(e)'
         /\ Doomed(e) => Doomed(e)'
  <1>0. BodyFrame(t)
    BY BodySteps
  <1>1. ASSUME NEW u \in Thread, Obliged(u, e)
        PROVE  Reverts(u, e)' /\ Undoes(u, e)'
    BY <1>1, BodyObliged DEF Reverts, Undoes, BeforeStop, Rolling
  <1>2. ASSUME NEW u \in Thread, Reverts(u, e), ~Obliged(u, e)
        PROVE  Reverts(u, e)'
    BY <1>0, <1>2 DEF Reverts, BodyFrame, BeforeStop, Rolling
  <1>3. ASSUME NEW u \in Thread, Undoes(u, e), ~Obliged(u, e)
        PROVE  Undoes(u, e)'
    BY <1>0, <1>3 DEF Undoes, BodyFrame
  <1> QED
    BY <1>1, <1>2, <1>3 DEF BoundDoomed, Doomed

\* What the threads know holds after a step of the body too.
LEMMA BodyThread ==
  ASSUME Inductive, EndInv, ~LateBreaks, NEW t \in Thread, Body(t), NEW u \in Thread
  PROVE  EndThread(u)'
  <1>0. /\ pc \in [Thread -> Labels] /\ oldStop[u] \in Int /\ debt[u] \in Nat
        /\ epoch \in [Thread -> Nat] /\ LastEpoch \in Nat
        /\ BodyFrame(t) /\ EndThread(u) /\ EndThread(t)
    BY Types, BodySteps DEF EndInv
  <1>1. ASSUME debt'[u] # 0
        PROVE  pc'[u] = "exec" /\ epoch'[u] < debt'[u] /\ debt'[u] < first' + EpochMax
    <2>1. CASE u = t
      BY <1>0, <1>1, <2>1 DEF BodyFrame, EndThread
    <2>2. CASE u # t /\ debt'[u] = debt[u]
      BY <1>0, <1>1, <2>2 DEF BodyFrame, EndThread
    <2>3. CASE Misread(t, u)
      <3>1. /\ u # t /\ epoch[t] < first + EpochMax
            /\ pc[u] = "exec" /\ epoch[u] < epoch[t] /\ debt'[u] = epoch[t]
        <4>1. u # t /\ epoch[t] < first + EpochMax
          BY <2>3, MisreadObliges
        <4> QED
          BY <2>3, <4>1, Types DEF Misread
      <3> QED
        BY <1>0, <3>1 DEF BodyFrame
    <2> QED
      BY <1>0, <2>1, <2>2, <2>3 DEF BodyFrame
  <1>2. ASSUME BreaksByMistake(u)'
        PROVE  /\ \A v \in Thread : pc'[v] \notin Rolling
               /\ \E v \in Thread : Obliged(v, epoch[u])'
    <2>0. pc'[u] = "stop" /\ ~Breaks(u)
      BY <1>0, <1>2 DEF BreaksByMistake, Breaks, BodyFrame
    <2>1. CASE u = t
      <3>1. PICK v \in Thread : Misread(t, v)
        BY <1>0, <2>0, <2>1 DEF Body, Undo, Publish, StartRollback, Return, MisreadLate, Fail, Goto
      <3>2. \A w \in Thread : pc[w] \notin Rolling
        BY <2>0, <2>1, <3>1 DEF Misread
      <3>3. \A w \in Thread : pc'[w] \notin Rolling
        BY <1>0, <2>0, <2>1, <3>2 DEF BodyFrame, Rolling
      <3>4. Obliged(v, epoch[t])'
        BY <3>1, MisreadObliges
      <3> QED
        BY <2>1, <3>3, <3>4
    <2>2. CASE u # t
      <3>1. BreaksByMistake(u)
        BY <1>0, <2>0, <2>2 DEF BreaksByMistake, BodyFrame
      <3>2. pc'[t] # "rollback"
        BY <1>0, <3>1 DEF Body, StartRollback, Undo, Publish, Return, MisreadLate, Fail, Misread, Goto
      <3>3. \A w \in Thread : pc'[w] \notin Rolling
        <4> TAKE w \in Thread
        <4>1. CASE w = t
          BY <1>0, <3>2, <4>1 DEF BodyFrame, Rolling
        <4>2. CASE w # t
          BY <1>0, <3>1, <4>2 DEF BodyFrame, EndThread
        <4> QED
          BY <4>1, <4>2
      <3>4. PICK v \in Thread : Obliged(v, epoch[u])
        BY <1>0, <3>1 DEF EndThread
      <3>5. Obliged(v, epoch[u])'
        <4> DEFINE e == epoch[u]
        <4>1. e \in Int /\ Obliged(v, e) /\ e' = e
          BY <1>0, <3>4 DEF BodyFrame
        <4> HIDE DEF e
        <4>2. Obliged(v, e)'
          BY <3>2, <4>1, BodyObliged
        <4> QED
          BY <4>1, <4>2 DEF e, Obliged
      <3> QED
        BY <3>3, <3>5
    <2> QED
      BY <2>1, <2>2
  <1>3. ASSUME pc'[u] = "set_done", epoch[u] = LastEpoch, status[Index(LastEpoch)] = "executing"
        PROVE  Settled'
    <2>1. CASE u = t
      <3>1. Breaks(t)
        BY <1>0, <1>3, <2>1 DEF Breaks
      <3>2. PICK v \in Thread : Misread(t, v)
        BY <1>0, <1>3, <2>1, <3>1 DEF Body, Undo, Publish, StartRollback, Return, MisreadLate, Fail, Goto
      <3>3. Undoes(v, LastEpoch)'
        <4>1. Obliged(v, epoch[t])' /\ epoch'[t] = LastEpoch
          BY <1>0, <1>3, <2>1, <3>2, MisreadObliges DEF BodyFrame
        <4> QED
          BY <4>1 DEF Undoes, Obliged
      <3> QED
        BY <3>3 DEF Settled, Doomed
    <2>2. CASE u # t
      <3>1. Settled
        BY <1>0, <1>3, <2>2 DEF BodyFrame, EndThread, Settled
      <3> QED
        BY <1>0, <3>1, BodyDoomed DEF Settled, BodyFrame
    <2> QED
      BY <2>1, <2>2
  <1>4. ASSUME pc[u] = "next_stop"
        PROVE  BoundOK(oldStop[u])'
    <2> DEFINE e == oldStop[u] - 1
    <2>1. e \in Int /\ e' = e
      BY <1>0 DEF BodyFrame
    <2> HIDE DEF e
    <2>2. BoundDoomed(e) => BoundDoomed(e)'
      BY <2>1, BodyDoomed
    <2> QED
      BY <1>0, <1>4, <2>1, <2>2 DEF e, BodyFrame, EndThread, BoundOK
  <1>5. u # t => UNCHANGED <<pc[u], start[u]>>
    BY <1>0 DEF BodyFrame
  <1>6. pc'[t] \notin {"commit_cas", "next_stop", "exit", "update_stop_cas"} \cup RollTail
    BY <1>0 DEF BodyFrame, RollTail
  <1>7. UNCHANGED <<status, first, next, stop, epoch[u], cur[u], oldStop[u], newStop[u]>>
    BY <1>0 DEF BodyFrame
  <1> QED
    <2>1. pc'[u] = "set_done" /\ epoch'[u] = LastEpoch /\ status'[Index(LastEpoch)] = "executing" =>
            stop' = LastEpoch + 1 \/ Doomed(LastEpoch)'
      BY <1>3, <1>7 DEF Settled
    <2>2. pc'[u] = "next_stop" => BoundOK(oldStop[u])'
      BY <1>4, <1>5, <1>6
    <2>3. /\ pc'[u] = "commit_cas" => cur'[u] <= LastEpoch
          /\ pc'[u] = "exit" => first' = LastEpoch + 1
          /\ pc'[u] \in RollTail => next' <= start'[u]
          /\ pc'[u] = "rollback_stop_cas" => start'[u] < oldStop'[u] /\ newStop'[u] < first'
          /\ pc'[u] = "update_stop_cas" => oldStop'[u] < first' /\ newStop'[u] < first'
      BY <1>0, <1>5, <1>6, <1>7 DEF EndThread, RollTail
    <2> QED
      BY <1>1, <1>2, <2>1, <2>2, <2>3 DEF EndThread, Index

LEMMA BodyGlobal ==
  ASSUME Inductive, EndInv, NEW t \in Thread, Body(t)
  PROVE  EndGlobal'
  <1>0. stop \in Int /\ LastEpoch \in Nat /\ BodyFrame(t) /\ EndGlobal
    BY Types, BodySteps DEF EndInv
  <1>1. BoundOK(stop)'
    <2> DEFINE e == stop - 1
    <2>1. e \in Int /\ e' = e
      BY <1>0 DEF BodyFrame
    <2> HIDE DEF e
    <2>2. BoundDoomed(e) => BoundDoomed(e)'
      BY <2>1, BodyDoomed
    <2> QED
      BY <1>0, <2>1, <2>2 DEF e, BodyFrame, EndGlobal, BoundOK
  <1>2. Doomed(LastEpoch) => Doomed(LastEpoch)'
    BY <1>0, BodyDoomed
  <1> QED
    BY <1>0, <1>1, <1>2 DEF EndGlobal, BodyFrame, Index

-----------------------------------------------------------------------------
(* The invariant, and what follows from it.                                 *)

LEMMA InitEndInv == Init => EndInv
  <1> SUFFICES ASSUME Init PROVE EndInv
    OBVIOUS
  <1>1. /\ first = 0 /\ next = 0 /\ nextCommit = 0 /\ stop = -1 /\ debt = [t \in Thread |-> 0]
        /\ pc = [t \in Thread |-> "next"]
    BY DEF Init, EpochInit
  <1>2. EndGlobal
    BY <1>1, LastEpochAssumption DEF EndGlobal, BoundOK
  <1>3. ASSUME NEW t \in Thread PROVE EndThread(t)
    BY <1>1 DEF EndThread, BreaksByMistake, RollTail
  <1> QED
    BY <1>2, <1>3 DEF EndInv

LEMMA StepEndInv == Inductive /\ EndInv /\ ~LateBreaks /\ [Next]_vars => EndInv'
  <1> SUFFICES ASSUME Inductive, EndInv, ~LateBreaks, [Next]_vars PROVE EndInv'
    OBVIOUS
  <1>1. ASSUME NEW t \in Thread, Kernel(t)
        PROVE  EndInv'
    <2>1. EndGlobal'
      BY <1>1, KernelGlobal
    <2>2. ASSUME NEW u \in Thread PROVE EndThread(u)'
      BY <1>1, <2>1, OwnThread, OtherThread
    <2> QED
      BY <2>1, <2>2 DEF EndInv
  <1>2. ASSUME NEW t \in Thread, Body(t)
        PROVE  EndInv'
    BY <1>2, BodyGlobal, BodyThread DEF EndInv
  <1>3. ASSUME UNCHANGED <<status, cursors, rollbackFlag, stop, pc, locals, debt>>
        PROVE  EndInv'
    BY <1>3 DEF EndInv, EndGlobal, EndThread, BoundOK, BoundDoomed, Doomed, Reverts, Undoes, Obliged,
       Owes, BreaksByMistake, Breaks, Index, cursors, locals
  <1>4. (\E t \in Thread : SpuriousWakeup(t)) \/ Terminating \/ UNCHANGED vars =>
          UNCHANGED <<status, cursors, rollbackFlag, stop, pc, locals, debt>>
    BY DEF SpuriousWakeup, Terminating, vars, epochVars
  <1> QED
    BY <1>1, <1>2, <1>3, <1>4 DEF Next, Worker

LEMMA AlwaysEndInv ==
  ASSUME ~LateBreaks
  PROVE  Spec => [](Inductive /\ EndInv)
  <1>1. Init => Inductive /\ EndInv
    BY InitInductive, InitEndInv
  <1>2. Inductive /\ EndInv /\ [Next]_vars => (Inductive /\ EndInv)'
    BY StepInductive, StepEndInv
  <1> QED
    BY <1>1, <1>2, PTL DEF Spec

(* Whatever the interleaving of the workers, their misreads and rollbacks,  *)
(* no epoch after the break of the sequential loop is committed, and        *)
(* yarn_epoch_next tells a worker to leave only once every epoch up to it   *)
(* is committed (is_stop_set, yarn_epoch_stop, rollback_stop, update_stop). *)
THEOREM LoopEndsAtBreak ==
  ASSUME ~LateBreaks
  PROVE  Spec => []EndsAtBreak
  <1>1. EndInv => EndsAtBreak
    BY DEF EndInv, EndGlobal, EndThread, EndsAtBreak
  <1> QED
    BY <1>1, AlwaysEndInv, PTL

-----------------------------------------------------------------------------
(* The commits follow the abstract loop.                                    *)

Over == \A t \in Thread : pc[t] = "exit"

\* A worker that left stays away, and the last one leaves through NextFinish.
LEMMA OverSteps ==
  ASSUME Inductive, NEW t \in Thread, Kernel(t) \/ Body(t)
  PROVE  ~Over /\ (Over' => NextFinish(t))
  <1>1. CASE Kernel(t)
    <2>1. pc[t] # "exit"
      BY <1>1 DEF Kernel, NextEnter, NextLook, NextStall, NextFinish, NextClaim, NextMark, RollbackDone,
         RollbackLock, RollbackEnter, RollbackSkip, RollbackStatus, RollbackFlag, RollbackNext,
         RollbackStopKeep, RollbackStopRead, RollbackStopCas, RollbackExit, Stop, SetDone, GetCommit,
         GetCommitNone, GetCommitCheck, GetCommitCas, CommitDone, FirstRead, FirstCheck, FirstCas,
         UpdateStopKeep, UpdateStopRead, UpdateStopCas, StopCas, Signal, Goto
    <2> QED
      BY <1>1, <2>1, Arrivals DEF Over
  <1>2. CASE Body(t)
    BY <1>2, BodySteps DEF BodyFrame, Over
  <1> QED
    BY <1>1, <1>2

\* Every step of epoch.c is one of the abstract loop, or changes nothing of it.
LEMMA TimelineStep ==
  ASSUME Inductive, EndInv, NEW t \in Thread, Kernel(t), EndInv'
  PROVE  [Abstract!Next]_(Abstract!vars)
  <1>0. /\ first \in Nat /\ nextCommit \in Nat /\ next \in Nat /\ EpochMax \in Nat /\ cur[t] \in Nat
        /\ next <= first + EpochMax /\ LastEpoch \in Nat /\ Frame(t)
        /\ ~Over /\ (Over' => NextFinish(t))
    BY Types, KernelFrame, OverSteps
  <1> USE DEF Abstract!Next, Abstract!vars, Over
  <1>1. CASE GetCommitCas(t) /\ nextCommit = cur[t]
    <2>1. pc[t] = "commit_cas" /\ UNCHANGED first /\ nextCommit' = nextCommit + 1 /\ ~NextFinish(t)
      BY <1>1 DEF GetCommitCas, NextFinish, Goto
    <2>2. nextCommit <= LastEpoch /\ nextCommit < next
      BY <1>1, <2>1, CommitFacts DEF EndInv, EndThread
    <2>3. nextCommit < first + EpochMax
      BY <1>0, <2>2
    <2> QED
      BY <1>0, <2>1, <2>2, <2>3 DEF Abstract!Claim
  <1>2. CASE FirstCas(t) /\ first = cur[t]
    <2>1. /\ pc[t] = "first_cas" /\ UNCHANGED nextCommit /\ first' = first + 1 /\ ~NextFinish(t)
          /\ first < nextCommit
      BY <1>2, CommitFacts DEF FirstCas, NextFinish, Goto
    <2> QED
      BY <1>0, <2>1 DEF Abstract!Retire
  <1>3. CASE NextFinish(t)
    <2>1. UNCHANGED <<first, nextCommit>>
      BY <1>3 DEF NextFinish, cursors
    <2>2. Over' => first' = LastEpoch + 1
      BY DEF EndInv, EndThread
    <2> QED
      BY <1>0, <2>1, <2>2 DEF Abstract!Finish
  <1>4. CASE ~(GetCommitCas(t) /\ nextCommit = cur[t]) /\ ~(FirstCas(t) /\ first = cur[t]) /\ ~NextFinish(t)
    <2>1. UNCHANGED <<first, nextCommit>>
      BY <1>0, <1>4 DEF Frame
    <2> QED
      BY <1>0, <1>4, <2>1
  <1> QED
    BY <1>1, <1>2, <1>3, <1>4

(* The ring of epochs implements the safety part of the abstract loop of    *)
(* Timeline: iterations are claimed and retired in order, at most one turn  *)
(* of the ring apart, none after the one that breaks, and the loop is over  *)
(* when that one is retired.                                                *)
THEOREM FollowsTimeline ==
  ASSUME ~LateBreaks
  PROVE  Spec => Abstract!Init /\ [][Abstract!Next]_(Abstract!vars)
  <1>1. Init => Abstract!Init
    BY ThreadAssumption DEF Init, EpochInit, Abstract!Init
  <1>2. /\ Inductive /\ EndInv
        /\ (Inductive /\ EndInv)'
        /\ [Next]_vars
        => [Abstract!Next]_(Abstract!vars)
    <2> SUFFICES ASSUME Inductive, EndInv, EndInv', [Next]_vars
                 PROVE  [Abstract!Next]_(Abstract!vars)
      OBVIOUS
    <2>1. ASSUME NEW t \in Thread, Kernel(t) PROVE [Abstract!Next]_(Abstract!vars)
      BY <2>1, TimelineStep
    <2>2. ASSUME NEW t \in Thread, Body(t) PROVE [Abstract!Next]_(Abstract!vars)
      BY <2>2, BodySteps, OverSteps DEF BodyFrame, NextFinish, Goto, Over, Abstract!vars
    <2>3. CASE (\E t \in Thread : SpuriousWakeup(t)) \/ Terminating \/ UNCHANGED vars
      BY <2>3 DEF SpuriousWakeup, Terminating, vars, epochVars, cursors, Abstract!vars
    <2> QED
      BY <2>1, <2>2, <2>3 DEF Next, Worker
  <1> QED
    BY <1>1, <1>2, AlwaysEndInv, PTL DEF Spec

-----------------------------------------------------------------------------
(* How far the bound lags behind the commits.  This holds whether or not a  *)
(* break by mistake overlaps a rollback.                                    *)

\* A committed epoch that is not retired yet is being committed, or somebody is
\* about to retire the oldest one.
Committers ==
  \A e \in first .. nextCommit - 1 :
    status[Index(e)] = "done" => \E t \in Thread : Committing(t) /\ cur[t] = e

Retires(t) ==
  \/ pc[t] \in {"first", "first_cas"}
  \/ pc[t] = "first_check" /\ cur[t] = first

Retirers ==
  first < nextCommit /\ status[Index(first)] = "commit" => \E t \in Thread : Retires(t)

\* What rollback_stop and update_stop are about to write.
NewStops ==
  \A t \in Thread :
    /\ pc[t] = "rollback_stop_cas" => newStop[t] < first /\ epoch[t] <= newStop[t] + EpochMax
    /\ pc[t] = "update_stop_cas" => oldStop[t] <= newStop[t] /\ newStop[t] < first

\* The threads in yarn_epoch_commit_done that do not leave it with a bound of s.
Late == {"publish", "commit_done", "first", "first_check", "first_cas", "update_stop",
         "update_stop_cas"}

Raisers(s) == {t \in Thread : pc[t] \in Late /\ (pc[t] = "update_stop_cas" => s < newStop[t])}

\* The commits outrun the bound by one turn of the ring, and by one epoch for each
\* thread that is going to raise it.
Lag == \A s \in stop .. first - 1 : nextCommit <= s + EpochMax + Cardinality(Raisers(s))

StopInv == Committers /\ Retirers /\ NewStops /\ stop <= first + EpochMax /\ Lag

LEMMA KernelCommitters ==
  ASSUME Inductive, StopInv, NEW t \in Thread, Kernel(t)
  PROVE  Committers'
  <1> SUFFICES ASSUME NEW e \in first' .. nextCommit' - 1, status'[Index(e)] = "done"
               PROVE  \E u \in Thread : Committing(u)' /\ cur'[u] = e
    BY DEF Committers, Index
  <1>0. /\ first \in Nat /\ nextCommit \in Nat /\ EpochMax \in Nat /\ next <= first + EpochMax
        /\ nextCommit <= next /\ next \in Nat
        /\ pc \in [Thread -> Labels] /\ cur \in [Thread -> Nat] /\ epoch \in [Thread -> Nat]
        /\ status \in [Slot -> Status] /\ Frame(t) /\ Committers
    BY Types, KernelFrame DEF StopInv
  <1>1. /\ e \in Nat /\ first <= e /\ Index(e) \in Slot
        /\ e < nextCommit \/ (GetCommitCas(t) /\ nextCommit = cur[t] /\ e = nextCommit)
    <2>1. first' = first \/ first' = first + 1
      BY <1>0 DEF Frame, FirstCas
    <2>2. nextCommit' = nextCommit
          \/ (GetCommitCas(t) /\ nextCommit = cur[t] /\ nextCommit' = nextCommit + 1)
      BY <1>0 DEF Frame, GetCommitCas
    <2>3. first \in Nat /\ nextCommit \in Nat
      BY <1>0
    <2>4. e \in Nat /\ first <= e
      BY <2>1, <2>2, <2>3
    <2>5. e < nextCommit \/ (GetCommitCas(t) /\ nextCommit = cur[t] /\ e = nextCommit)
      BY <2>2, <2>3, <2>4
    <2> QED
      BY <2>4, <2>5, IndexType
  <1>2. CASE GetCommitCas(t) /\ nextCommit = cur[t] /\ e = nextCommit
    BY <1>0, <1>2 DEF GetCommitCas, Goto, Committing, locals
  <1>3. CASE ~(GetCommitCas(t) /\ nextCommit = cur[t] /\ e = nextCommit)
    <2>1. e < nextCommit
      BY <1>1, <1>3
    <2>2. status[Index(e)] = "done"
      <3>1. CASE SetDone(t) /\ Index(epoch[t]) = Index(e)
        <4>1. nextCommit <= epoch[t] /\ epoch[t] < first + EpochMax /\ epoch[t] \in Nat /\ first <= epoch[t]
          BY <1>0, <3>1, RunFacts DEF SetDone, Goto, RunLabels
        <4> QED
          BY <1>0, <1>1, <2>1, <3>1, <4>1, SameSlot
      <3>2. CASE ~(SetDone(t) /\ Index(epoch[t]) = Index(e))
        BY <1>0, <1>1, <3>2 DEF Frame, NextMark, RollbackStatus, SetDone, CommitDone
      <3> QED
        BY <3>1, <3>2
    <2>3. PICK u \in Thread : Committing(u) /\ cur[u] = e
      BY <1>0, <1>1, <2>1, <2>2 DEF Committers
    <2>4. CASE u # t
      BY <1>0, <2>3, <2>4 DEF Frame, Committing
    <2>5. CASE u = t
      <3>1. CommitDone(t)
        BY <2>3, <2>5 DEF Committing, Kernel, NextEnter, NextLook, NextStall, NextFinish, NextClaim,
           NextMark, RollbackDone, RollbackLock, RollbackEnter, RollbackSkip, RollbackStatus, RollbackFlag,
           RollbackNext, RollbackStopKeep, RollbackStopRead, RollbackStopCas, RollbackExit, Stop, SetDone,
           GetCommit, GetCommitNone, GetCommitCheck, GetCommitCas, FirstRead, FirstCheck, FirstCas,
           UpdateStopKeep, UpdateStopRead, UpdateStopCas, StopCas, Signal, Goto
      <3> QED
        BY <1>0, <1>1, <2>3, <2>5, <3>1 DEF CommitDone
    <2> QED
      BY <2>4, <2>5
  <1> QED
    BY <1>2, <1>3

LEMMA KernelRetirers ==
  ASSUME Inductive, StopInv, NEW t \in Thread, Kernel(t)
  PROVE  Retirers'
  <1> SUFFICES ASSUME first' < nextCommit', status'[Index(first')] = "commit"
               PROVE  \E u \in Thread : Retires(u)'
    BY DEF Retirers, Index
  <1>0. /\ first \in Nat /\ nextCommit \in Nat /\ first <= nextCommit /\ Index(first) \in Slot
        /\ pc \in [Thread -> Labels] /\ cur \in [Thread -> Nat]
        /\ status \in [Slot -> Status] /\ Frame(t) /\ Retirers
    BY Types, KernelFrame, IndexType DEF StopInv
  <1>1. CASE FirstCas(t) \/ CommitDone(t)
    BY <1>0, <1>1 DEF FirstCas, CommitDone, Goto, Retires
  <1>2. CASE ~FirstCas(t) /\ ~CommitDone(t)
    <2>1. first' = first
      BY <1>0, <1>2 DEF Frame
    <2>2. status[Index(first)] = "commit"
      BY <1>0, <1>2, <2>1 DEF Frame, NextMark, RollbackStatus, SetDone
    <2>3. first < nextCommit
      <3>1. GetCommitCas(t) /\ nextCommit = cur[t] => status[Index(nextCommit)] = "done"
        BY CommitFacts DEF GetCommitCas, Goto
      <3> QED
        BY <1>0, <2>1, <2>2, <3>1 DEF Frame
    <2>4. PICK u \in Thread : Retires(u)
      BY <1>0, <2>2, <2>3 DEF Retirers
    <2>5. CASE u # t
      BY <1>0, <2>1, <2>4, <2>5 DEF Frame, Retires
    <2>6. CASE u = t
      <3>0. pc[t] = "first" \/ (pc[t] = "first_check" /\ cur[t] = first) \/ pc[t] = "first_cas"
        BY <2>4, <2>6 DEF Retires
      <3>1. FirstRead(t) \/ FirstCheck(t)
        BY <1>2, <3>0 DEF Kernel, NextEnter, NextLook, NextStall, NextFinish, NextClaim,
           NextMark, RollbackDone, RollbackLock, RollbackEnter, RollbackSkip, RollbackStatus, RollbackFlag,
           RollbackNext, RollbackStopKeep, RollbackStopRead, RollbackStopCas, RollbackExit, Stop, SetDone,
           GetCommit, GetCommitNone, GetCommitCheck, GetCommitCas,
           UpdateStopKeep, UpdateStopRead, UpdateStopCas, StopCas, Signal, Goto
      <3>2. CASE FirstRead(t)
        BY <1>0, <2>1, <3>2 DEF FirstRead, Goto, Retires
      <3>3. CASE FirstCheck(t)
        BY <1>0, <2>1, <2>2, <2>3, <3>0, <3>3 DEF FirstCheck, Goto, Retires
      <3> QED
        BY <3>1, <3>2, <3>3
    <2> QED
      BY <2>5, <2>6
  <1> QED
    BY <1>1, <1>2

LEMMA KernelNewStops ==
  ASSUME Inductive, StopInv, NEW t \in Thread, Kernel(t)
  PROVE  NewStops' /\ stop' <= first' + EpochMax
  <1>0. /\ first \in Nat /\ EpochMax \in Nat /\ stop \in Int
        /\ pc \in [Thread -> Labels] /\ epoch \in [Thread -> Nat]
        /\ oldStop \in [Thread -> Int] /\ newStop \in [Thread -> Int]
        /\ Frame(t) /\ NewStops /\ stop <= first + EpochMax
    BY Types, KernelFrame DEF StopInv
  <1>1. first' = first \/ first' = first + 1
    BY <1>0 DEF Frame, FirstCas
  <1>2. ASSUME NEW u \in Thread, u # t
        PROVE  /\ pc'[u] = "rollback_stop_cas" => newStop'[u] < first' /\ epoch'[u] <= newStop'[u] + EpochMax
               /\ pc'[u] = "update_stop_cas" => oldStop'[u] <= newStop'[u] /\ newStop'[u] < first'
    BY <1>0, <1>1, <1>2 DEF Frame, NewStops
  <1>3. ASSUME pc'[t] = "rollback_stop_cas"
        PROVE  newStop'[t] < first' /\ epoch'[t] <= newStop'[t] + EpochMax
    <2>1. /\ pc[t] = "rollback_stop" /\ newStop' = [newStop EXCEPT ![t] = first - 1]
          /\ UNCHANGED <<first, epoch>>
      BY <1>3, Arrivals DEF RollbackStopRead, Goto, cursors
    <2>2. epoch[t] < first + EpochMax
      BY <2>1, RunFacts DEF RunLabels, Rolling
    <2> QED
      BY <1>0, <2>1, <2>2
  <1>4. ASSUME pc'[t] = "update_stop_cas"
        PROVE  oldStop'[t] <= newStop'[t] /\ newStop'[t] < first'
    BY <1>0, <1>4, Arrivals DEF UpdateStopRead, IsStopSet, cursors
  <1>5. stop' <= first' + EpochMax
    <2>0. first \in Int /\ EpochMax \in Nat /\ stop \in Int /\ stop <= first + EpochMax
      BY <1>0
    <2>1. CASE stop' = stop
      BY <1>1, <2>0, <2>1
    <2>2. CASE Stop(t)
      <3>1. epoch[t] < first + EpochMax /\ (stop' = stop \/ stop' = epoch[t] + 1)
        BY <2>2, RunFacts DEF Stop, Goto, RunLabels
      <3>2. epoch[t] \in Nat
        BY <1>0
      <3> QED
        BY <1>1, <2>0, <3>1, <3>2
    <2>3. CASE (RollbackStopCas(t) \/ UpdateStopCas(t)) /\ stop' = newStop[t]
      <3>1. newStop[t] < first
        BY <1>0, <2>3 DEF RollbackStopCas, UpdateStopCas, StopCas, Goto, NewStops
      <3> QED
        BY <1>0, <1>1, <2>3, <3>1
    <2> QED
      BY <1>0, <2>1, <2>2, <2>3 DEF Frame
  <1> QED
    BY <1>2, <1>3, <1>4, <1>5 DEF NewStops

\* The threads are finitely many.
LEMMA ThreadCount ==
  ASSUME IsFiniteSet(Thread), NEW S \in SUBSET Thread
  PROVE  /\ IsFiniteSet(S) /\ Cardinality(S) \in Nat
         /\ Cardinality(S) <= Cardinality(Thread)
         /\ \A R \in SUBSET S : Cardinality(R) \in Nat /\ Cardinality(R) <= Cardinality(S)
         /\ S # {} => 1 <= Cardinality(S)
         /\ \A t \in Thread \ S : Cardinality(S \cup {t}) = Cardinality(S) + 1
  <1>1. IsFiniteSet(S) /\ Cardinality(S) <= Cardinality(Thread)
    BY FS_Subset
  <1>2. Cardinality(S) \in Nat
    BY <1>1, FS_CardinalityType
  <1>3. \A R \in SUBSET S : Cardinality(R) \in Nat /\ Cardinality(R) <= Cardinality(S)
    BY <1>1, FS_Subset, FS_CardinalityType
  <1>4. S # {} => 1 <= Cardinality(S)
    BY <1>1, <1>2, FS_EmptySet
  <1>5. \A t \in Thread \ S : Cardinality(S \cup {t}) = Cardinality(S) + 1
    BY <1>1, FS_AddElement
  <1> QED
    BY <1>1, <1>2, <1>3, <1>4, <1>5

\* A thread that is going to raise the bound goes on.
LEMMA RaisersStay ==
  ASSUME Inductive, StopInv, NEW t \in Thread, Kernel(t), NEW s \in Int, t \in Raisers(s)
  PROVE  t \in Raisers(s)' \/ UpdateStopKeep(t) \/ UpdateStopRead(t)
         \/ (UpdateStopCas(t) /\ stop = oldStop[t])
  <1>0. pc \in [Thread -> Labels]
    BY Types
  <1>1. pc[t] \in Late
    BY DEF Raisers
  <1> USE DEF Goto, Late
  <1>2. CASE GetCommit(t) \/ GetCommitNone(t) \/ GetCommitCheck(t) \/ GetCommitCas(t) \/ CommitDone(t)
             \/ FirstRead(t) \/ FirstCheck(t) \/ FirstCas(t)
    BY <1>0, <1>1, <1>2 DEF GetCommit, GetCommitNone, GetCommitCheck, GetCommitCas, CommitDone,
       FirstRead, FirstCheck, FirstCas, Raisers
  <1>3. CASE UpdateStopCas(t)
    BY <1>0, <1>3 DEF UpdateStopCas, StopCas, Raisers
  <1> QED
    BY <1>1, <1>2, <1>3 DEF Kernel, NextEnter, NextLook, NextStall, NextFinish, NextClaim, NextMark,
       RollbackDone, RollbackLock, RollbackEnter, RollbackSkip, RollbackStatus, RollbackFlag, RollbackNext,
       RollbackStopKeep, RollbackStopRead, RollbackStopCas, StopCas, RollbackExit, Stop, SetDone, Signal

\* So do the others.
LEMMA OthersStay ==
  ASSUME NEW t \in Thread, Frame(t), NEW s \in Int
  PROVE  Raisers(s) \ {t} \subseteq Raisers(s)'
  BY DEF Frame, Raisers

\* An epoch that is committed has a thread to retire it.
LEMMA SomebodyRetires ==
  ASSUME Inductive, StopInv, first < nextCommit
  PROVE  \E t \in Thread : pc[t] \in Late \ {"update_stop", "update_stop_cas"}
  <1>1. first \in Nat /\ nextCommit \in Nat /\ first \in first .. nextCommit - 1
    BY Types
  <1>2. status[Index(first)] \in {"done", "commit"}
    BY <1>1 DEF Inductive, CommittedInv
  <1>3. (\E t \in Thread : Committing(t)) \/ (\E t \in Thread : Retires(t))
    BY <1>1, <1>2 DEF StopInv, Committers, Retirers
  <1> QED
    BY <1>3 DEF Committing, Retires, Late

LEMMA KernelLag ==
  ASSUME IsFiniteSet(Thread), Inductive, StopInv, NEW t \in Thread, Kernel(t)
  PROVE  Lag'
  <1> SUFFICES ASSUME NEW s \in stop' .. first' - 1
               PROVE  nextCommit' <= s + EpochMax + Cardinality(Raisers(s)')
    BY DEF Lag, Raisers
  <1>0. /\ first \in Nat /\ nextCommit \in Nat /\ EpochMax \in Nat /\ stop \in Int /\ next \in Nat
        /\ first <= nextCommit /\ nextCommit <= next /\ next <= first + EpochMax
    BY Types
  <1>1. /\ pc \in [Thread -> Labels] /\ newStop[t] \in Int /\ oldStop[t] \in Int /\ epoch[t] \in Nat
        /\ cur[t] \in Nat /\ newStop \in [Thread -> Int] /\ Frame(t)
    BY Types, KernelFrame
  <1>2. first' = first \/ (FirstCas(t) /\ first = cur[t] /\ first' = first + 1)
    BY <1>1 DEF Frame, FirstCas
  <1>3. s \in Int /\ s < first' /\ stop' <= s
    <2>1. first' \in Int /\ stop' \in Int
      BY <1>0, <1>1, <1>2 DEF Frame, Stop
    <2>2. \A a, b \in Int : s \in a .. b - 1 => s \in Int /\ s < b /\ a <= s
      OBVIOUS
    <2> QED
      BY <2>1, <2>2
  <1>4. /\ Raisers(s) \in SUBSET Thread /\ Raisers(s)' \in SUBSET Thread
        /\ Cardinality(Raisers(s)) \in Nat /\ Cardinality(Raisers(s)') \in Nat
    <2>1. Raisers(s) \in SUBSET Thread /\ Raisers(s)' \in SUBSET Thread
      BY DEF Raisers
    <2> QED
      BY <2>1, ThreadCount
  <1>5. CASE nextCommit' <= s + EpochMax
    BY <1>0, <1>1, <1>3, <1>4, <1>5 DEF Frame, GetCommitCas
  <1>6. CASE FirstCas(t) /\ first' # first /\ s = first
    <2>1. nextCommit' = nextCommit
      BY <1>6 DEF FirstCas
    <2> QED
      BY <1>0, <1>5, <1>6, <2>1
  <1>7. CASE RollbackStopCas(t) /\ stop = oldStop[t]
    <2>1. /\ pc[t] = "rollback_stop_cas" /\ stop' = newStop[t] /\ nextCommit' = nextCommit
      BY <1>7 DEF RollbackStopCas, StopCas, Goto, cursors
    <2>2. nextCommit <= epoch[t] /\ epoch[t] <= newStop[t] + EpochMax
      BY <2>1, RunFacts DEF RunLabels, Rolling, StopInv, NewStops
    <2> QED
      BY <1>0, <1>1, <1>3, <1>5, <2>1, <2>2
  <1>8. CASE Stop(t) /\ stop' # stop
    <2>1. stop' = epoch[t] + 1 /\ first <= epoch[t] /\ first' = first
      BY <1>8, RunFacts DEF Stop, Goto, RunLabels, cursors
    <2> QED
      BY <1>0, <1>1, <1>3, <2>1
  <1>9. CASE UpdateStopRead(t)
    <2>1. /\ pc[t] = "update_stop" /\ pc'[t] = "update_stop_cas" /\ newStop'[t] = first - 1
          /\ UNCHANGED <<first, nextCommit, stop>>
      BY <1>1, <1>9 DEF UpdateStopRead, Goto, cursors
    <2>2. CASE s < first - 1
      <3>1. t \in Raisers(s)'
        BY <2>1, <2>2 DEF Raisers, Late
      <3>2. Raisers(s) \subseteq Raisers(s)'
        BY <1>1, <1>3, <3>1, OthersStay
      <3>3. Cardinality(Raisers(s)) <= Cardinality(Raisers(s)')
        BY <1>4, <3>2, ThreadCount
      <3>4. nextCommit <= s + EpochMax + Cardinality(Raisers(s))
        BY <1>0, <1>3, <2>1 DEF StopInv, Lag
      <3> QED
        BY <1>0, <1>3, <1>4, <2>1, <3>3, <3>4
    <2>3. CASE s = first - 1 /\ nextCommit = first + EpochMax
      <3>1. EpochMax # 0
        BY EpochMaxAssumption
      <3>2. PICK u \in Thread : pc[u] \in Late \ {"update_stop", "update_stop_cas"}
        BY <1>0, <2>3, <3>1, SomebodyRetires
      <3>3. u \in Raisers(s)'
        <4>1. u # t /\ u \in Raisers(s)
          BY <2>1, <3>2 DEF Raisers
        <4> QED
          BY <1>1, <1>3, <4>1, OthersStay
      <3>4. 1 <= Cardinality(Raisers(s)')
        BY <1>4, <3>3, ThreadCount
      <3> QED
        BY <1>0, <1>4, <2>1, <2>3, <3>4
    <2>4. CASE s = first - 1 /\ nextCommit # first + EpochMax
      <3>1. nextCommit <= s + EpochMax
        BY <1>0, <2>4
      <3> QED
        BY <1>5, <2>1, <3>1
    <2> QED
      BY <1>0, <1>3, <2>1, <2>2, <2>3, <2>4
  <1>10. CASE /\ ~(FirstCas(t) /\ first' # first /\ s = first) /\ ~(RollbackStopCas(t) /\ stop = oldStop[t])
              /\ ~(Stop(t) /\ stop' # stop) /\ ~UpdateStopRead(t)
    <2>1. stop <= s /\ s < first
      <3>1. stop' = stop \/ (stop' = newStop[t] /\ stop <= newStop[t])
        BY <1>1, <1>10 DEF Frame, UpdateStopCas, StopCas, Goto, StopInv, NewStops
      <3>2. stop <= s
        BY <1>0, <1>1, <1>3, <3>1
      <3> QED
        BY <1>0, <1>2, <1>3, <1>10, <3>2
    <2>2. nextCommit <= s + EpochMax + Cardinality(Raisers(s))
      BY <1>0, <1>3, <2>1 DEF StopInv, Lag
    <2>3. Raisers(s) \subseteq Raisers(s)'
      <3> SUFFICES ASSUME t \in Raisers(s) PROVE t \in Raisers(s)'
        BY <1>1, <1>3, OthersStay
      <3>1. ~UpdateStopKeep(t)
        BY <1>0, <1>3, <2>1 DEF UpdateStopKeep, IsStopSet
      <3>2. ~(UpdateStopCas(t) /\ stop = oldStop[t])
        <4> SUFFICES ASSUME UpdateStopCas(t), stop = oldStop[t] PROVE FALSE
          OBVIOUS
        <4>1. pc[t] = "update_stop_cas" /\ stop' = newStop[t]
          BY DEF UpdateStopCas, StopCas, Goto
        <4>2. s < newStop[t]
          BY <4>1 DEF Raisers
        <4> QED
          BY <1>1, <1>3, <4>1, <4>2
      <3> QED
        BY <1>3, <1>10, <3>1, <3>2, RaisersStay
    <2>4. CASE nextCommit' = nextCommit
      <3>1. Cardinality(Raisers(s)) <= Cardinality(Raisers(s)')
        BY <1>4, <2>3, ThreadCount
      <3> QED
        BY <1>0, <1>3, <1>4, <2>2, <2>4, <3>1
    <2>5. CASE GetCommitCas(t) /\ nextCommit = cur[t]
      <3>1. pc[t] = "commit_cas" /\ pc'[t] = "publish" /\ nextCommit' = nextCommit + 1
        BY <1>1, <2>5 DEF GetCommitCas, Goto
      <3>2. t \notin Raisers(s) /\ t \in Raisers(s)'
        BY <3>1 DEF Raisers, Late
      <3>3. Raisers(s) \cup {t} \in SUBSET Raisers(s)'
        BY <2>3, <3>2
      <3>4. Cardinality(Raisers(s) \cup {t}) = Cardinality(Raisers(s)) + 1
        BY <1>4, <3>2, ThreadCount
      <3>5. Cardinality(Raisers(s) \cup {t}) <= Cardinality(Raisers(s)')
        BY <1>4, <3>3, ThreadCount
      <3> QED
        BY <1>0, <1>3, <1>4, <2>2, <3>1, <3>4, <3>5
    <2> QED
      BY <1>1, <2>4, <2>5 DEF Frame
  <1> QED
    BY <1>6, <1>7, <1>8, <1>9, <1>10

LEMMA BodyStopInv ==
  ASSUME Inductive, StopInv, NEW t \in Thread, Body(t)
  PROVE  StopInv'
  <1>0. /\ pc \in [Thread -> Labels] /\ stop \in Int /\ first \in Nat
        /\ BodyFrame(t) /\ Committers /\ Retirers /\ NewStops /\ stop <= first + EpochMax /\ Lag
    BY Types, BodySteps DEF StopInv
  <1>1. /\ UNCHANGED <<status, first, next, nextCommit, stop, epoch, cur, oldStop, newStop>>
        /\ \A u \in Thread : u # t => pc'[u] = pc[u]
    BY <1>0 DEF BodyFrame
  <1>2. (pc[t] = "publish" /\ pc'[t] = "commit_done") \/ (pc[t] \notin Late /\ pc'[t] \notin Late)
    BY <1>0 DEF Body, Undo, Publish, StartRollback, Return, MisreadLate, Fail, Misread, Goto, Late
  <1>3. \A u \in Thread : (Committing(u) => Committing(u)') /\ (Retires(u) => Retires(u)')
    BY <1>1, <1>2 DEF Committing, Retires, Late
  <1>4. \A s : Raisers(s)' = Raisers(s)
    BY <1>1, <1>2 DEF Raisers, Late
  <1>5. Committers'
    BY <1>0, <1>1, <1>3 DEF Committers, Index
  <1>6. Retirers'
    BY <1>0, <1>1, <1>3 DEF Retirers, Index
  <1>7. NewStops'
    <2> SUFFICES ASSUME NEW u \in Thread
                 PROVE  /\ pc'[u] = "rollback_stop_cas" =>
                             newStop'[u] < first' /\ epoch'[u] <= newStop'[u] + EpochMax
                        /\ pc'[u] = "update_stop_cas" => oldStop'[u] <= newStop'[u] /\ newStop'[u] < first'
      BY DEF NewStops
    <2>1. pc'[u] \in {"rollback_stop_cas", "update_stop_cas"} => pc'[u] = pc[u]
      BY <1>0, <1>1 DEF BodyFrame
    <2> QED
      BY <1>0, <1>1, <2>1 DEF NewStops
  <1>8. Lag'
    BY <1>0, <1>1, <1>4 DEF Lag
  <1> QED
    BY <1>0, <1>1, <1>5, <1>6, <1>7, <1>8 DEF StopInv

LEMMA InitStopInv == Init => StopInv
  <1> SUFFICES ASSUME Init PROVE StopInv
    OBVIOUS
  <1>1. first = 0 /\ nextCommit = 0 /\ stop = -1 /\ pc = [t \in Thread |-> "next"]
    BY DEF Init, EpochInit
  <1>2. \A s : Raisers(s) = {}
    BY <1>1 DEF Raisers, Late
  <1>3. Lag
    <2> SUFFICES ASSUME NEW s \in stop .. first - 1
                 PROVE  nextCommit <= s + EpochMax + Cardinality(Raisers(s))
      BY DEF Lag
    <2>1. s = -1
      BY <1>1
    <2>2. Cardinality(Raisers(s)) = 0
      BY <1>2, FS_EmptySet
    <2>3. EpochMax \in Nat /\ EpochMax >= 1
      BY EpochMaxAssumption
    <2> QED
      BY <1>1, <2>1, <2>2, <2>3
  <1> QED
    <2>1. EpochMax \in Nat
      BY EpochMaxAssumption
    <2> QED
      BY <1>1, <1>3, <2>1 DEF StopInv, Committers, Retirers, NewStops

LEMMA StepStopInv == IsFiniteSet(Thread) /\ Inductive /\ StopInv /\ [Next]_vars => StopInv'
  <1> SUFFICES ASSUME IsFiniteSet(Thread), Inductive, StopInv, [Next]_vars PROVE StopInv'
    OBVIOUS
  <1>1. ASSUME NEW t \in Thread, Kernel(t)
        PROVE  StopInv'
    BY <1>1, KernelCommitters, KernelRetirers, KernelNewStops, KernelLag DEF StopInv
  <1>2. ASSUME NEW t \in Thread, Body(t)
        PROVE  StopInv'
    BY <1>2, BodyStopInv
  <1>3. ASSUME UNCHANGED <<status, cursors, stop, pc, locals>>
        PROVE  StopInv'
    BY <1>3 DEF StopInv, Committers, Retirers, NewStops, Lag, Raisers, Retires, Committing, Index, cursors,
       locals
  <1>4. (\E t \in Thread : SpuriousWakeup(t)) \/ Terminating \/ UNCHANGED vars =>
          UNCHANGED <<status, cursors, stop, pc, locals>>
    BY DEF SpuriousWakeup, Terminating, vars, epochVars
  <1> QED
    BY <1>1, <1>2, <1>3, <1>4 DEF Next, Worker

(* g_epoch_stop lags behind g_epoch_first by at most one turn of the ring   *)
(* and one epoch for each thread, and is never ahead by more than one turn, *)
(* however long the loop runs, also while breaks by mistake and rollbacks   *)
(* move it: what update_stop is there for (epoch.c:296-299).                *)
THEOREM StopStaysNear ==
  ASSUME IsFiniteSet(Thread)
  PROVE  Spec => []StopNearFirst
  <1>1. Inductive /\ StopInv => StopNearFirst
    <2> SUFFICES ASSUME Inductive, StopInv PROVE StopNearFirst
      OBVIOUS
    <2>0. /\ first \in Nat /\ nextCommit \in Nat /\ EpochMax \in Nat /\ stop \in Int
          /\ first <= nextCommit /\ stop <= first + EpochMax
      BY Types DEF StopInv
    <2>1. Cardinality(Thread) \in Nat
      BY FS_CardinalityType
    <2>2. CASE stop < first
      <3>1. nextCommit <= stop + EpochMax + Cardinality(Raisers(stop))
        BY <2>0, <2>2 DEF StopInv, Lag
      <3>2. Raisers(stop) \in SUBSET Thread
        BY DEF Raisers
      <3>3. Cardinality(Raisers(stop)) \in Nat /\ Cardinality(Raisers(stop)) <= Cardinality(Thread)
        BY <3>2, ThreadCount
      <3> QED
        BY <2>0, <2>1, <3>1, <3>3 DEF StopNearFirst
    <2>3. CASE ~(stop < first)
      BY <2>0, <2>1, <2>3 DEF StopNearFirst
    <2> QED
      BY <2>2, <2>3
  <1>2. Init => Inductive /\ StopInv
    BY InitInductive, InitStopInv
  <1>3. Inductive /\ StopInv /\ [Next]_vars => (Inductive /\ StopInv)'
    BY StepInductive, StepStopInv
  <1> QED
    BY <1>1, <1>2, <1>3, PTL DEF Spec
=============================================================================
