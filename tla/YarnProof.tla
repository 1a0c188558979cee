------------------------------ MODULE YarnProof ------------------------------
(***************************************************************************)
(* The workers of the module Yarn use the ring of epochs as the module     *)
(* EpochClient allows, so what is proved of the ring there holds here, for *)
(* every loop, number of threads and size of the ring.  On top of it: the  *)
(* types of the tracker, the records of a slot, and, in the second part,   *)
(* the result of the speculative run.                                      *)
(***************************************************************************)
EXTENDS Yarn, FiniteSetTheorems, TLAPS

-----------------------------------------------------------------------------
(* Sets of numbers.                                                         *)

\* A set of naturals has a least element.
LEMMA Smallest ==
  ASSUME NEW T, T \subseteq Nat, T # {}
  PROVE  \E x \in T : \A y \in T : x <= y
  <1> DEFINE B(n) == 0 .. n - 1
             F == {B(n) : n \in T}
  <1>1. F \subseteq FiniteSubsetsOf(Nat) /\ F # {}
    <2>1. \A n \in T : B(n) \in FiniteSubsetsOf(Nat)
      BY FS_Interval DEF FiniteSubsetsOf
    <2> QED
      BY <2>1
  <1>2. PICK X \in F : \A Y \in F : ~ (<<Y, X>> \in StrictSubsetOrdering(Nat))
    <2> HIDE DEF F
    <2> QED
      BY <1>1, FS_StrictSubsetOrderingWellFounded, WFMin
  <1>3. PICK n \in T : X = B(n)
    OBVIOUS
  <1>4. ASSUME NEW y \in T, y < n
        PROVE  FALSE
    <2>1. B(y) \in F
      OBVIOUS
    <2>2. B(y) \subseteq B(n) /\ y \in B(n) /\ y \notin B(y)
      BY <1>4
    <2>3. <<B(y), X>> \in StrictSubsetOrdering(Nat)
      BY <2>2, <1>3 DEF StrictSubsetOrdering
    <2> QED
      BY <1>2, <2>1, <2>3
  <1> QED
    BY <1>4

\* A bounded set of integers has a greatest element.
LEMMA Greatest ==
  ASSUME NEW T, T \subseteq Int, T # {}, NEW b \in Int, \A x \in T : x <= b
  PROVE  \E x \in T : \A y \in T : y <= x
  <1> DEFINE U == {b - x : x \in T}
  <1>1. U \subseteq Nat /\ U # {}
    <2>1. \A x \in T : b - x \in Nat
      OBVIOUS
    <2> QED
      BY <2>1
  <1>2. PICK m \in U : \A n \in U : m <= n
    <2> HIDE DEF U
    <2> QED
      BY <1>1, Smallest
  <1>3. PICK x \in T : m = b - x
    OBVIOUS
  <1>4. ASSUME NEW y \in T
        PROVE  y <= x
    <2>1. b - y \in U
      OBVIOUS
    <2>2. m <= b - y
      BY <1>2, <2>1
    <2> QED
      BY <1>3, <2>2
  <1> QED
    BY <1>4

\* Latest and Max are the greatest element of a set of epochs or positions.
LEMMA LatestOf ==
  ASSUME NEW T, T \subseteq Int, T # {}, NEW b \in Int, \A x \in T : x <= b
  PROVE  /\ Latest(T) \in T /\ \A y \in T : y <= Latest(T)
         /\ Max(T) \in T /\ \A y \in T : y <= Max(T)
  <1>1. \E x \in T : \A y \in T : y <= x
    BY Greatest
  <1>2. \E x \in T : \A y \in T : x >= y
    BY <1>1
  <1> QED
    BY <1>1, <1>2 DEF Latest, Max

\* Earliest is the least one.
LEMMA EarliestOf ==
  ASSUME NEW T, T \subseteq Nat, T # {}
  PROVE  Earliest(T) \in T /\ \A y \in T : Earliest(T) <= y
  BY Smallest DEF Earliest

-----------------------------------------------------------------------------
(* The loop.                                                                *)

\* Some length is not exceeded by any of the first n iterations.
LEMMA Bounded ==
  ASSUME NEW n \in 0 .. Len(Program)
  PROVE  \E m \in Nat : \A k \in 1 .. n : Len(Program[k]) <= m
  <1> DEFINE Bound(m, b) == \A k \in 1 .. m : Len(Program[k]) <= b
             T == {m \in 0 .. Len(Program) : ~ \E b \in Nat : Bound(m, b)}
  <1>0. /\ Len(Program) \in Nat
        /\ \A k \in 1 .. Len(Program) : Len(Program[k]) \in Nat
    BY ProgramAssumption
  <1>1. SUFFICES ASSUME T # {} PROVE FALSE
    OBVIOUS
  <1>2. PICK m \in T : \A y \in T : m <= y
    <2>1. T \subseteq Nat
      BY <1>0
    <2> HIDE DEF T
    <2> QED
      BY <1>1, <2>1, Smallest
  <1>3. m # 0
    <2>1. Bound(0, 0)
      OBVIOUS
    <2> QED
      BY <2>1
  <1>4. m - 1 \in 0 .. Len(Program) /\ m - 1 \notin T
    <2>1. m \in 0 .. Len(Program)
      OBVIOUS
    <2>2. m - 1 \in 0 .. Len(Program) /\ m - 1 < m
      BY <1>0, <1>3, <2>1
    <2> HIDE DEF T
    <2> QED
      BY <1>0, <1>2, <2>1, <2>2
  <1>5. PICK b \in Nat : Bound(m - 1, b)
    BY <1>4
  <1>6. PICK c \in Nat : b <= c /\ Len(Program[m]) <= c
    <2>1. Len(Program[m]) \in Nat
      BY <1>0, <1>3
    <2>2. \A l \in Nat : b + l \in Nat /\ b <= b + l /\ l <= b + l
      OBVIOUS
    <2> QED
      BY <2>1, <2>2
  <1>7. Bound(m, c)
    <2> SUFFICES ASSUME NEW k \in 1 .. m PROVE Len(Program[k]) <= c
      OBVIOUS
    <2>1. k = m \/ k \in 1 .. m - 1
      BY <1>0
    <2>2. Len(Program[k]) \in Nat
      BY <1>0
    <2>3. CASE k \in 1 .. m - 1
      <3>1. Len(Program[k]) <= b
        BY <1>5, <2>3
      <3>2. \A l \in Nat : l <= b => l <= c
        BY <1>6
      <3> QED
        BY <2>2, <3>1, <3>2
    <2> QED
      BY <1>6, <2>1, <2>3
  <1> QED
    BY <1>7

\* An iteration is a sequence of operations, no longer than Width.
LEMMA LoopType ==
  /\ LastEpoch \in Nat
  /\ Width \in Nat
  /\ \A e \in Nat :
       /\ Body(e) \in Seq(Operations)
       /\ Len(Body(e)) \in 0 .. Width
       /\ \A k \in 1 .. Len(Body(e)) :
            Body(e)[k] \in Operations /\ Body(e)[k][1] \in {"load", "store"} /\ Body(e)[k][2] \in Addr
  <1> DEFINE L == {Len(Program[k]) : k \in DOMAIN Program}
  <1>1. /\ Len(Program) \in Nat \ {0}
        /\ DOMAIN Program = 1 .. Len(Program)
        /\ \A k \in 1 .. Len(Program) : Program[k] \in Seq(Operations)
    BY ProgramAssumption
  <1>2. \A k \in 1 .. Len(Program) : Len(Program[k]) \in Nat
    BY <1>1
  <1>3. L \subseteq Int /\ L # {}
    <2>1. Len(Program[1]) \in L
      BY <1>1
    <2>2. L \subseteq Int
      BY <1>1, <1>2
    <2> HIDE DEF L
    <2> QED
      BY <2>1, <2>2
  <1>4. PICK b \in Nat : \A x \in L : x <= b
    <2>1. Len(Program) \in 0 .. Len(Program)
      BY <1>1
    <2> QED
      BY <1>1, <2>1, Bounded
  <1>5. Width \in L /\ \A x \in L : x <= Width
    <2> HIDE DEF L
    <2>1. Max(L) \in L /\ \A x \in L : x <= Max(L)
      <3>1. b \in Int
        OBVIOUS
      <3> QED
        BY <1>3, <1>4, <3>1, LatestOf
    <2> QED
      BY <2>1 DEF Width, L
  <1>6. Width \in Nat
    BY <1>1, <1>2, <1>5
  <1>7. ASSUME NEW e \in Nat
        PROVE  \E k \in 1 .. Len(Program) : Body(e) = Program[k]
    BY <1>1 DEF Body, LastEpoch
  <1>8. ASSUME NEW e \in Nat
        PROVE  Body(e) \in Seq(Operations) /\ Len(Body(e)) \in 0 .. Width
    <2>1. PICK k \in 1 .. Len(Program) : Body(e) = Program[k]
      BY <1>7
    <2>2. Len(Program[k]) \in L
      BY <1>1
    <2> QED
      BY <1>1, <1>2, <1>5, <1>6, <2>1, <2>2
  <1>9. ASSUME NEW e \in Nat, NEW k \in 1 .. Len(Body(e))
        PROVE  Body(e)[k] \in Operations /\ Body(e)[k][1] \in {"load", "store"} /\ Body(e)[k][2] \in Addr
    <2>1. Body(e)[k] \in Operations
      BY <1>8
    <2> QED
      BY <2>1 DEF Operations
  <1>10. LastEpoch \in Nat
    BY <1>1 DEF LastEpoch
  <1>11. \A e \in Nat : Body(e) \in Seq(Operations) /\ Len(Body(e)) \in 0 .. Width
    BY <1>8
  <1>12. \A e \in Nat : \A k \in 1 .. Len(Body(e)) :
           Body(e)[k] \in Operations /\ Body(e)[k][1] \in {"load", "store"} /\ Body(e)[k][2] \in Addr
    BY <1>9
  <1> QED
    BY <1>6, <1>10, <1>11, <1>12

-----------------------------------------------------------------------------
(* The ring of epochs, as the workers of Yarn use it.                       *)

\* The labels of the tracker inside of an execution, and of a commit.
Loading == {"load_mask", "load_first", "load_buf", "load_check", "load_mem"}
Tracking == Loading \cup {"store_flag", "violation_last", "violation_flags"}
Publishing == {"publish_last", "publish_clear"}

\* Where the module EpochClient has a thread that is inside of the tracker.
Phase(l) ==
  IF l \in Tracking THEN "exec" ELSE IF l \in Publishing THEN "publish" ELSE l

\* The ghosts of EpochClient are of no use here, and none of its steps that depend
\* on them is taken: see Simulates.
Client == INSTANCE EpochSafetyProof WITH
  pc <- [t \in Thread |-> Phase(pc[t])],
  debt <- [t \in Thread |-> 0],
  rollbacks <- 0,
  MaxRollbacks <- 0,
  LateBreaks <- TRUE,
  Errors <- FALSE,
  Spurious <- FALSE

PcOK == pc \in [Thread -> Client!Labels \cup TrackerLabels]

\* The assumptions of EpochClient hold of what it is instantiated with.
LEMMA ClientAssumptions ==
  /\ Client!EpochMaxAssumption
  /\ Client!ThreadAssumption
  /\ Client!NoThreadAssumption
  /\ Client!LastEpochAssumption
  /\ Client!MaxRollbacksAssumption
  /\ Client!SwitchAssumption
  BY EpochMaxAssumption, ThreadAssumption, NoThreadAssumption, LoopType
     DEF Client!EpochMaxAssumption, Client!ThreadAssumption, Client!NoThreadAssumption, Client!LastEpochAssumption,
         Client!MaxRollbacksAssumption, Client!SwitchAssumption

\* A step of epoch.c is the step of EpochClient of the same name.
LEMMA RingIsKernel ==
  ASSUME PcOK, NEW t \in Thread, Ring(t)
  PROVE  Client!Kernel(t)
  <1> USE DEF PcOK, Goto, Client!Goto, Phase, Tracking, Loading, Publishing, cursors, locks, locals,
      Client!cursors, Client!locks, Client!locals, Index, Client!Index
  <1>0. UNCHANGED <<[u \in Thread |-> 0], 0>>
    OBVIOUS
  <1>1. CASE NextEnter(t)
    BY <1>0, <1>1 DEF Client!Kernel, NextEnter, Client!NextEnter
  <1>2. CASE NextLook(t)
    BY <1>0, <1>2 DEF Client!Kernel, NextLook, Client!NextLook, RingFull, SlotPending, Client!RingFull, Client!SlotPending
  <1>3. CASE NextStall(t)
    BY <1>0, <1>3 DEF Client!Kernel, NextStall, Client!NextStall, RingFull, SlotPending, Blocked, Wait, Forget, Client!RingFull, Client!SlotPending, Client!Blocked, Client!Wait, Client!Forget
  <1>4. CASE NextFinish(t)
    BY <1>0, <1>4 DEF Client!Kernel, NextFinish, Client!NextFinish, Blocked, Forget, Client!Blocked, Client!Forget
  <1>5. CASE NextClaim(t)
    BY <1>0, <1>5 DEF Client!Kernel, NextClaim, Client!NextClaim, Blocked, Client!Blocked
  <1>6. CASE NextMark(t)
    BY <1>0, <1>6 DEF Client!Kernel, NextMark, Client!NextMark, Forget, Client!Forget
  <1>7. CASE RollbackDone(t)
    BY <1>0, <1>7 DEF Client!Kernel, RollbackDone, Client!RollbackDone
  <1>8. CASE RollbackLock(t)
    BY <1>0, <1>8 DEF Client!Kernel, RollbackLock, Client!RollbackLock
  <1>9. CASE RollbackEnter(t)
    BY <1>0, <1>9 DEF Client!Kernel, RollbackEnter, Client!RollbackEnter
  <1>10. CASE RollbackSkip(t)
    BY <1>0, <1>10 DEF Client!Kernel, RollbackSkip, Client!RollbackSkip
  <1>11. CASE RollbackStatus(t)
    BY <1>0, <1>11 DEF Client!Kernel, RollbackStatus, Client!RollbackStatus
  <1>12. CASE RollbackFlag(t)
    BY <1>0, <1>12 DEF Client!Kernel, RollbackFlag, Client!RollbackFlag
  <1>13. CASE RollbackNext(t)
    BY <1>0, <1>13 DEF Client!Kernel, RollbackNext, Client!RollbackNext
  <1>14. CASE RollbackStopKeep(t)
    BY <1>0, <1>14 DEF Client!Kernel, RollbackStopKeep, Client!RollbackStopKeep, IsStopSet, Client!IsStopSet
  <1>15. CASE RollbackStopRead(t)
    BY <1>0, <1>15 DEF Client!Kernel, RollbackStopRead, Client!RollbackStopRead, IsStopSet, Client!IsStopSet
  <1>16. CASE RollbackStopCas(t)
    BY <1>0, <1>16 DEF Client!Kernel, RollbackStopCas, Client!RollbackStopCas, StopCas, Client!StopCas
  <1>17. CASE RollbackExit(t)
    BY <1>0, <1>17 DEF Client!Kernel, RollbackExit, Client!RollbackExit, Forget, Client!Forget
  <1>18. CASE Stop(t)
    BY <1>0, <1>18 DEF Client!Kernel, Stop, Client!Stop, IsStopSet, Client!IsStopSet
  <1>19. CASE SetDone(t)
    BY <1>0, <1>19 DEF Client!Kernel, SetDone, Client!SetDone
  <1>20. CASE GetCommit(t)
    BY <1>0, <1>20 DEF Client!Kernel, GetCommit, Client!GetCommit
  <1>21. CASE GetCommitNone(t)
    BY <1>0, <1>21 DEF Client!Kernel, GetCommitNone, Client!GetCommitNone, IsStopSet, Forget, Client!IsStopSet, Client!Forget
  <1>22. CASE GetCommitCheck(t)
    BY <1>0, <1>22 DEF Client!Kernel, GetCommitCheck, Client!GetCommitCheck, IsStopSet, Client!IsStopSet
  <1>23. CASE GetCommitCas(t)
    BY <1>0, <1>23 DEF Client!Kernel, GetCommitCas, Client!GetCommitCas
  <1>24. CASE CommitDone(t)
    BY <1>0, <1>24 DEF Client!Kernel, CommitDone, Client!CommitDone
  <1>25. CASE FirstRead(t)
    BY <1>0, <1>25 DEF Client!Kernel, FirstRead, Client!FirstRead
  <1>26. CASE FirstCheck(t)
    BY <1>0, <1>26 DEF Client!Kernel, FirstCheck, Client!FirstCheck
  <1>27. CASE FirstCas(t)
    BY <1>0, <1>27 DEF Client!Kernel, FirstCas, Client!FirstCas
  <1>28. CASE UpdateStopKeep(t)
    BY <1>0, <1>28 DEF Client!Kernel, UpdateStopKeep, Client!UpdateStopKeep, IsStopSet, Client!IsStopSet
  <1>29. CASE UpdateStopRead(t)
    BY <1>0, <1>29 DEF Client!Kernel, UpdateStopRead, Client!UpdateStopRead, IsStopSet, Client!IsStopSet
  <1>30. CASE UpdateStopCas(t)
    BY <1>0, <1>30 DEF Client!Kernel, UpdateStopCas, Client!UpdateStopCas, StopCas, Client!StopCas
  <1>31. CASE Signal(t)
    BY <1>0, <1>31 DEF Client!Kernel, Signal, Client!Signal, Forget, Client!Forget
  <1> QED
    BY <1>1, <1>2, <1>3, <1>4, <1>5, <1>6, <1>7, <1>8, <1>9, <1>10, <1>11, <1>12, <1>13, <1>14, <1>15, <1>16, <1>17, <1>18, <1>19, <1>20, <1>21, <1>22, <1>23, <1>24, <1>25, <1>26, <1>27, <1>28, <1>29, <1>30, <1>31 DEF Ring

-----------------------------------------------------------------------------
(* Types.                                                                   *)

\* The locals of the tracker that a label says are set.
AtOK ==
  \A t \in Thread :
    /\ pc[t] \in TrackerLabels => at[t] \in Addr
    /\ pc[t] \in {"load_buf", "load_check"} => pick[t] \in Nat
    /\ pc[t] \notin Client!Rolling => start[t] = 0

TypeInv == PcOK /\ Client!TypeOK /\ TypeOK /\ AtOK

\* The type invariant of the ring, in the words of this module.
LEMMA EpochTypes ==
  ASSUME Client!TypeOK
  PROVE  /\ status \in [Slot -> Status]
         /\ first \in Nat /\ next \in Nat /\ nextCommit \in Nat
         /\ rollbackFlag \subseteq Slot
         /\ epoch \in [Thread -> Nat] /\ start \in [Thread -> Nat] /\ cur \in [Thread -> Nat]
  BY DEF Client!TypeOK, Client!Slot, Client!Status, Slot, Status

\* Index yields a slot.
LEMMA IndexInSlot ==
  ASSUME NEW e \in Int
  PROVE  Index(e) \in Slot
  BY EpochMaxAssumption DEF Index, Slot

\* A position of the sequential run is a value.
LEMMA PositionType ==
  ASSUME NEW e \in Nat, NEW k \in Nat
  PROVE  Position(e, k) \in Nat
  BY LoopType DEF Position

\* The greatest of some epochs between first and epoch[t].
LEMMA FlaggedType ==
  ASSUME NEW t \in Thread, NEW a \in Nat, NEW b \in Int
  PROVE  /\ Flagged(t, a .. b) \subseteq Nat
         /\ Flagged(t, a .. b) # {} =>
              /\ Latest(Flagged(t, a .. b)) \in Flagged(t, a .. b)
              /\ \A e \in Flagged(t, a .. b) : e <= Latest(Flagged(t, a .. b))
  <1> DEFINE F == Flagged(t, a .. b)
  <1>1. F \subseteq Nat /\ F \subseteq Int /\ \A e \in F : e <= b
    BY DEF Flagged
  <1>2. F # {} => Latest(F) \in F /\ \A e \in F : e <= Latest(F)
    <2> HIDE DEF F
    <2> QED
      BY <1>1, LatestOf
  <1> QED
    BY <1>1, <1>2

Loads(t) == LoadMask(t) \/ LoadFirst(t) \/ LoadBuf(t) \/ LoadCheck(t) \/ LoadMem(t)

\* The steps of load_from_wbuf keep the types, and are none of the ring.
LEMMA LoadTypes ==
  ASSUME TypeInv, NEW t \in Thread, Loads(t)
  PROVE  /\ PcOK' /\ AtOK'
         /\ UNCHANGED <<epochData, start, mem, flags, wbuf, lastCommit, commitLock, lists, delayed>>
         /\ at' \in [Thread -> Addr \cup {NoAddr}]
         /\ seen' \in [Thread -> SUBSET Slot]
         /\ pick' \in [Thread -> Int]
         /\ value' \in [Thread -> Value]
         /\ \A u \in Thread : Phase(pc'[u]) = Phase(pc[u])
  <1> USE DEF TypeInv, TypeOK, PcOK, AtOK, TrackerLabels, Goto, Phase, Tracking, Loading, Publishing,
      Client!Labels, Client!Rolling, DropLocals
  <1>1. CASE LoadMask(t)
    BY <1>1 DEF LoadMask
  <1>2. CASE LoadFirst(t)
    <2>1. first \in Nat /\ epoch[t] \in Int
      BY EpochTypes
    <2>2. pick'[t] \in Int /\ (pc'[t] = "load_buf" => pick'[t] \in Nat)
      BY <1>2, <2>1, FlaggedType DEF LoadFirst
    <2> QED
      BY <1>2, <2>2 DEF LoadFirst
  <1>3. CASE LoadBuf(t)
    BY <1>3, IndexInSlot DEF LoadBuf
  <1>4. CASE LoadCheck(t)
    <2>0. UNCHANGED <<epochData, start, mem, flags, wbuf, lastCommit, commitLock, lists, value,
                      delayed>>
      BY <1>4 DEF LoadCheck
    <2>1. \/ /\ pc' = [pc EXCEPT ![t] = "exec"]
             /\ DropLocals(t)
          \/ /\ pc' = [pc EXCEPT ![t] = "load_mem"]
             /\ UNCHANGED <<at, seen, pick>>
      BY <1>4 DEF LoadCheck
    <2>2. pc[t] = "load_check"
      BY <1>4 DEF LoadCheck
    <2>3. CASE pc' = [pc EXCEPT ![t] = "exec"] /\ DropLocals(t)
      BY <2>0, <2>2, <2>3
    <2>4. CASE pc' = [pc EXCEPT ![t] = "load_mem"] /\ UNCHANGED <<at, seen, pick>>
      BY <2>0, <2>2, <2>4
    <2> QED
      BY <2>1, <2>3, <2>4
  <1>5. CASE LoadMem(t)
    <2>1. /\ pc[t] = "load_mem" /\ pc' = [pc EXCEPT ![t] = "exec"]
          /\ value' = [value EXCEPT ![t] = mem[at[t]]]
          /\ UNCHANGED <<epochData, start, mem, flags, wbuf, lastCommit, commitLock, lists, delayed>>
          /\ at' = [at EXCEPT ![t] = NoAddr]
          /\ seen' = [seen EXCEPT ![t] = {}]
          /\ pick' = [pick EXCEPT ![t] = -1]
      BY <1>5 DEF LoadMem
    <2>2. mem[at[t]] \in Value
      BY <2>1
    <2>3. value' \in [Thread -> Value] /\ PcOK'
      BY <2>1, <2>2
    <2>4. AtOK'
      BY <2>1
    <2> QED
      BY <2>1, <2>3, <2>4
  <1> QED
    BY <1>1, <1>2, <1>3, <1>4, <1>5 DEF Loads

\* The positions of the flags and lists that a push, a pop or a clear touches.
LEMMA ListTypes ==
  ASSUME TypeOK, NEW a \in Addr, NEW i \in Slot
  PROVE  /\ PushIfNew(a, i) => /\ link' \in [Addr -> [Slot -> Addr \cup {NoAddr}]]
                               /\ head' \in [Slot -> Addr \cup {NoAddr}]
         /\ Pop(i) => /\ head[i] \in Addr
                      /\ link' \in [Addr -> [Slot -> Addr \cup {NoAddr}]]
                      /\ head' \in [Slot -> Addr \cup {NoAddr}]
         /\ ClearFlags(a, i) => /\ readers' \in [Addr -> SUBSET Slot]
                                /\ writers' \in [Addr -> SUBSET Slot]
  <1>0. /\ link \in [Addr -> [Slot -> Addr \cup {NoAddr}]]
        /\ head \in [Slot -> Addr \cup {NoAddr}]
        /\ readers \in [Addr -> SUBSET Slot]
        /\ writers \in [Addr -> SUBSET Slot]
    BY DEF TypeOK
  <1>1. ASSUME NEW b \in Addr, NEW r \in Addr \cup {NoAddr}
        PROVE  [link EXCEPT ![b][i] = r] \in [Addr -> [Slot -> Addr \cup {NoAddr}]]
    <2>1. [link[b] EXCEPT ![i] = r] \in [Slot -> Addr \cup {NoAddr}]
      BY <1>0
    <2> QED
      BY <1>0, <2>1
  <1>2. PushIfNew(a, i) => /\ link' \in [Addr -> [Slot -> Addr \cup {NoAddr}]]
                           /\ head' \in [Slot -> Addr \cup {NoAddr}]
    <2>1. CASE i \in readers[a] \cup writers[a]
      BY <1>0, <2>1 DEF PushIfNew, lists
    <2>2. CASE i \notin readers[a] \cup writers[a]
      <3>1. head[i] \in Addr \cup {NoAddr}
        BY <1>0
      <3>2. [link EXCEPT ![a][i] = head[i]] \in [Addr -> [Slot -> Addr \cup {NoAddr}]]
        BY <1>1, <3>1
      <3>3. [head EXCEPT ![i] = a] \in [Slot -> Addr \cup {NoAddr}]
        BY <1>0
      <3> QED
        BY <2>2, <3>2, <3>3 DEF PushIfNew
    <2> QED
      BY <2>1, <2>2
  <1>3. ASSUME Pop(i)
        PROVE  /\ head[i] \in Addr
               /\ link' \in [Addr -> [Slot -> Addr \cup {NoAddr}]]
               /\ head' \in [Slot -> Addr \cup {NoAddr}]
    <2>1. head[i] \in Addr
      BY <1>0, <1>3 DEF Pop
    <2>2. link' = [link EXCEPT ![head[i]][i] = NoAddr]
      BY <1>3 DEF Pop
    <2>3. head' = [head EXCEPT ![i] = link[head[i]][i]]
      BY <1>3 DEF Pop
    <2> QED
      BY <1>0, <1>1, <2>1, <2>2, <2>3
  <1>4. ClearFlags(a, i) => /\ readers' \in [Addr -> SUBSET Slot]
                            /\ writers' \in [Addr -> SUBSET Slot]
    BY <1>0 DEF ClearFlags
  <1> QED
    BY <1>2, <1>3, <1>4

\* A step that stays in the same phase leaves the ring alone.
LEMMA SamePhase ==
  ASSUME UNCHANGED <<epochData, start>>,
         \A u \in Thread : Phase(pc'[u]) = Phase(pc[u]),
         NEW t \in Thread
  PROVE  Client!Uses(t)
  <1>1. [u \in Thread |-> Phase(pc[u])]' = [u \in Thread |-> Phase(pc[u])]
    OBVIOUS
  <1> QED
    BY <1>1 DEF Client!Uses, Client!epochVars, epochData, Client!cursors, Client!locks, Client!locals,
                cursors, locks, locals

Stores(t) == StoreFlag(t) \/ ViolationLast(t) \/ ViolationFlags(t) \/ Drain(t)

\* So do those of store_to_wbuf and dep_violation_check, but for the rollback asked for,
LEMMA StoreTypes ==
  ASSUME TypeInv, NEW t \in Thread, Stores(t), UNCHANGED <<op, sound>>
  PROVE  PcOK' /\ AtOK' /\ TypeOK' /\ Client!Uses(t)
  <1> USE DEF TypeInv, TypeOK, PcOK, AtOK, TrackerLabels, Goto, Phase, Tracking, Loading, Publishing,
      Client!Labels, Client!Rolling, DropLocals
  <1>0. /\ epoch[t] \in Nat /\ next \in Nat /\ Index(epoch[t]) \in Slot
        /\ start \in [Thread -> Nat] /\ pick[t] \in Int
    BY EpochTypes, IndexInSlot
  <1>1. CASE StoreFlag(t)
    <2>1. PcOK' /\ AtOK' /\ TypeOK'
      BY <1>0, <1>1 DEF StoreFlag, flags, lists
    <2>2. \A u \in Thread : Phase(pc'[u]) = Phase(pc[u])
      BY <1>1 DEF StoreFlag
    <2> QED
      BY <1>1, <2>1, <2>2, SamePhase DEF StoreFlag
  <1>2. CASE ViolationLast(t)
    <2>0. UNCHANGED <<epochData, start, mem, flags, wbuf, lastCommit, commitLock, lists, value,
                      delayed>>
      BY <1>2 DEF ViolationLast
    <2>1. CASE pc' = [pc EXCEPT ![t] = "exec"] /\ DropLocals(t)
      <3>1. PcOK' /\ AtOK'
        BY <1>2, <2>0, <2>1 DEF ViolationLast
      <3>2. TypeOK'
        BY <2>0, <2>1 DEF flags, lists
      <3>3. \A u \in Thread : Phase(pc'[u]) = Phase(pc[u])
        BY <1>2, <2>1 DEF ViolationLast
      <3> QED
        BY <2>0, <3>1, <3>2, <3>3, SamePhase
    <2>2. CASE /\ pc' = [pc EXCEPT ![t] = "violation_flags"]
               /\ pick' = [pick EXCEPT ![t] = next]
               /\ UNCHANGED <<at, seen>>
      <3>1. PcOK' /\ AtOK'
        BY <1>0, <1>2, <2>0, <2>2 DEF ViolationLast
      <3>2. TypeOK'
        BY <1>0, <2>0, <2>2 DEF flags, lists
      <3>3. \A u \in Thread : Phase(pc'[u]) = Phase(pc[u])
        BY <1>2, <2>2 DEF ViolationLast
      <3> QED
        BY <2>0, <3>1, <3>2, <3>3, SamePhase
    <2> QED
      BY <1>2, <2>1, <2>2 DEF ViolationLast
  <1>3. CASE ViolationFlags(t)
    <2> DEFINE V == Violated(t)
    <2>0. /\ UNCHANGED <<epochData, mem, flags, wbuf, lastCommit, commitLock, lists, value, delayed>>
          /\ DropLocals(t)
          /\ pc[t] = "violation_flags"
          /\ pc' = [pc EXCEPT ![t] = IF V = {} THEN "exec" ELSE "rollback"]
          /\ start' = [start EXCEPT ![t] = IF V = {} THEN 0 ELSE Earliest(V)]
      BY <1>3 DEF ViolationFlags
    <2>1. V \subseteq Nat /\ \A e \in V : epoch[t] < e
      BY <1>0 DEF Violated, Flagged
    <2> HIDE DEF V
    <2>2. PcOK' /\ AtOK' /\ TypeOK'
      BY <2>0 DEF flags, lists
    <2>3. CASE V = {}
      <3>1. pc' = [pc EXCEPT ![t] = "exec"] /\ start' = [start EXCEPT ![t] = 0] /\ start[t] = 0
        BY <2>0, <2>3
      <3>2. UNCHANGED <<epochData, start>>
        BY <1>0, <2>0, <3>1
      <3>3. \A u \in Thread : Phase(pc'[u]) = Phase(pc[u])
        BY <2>0, <3>1
      <3> QED
        BY <2>2, <3>2, <3>3, SamePhase
    <2>4. CASE V # {}
      <3>1. Earliest(V) \in Nat /\ epoch[t] < Earliest(V)
        BY <2>1, <2>4, EarliestOf
      <3>2. start' = [start EXCEPT ![t] = Earliest(V)]
        BY <2>0, <2>4
      <3>3. Client!Goto(t, "exec", "rollback")
        BY <2>0, <2>4 DEF Client!Goto
      <3> HIDE DEF TypeInv, TypeOK, PcOK, AtOK, TrackerLabels, Goto, Phase, Tracking, Loading,
          Publishing, Client!Labels, Client!Rolling, DropLocals
      <3>4. UNCHANGED <<status, first, next, nextCommit, rollbackFlag, stop, nextLock, rollbackLock,
                        waiters, epoch, cur, oldStop, newStop>>
        BY <2>0 DEF epochData, cursors, locks
      <3>5. Client!Asks(t)
        BY <3>1, <3>2, <3>3, <3>4 DEF Client!Asks, Client!cursors, Client!locks
      <3> QED
        BY <2>2, <3>5 DEF Client!Uses
    <2> QED
      BY <2>2, <2>3, <2>4
  <1>4. CASE Drain(t)
    <2>1. PICK w \in delayed[t] :
            /\ wbuf' = [wbuf EXCEPT ![w[1]][w[2]] = w[3]]
            /\ delayed' = [delayed EXCEPT ![t] = {}]
            /\ UNCHANGED <<epochData, pc, start, mem, flags, lastCommit, commitLock, lists,
                           at, seen, pick, value>>
      BY <1>4 DEF Drain
    <2>2. w[1] \in Addr /\ w[2] \in Slot /\ w[3] \in Value
      BY <2>1
    <2>3. wbuf' \in [Addr -> [Slot -> Value]]
      <3>1. [wbuf[w[1]] EXCEPT ![w[2]] = w[3]] \in [Slot -> Value]
        BY <2>2
      <3> QED
        BY <2>1, <2>2, <3>1
    <2>4. PcOK' /\ AtOK' /\ TypeOK'
      BY <2>1, <2>3 DEF flags, lists, epochData
    <2> QED
      BY <2>1, <2>4, SamePhase
  <1> QED
    BY <1>1, <1>2, <1>3, <1>4 DEF Stores

Commits(t) ==
  CommitWrite(t) \/ CommitLast(t) \/ CommitClear(t) \/ CommitReturn(t) \/ UndoPop(t) \/ UndoReturn(t)

\* those of yarn_dep_commit and yarn_dep_rollback,
LEMMA CommitTypes ==
  ASSUME TypeInv, NEW t \in Thread, Commits(t), UNCHANGED <<op, sound>>
  PROVE  PcOK' /\ AtOK' /\ TypeOK' /\ Client!Uses(t)
  <1>0. /\ epoch[t] \in Nat /\ cur \in [Thread -> Nat]
        /\ Index(epoch[t]) \in Slot /\ Index(cur[t]) \in Slot
        /\ start \in [Thread -> Nat]
    BY EpochTypes, IndexInSlot DEF TypeInv
  <1> DEFINE i == Index(cur[t])
             a == head[i]
             j == Index(epoch[t])
  <1> USE DEF PcOK, AtOK, TrackerLabels, Goto, Phase, Tracking, Loading, Publishing,
      Client!Labels, Client!Rolling, DropLocals
  <1>1. CASE CommitWrite(t)
    <2>1. /\ Pop(i)
          /\ pc[t] = "publish"
          /\ pc' = [pc EXCEPT ![t] = IF Newer(t, a) THEN "publish_last" ELSE "publish_clear"]
          /\ commitLock' = [commitLock EXCEPT ![a] = {t}]
          /\ mem' = IF Newer(t, a) THEN [mem EXCEPT ![a] = wbuf[a][i]] ELSE mem
          /\ at' = [at EXCEPT ![t] = a]
          /\ UNCHANGED <<epochData, start, flags, wbuf, lastCommit, seen, pick, value, delayed>>
      BY <1>1 DEF CommitWrite
    <2>2. /\ a \in Addr
          /\ link' \in [Addr -> [Slot -> Addr \cup {NoAddr}]]
          /\ head' \in [Slot -> Addr \cup {NoAddr}]
      <3>1. \E b \in Addr : TRUE
        BY <1>0, <2>1 DEF Pop, TypeInv, TypeOK
      <3> QED
        BY <1>0, <2>1, <3>1, ListTypes DEF TypeInv
    <2> HIDE DEF i, a
    <2>3. PcOK' /\ AtOK'
      BY <2>1, <2>2 DEF TypeInv, TypeOK
    <2>4. TypeOK'
      BY <1>0, <2>1, <2>2 DEF TypeInv, TypeOK, flags, i
    <2>5. \A u \in Thread : Phase(pc'[u]) = Phase(pc[u])
      BY <2>1 DEF TypeInv
    <2> QED
      BY <2>1, <2>3, <2>4, <2>5, SamePhase
  <1>2. CASE CommitLast(t)
    <2>1. /\ pc[t] = "publish_last" /\ pc' = [pc EXCEPT ![t] = "publish_clear"]
          /\ lastCommit' = [lastCommit EXCEPT ![at[t]] = cur[t]]
          /\ UNCHANGED <<epochData, start, mem, flags, wbuf, commitLock, lists, depLocals>>
      BY <1>2 DEF CommitLast
    <2>2. PcOK' /\ AtOK'
      BY <2>1 DEF TypeInv, depLocals
    <2>3. TypeOK'
      BY <1>0, <2>1 DEF TypeInv, TypeOK, flags, lists, depLocals
    <2>4. \A u \in Thread : Phase(pc'[u]) = Phase(pc[u])
      BY <2>1 DEF TypeInv
    <2> QED
      BY <2>1, <2>2, <2>3, <2>4, SamePhase
  <1>3. CASE CommitClear(t)
    <2>1. /\ pc[t] = "publish_clear" /\ pc' = [pc EXCEPT ![t] = "publish"]
          /\ ClearFlags(at[t], i)
          /\ commitLock' = [commitLock EXCEPT ![at[t]] = {}]
          /\ UNCHANGED <<epochData, start, mem, wbuf, lastCommit, lists, value, delayed>>
          /\ at' = [at EXCEPT ![t] = NoAddr]
          /\ seen' = [seen EXCEPT ![t] = {}]
          /\ pick' = [pick EXCEPT ![t] = -1]
      BY <1>3 DEF CommitClear
    <2>2. at[t] \in Addr /\ readers' \in [Addr -> SUBSET Slot] /\ writers' \in [Addr -> SUBSET Slot]
      <3>1. at[t] \in Addr
        BY <2>1 DEF TypeInv
      <3> QED
        BY <1>0, <2>1, <3>1, ListTypes DEF TypeInv
    <2>3. PcOK' /\ AtOK'
      BY <2>1 DEF TypeInv, TypeOK
    <2>4. TypeOK'
      <3>1. /\ at' \in [Thread -> Addr \cup {NoAddr}] /\ seen' \in [Thread -> SUBSET Slot]
            /\ pick' \in [Thread -> Int] /\ commitLock' \in [Addr -> SUBSET Thread]
        BY <2>1 DEF TypeInv, TypeOK
      <3> QED
        BY <2>1, <2>2, <3>1 DEF TypeInv, TypeOK, lists
    <2>5. \A u \in Thread : Phase(pc'[u]) = Phase(pc[u])
      BY <2>1 DEF TypeInv
    <2> QED
      BY <2>1, <2>3, <2>4, <2>5, SamePhase
  <1>4. CASE CommitReturn(t)
    <2>1. /\ pc[t] = "publish" /\ pc' = [pc EXCEPT ![t] = "commit_done"]
          /\ UNCHANGED <<epochData, start, depVars>>
      BY <1>4 DEF CommitReturn
    <2>2. PcOK' /\ AtOK'
      BY <2>1 DEF TypeInv, depVars, depLocals
    <2>3. TypeOK'
      BY <2>1 DEF TypeInv, TypeOK, depVars, flags, lists, depLocals
    <2>4. Client!Uses(t)
      BY <2>1 DEF TypeInv, Client!Uses, Client!Passes, Client!Goto, Client!cursors, Client!locks,
         Client!locals, epochData, cursors, locks
    <2> QED
      BY <2>2, <2>3, <2>4
  <1>5. CASE UndoPop(t)
    <2>1. /\ Pop(j)
          /\ pc[t] = "undo" /\ pc' = [pc EXCEPT ![t] = "undo"]
          /\ ClearFlags(head[j], j)
          /\ UNCHANGED <<epochData, start, mem, wbuf, lastCommit, commitLock, depLocals>>
      BY <1>5 DEF UndoPop
    <2>2. /\ head[j] \in Addr
          /\ link' \in [Addr -> [Slot -> Addr \cup {NoAddr}]]
          /\ head' \in [Slot -> Addr \cup {NoAddr}]
      <3>1. \E b \in Addr : TRUE
        BY <1>0, <2>1 DEF Pop, TypeInv, TypeOK
      <3> QED
        BY <1>0, <2>1, <3>1, ListTypes DEF TypeInv
    <2>3. readers' \in [Addr -> SUBSET Slot] /\ writers' \in [Addr -> SUBSET Slot]
      BY <1>0, <2>1, <2>2, ListTypes DEF TypeInv
    <2>4. PcOK' /\ AtOK'
      BY <2>1 DEF TypeInv, depLocals
    <2>5. TypeOK'
      BY <2>1, <2>2, <2>3 DEF TypeInv, TypeOK, depLocals
    <2>6. \A u \in Thread : Phase(pc'[u]) = Phase(pc[u])
      BY <2>1 DEF TypeInv
    <2> QED
      BY <2>1, <2>4, <2>5, <2>6, SamePhase
  <1>6. CASE UndoReturn(t)
    <2>1. /\ pc[t] = "undo" /\ pc' = [pc EXCEPT ![t] = "rollback_done"]
          /\ UNCHANGED <<epochData, start, depVars>>
      BY <1>6 DEF UndoReturn
    <2>2. PcOK' /\ AtOK'
      BY <2>1 DEF TypeInv, depVars, depLocals
    <2>3. TypeOK'
      BY <2>1 DEF TypeInv, TypeOK, depVars, flags, lists, depLocals
    <2>4. Client!Uses(t)
      BY <2>1 DEF TypeInv, Client!Uses, Client!Passes, Client!Goto, Client!cursors, Client!locks,
         Client!locals, epochData, cursors, locks
    <2> QED
      BY <2>2, <2>3, <2>4
  <1> QED
    BY <1>1, <1>2, <1>3, <1>4, <1>5, <1>6 DEF Commits

\* The executor goes on to the next operation, which is one of the loop.
LEMMA AdvanceTypes ==
  ASSUME TypeInv, NEW t \in Thread, NEW k, Advance(t, k)
  PROVE  /\ op' \in [Thread -> 0 .. Width] /\ UNCHANGED sound
         /\ op[t] \in Nat /\ epoch[t] \in Nat
         /\ op[t] + 1 \in 1 .. Len(Body(epoch[t]))
         /\ Body(epoch[t])[op[t] + 1] = <<k, Operand(t)>> /\ Operand(t) \in Addr
         /\ op' = [op EXCEPT ![t] = op[t] + 1]
  <1>1. epoch[t] \in Nat /\ op \in [Thread -> 0 .. Width] /\ Width \in Nat
    BY EpochTypes, LoopType DEF TypeInv, TypeOK
  <1>2. Len(Body(epoch[t])) \in 0 .. Width
    BY <1>1, LoopType
  <1>3. /\ op[t] < Len(Body(epoch[t])) /\ op' = [op EXCEPT ![t] = op[t] + 1] /\ UNCHANGED sound
        /\ Body(epoch[t])[op[t] + 1][1] = k
    BY DEF Advance
  <1>4. op[t] + 1 \in 1 .. Len(Body(epoch[t])) /\ op[t] + 1 \in 0 .. Width /\ op[t] \in Nat
    <2>1. \A l \in 0 .. Width : \A o \in 0 .. Width : o < l => o + 1 \in 1 .. l /\ o + 1 \in 0 .. Width
      BY <1>1
    <2> QED
      BY <1>1, <1>2, <1>3, <2>1
  <1>5. Body(epoch[t])[op[t] + 1] \in Operations
    BY <1>1, <1>4, LoopType
  <1>6. Body(epoch[t])[op[t] + 1] = <<k, Operand(t)>> /\ Operand(t) \in Addr
    BY <1>3, <1>5 DEF Operations, Operand
  <1>7. op' \in [Thread -> 0 .. Width]
    BY <1>1, <1>3, <1>4
  <1> QED
    BY <1>1, <1>3, <1>4, <1>6, <1>7

\* A load or a store starts.
LEMMA StartTypes ==
  ASSUME TypeInv, NEW t \in Thread, NEW a \in Addr, NEW v \in Value,
         op' \in [Thread -> 0 .. Width], UNCHANGED sound,
         LoadFlag(t, a) \/ StoreBuf(t, a, v)
  PROVE  PcOK' /\ AtOK' /\ TypeOK' /\ Client!Uses(t)
  <1> DEFINE i == Index(epoch[t])
  <1>0. epoch[t] \in Nat /\ i \in Slot /\ start \in [Thread -> Nat]
    BY EpochTypes, IndexInSlot DEF TypeInv
  <1>1. /\ pc[t] = "exec" /\ at' = [at EXCEPT ![t] = a] /\ PushIfNew(a, i)
        /\ pc' = [pc EXCEPT ![t] = "load_mask"] \/ pc' = [pc EXCEPT ![t] = "store_flag"]
        /\ UNCHANGED <<epochData, start, mem, writers, lastCommit, commitLock, pick, value>>
    BY DEF LoadFlag, StoreBuf, Goto, flags
  <1>2. PcOK' /\ AtOK'
    <2>1. at \in [Thread -> Addr \cup {NoAddr}]
      BY DEF TypeInv, TypeOK
    <2>2. PICK l \in {"load_mask", "store_flag"} : pc' = [pc EXCEPT ![t] = l]
      BY <1>1
    <2>3. PcOK'
      BY <2>2 DEF TypeInv, PcOK, TrackerLabels
    <2>4. AtOK'
      BY <1>0, <1>1, <2>1, <2>2 DEF TypeInv, PcOK, AtOK, TrackerLabels, Client!Labels, Client!Rolling
    <2> QED
      BY <2>3, <2>4
  <1>3. link' \in [Addr -> [Slot -> Addr \cup {NoAddr}]] /\ head' \in [Slot -> Addr \cup {NoAddr}]
    BY <1>0, <1>1, ListTypes DEF TypeInv
  <1>4. readers' \in [Addr -> SUBSET Slot] /\ seen' \in [Thread -> SUBSET Slot]
    <2>1. CASE LoadFlag(t, a)
      BY <1>0, <2>1 DEF LoadFlag, TypeInv, TypeOK
    <2>2. CASE StoreBuf(t, a, v)
      BY <2>2 DEF StoreBuf, TypeInv, TypeOK, flags
    <2> QED
      BY <2>1, <2>2
  <1>5. wbuf' \in [Addr -> [Slot -> Value]] /\ delayed' \in [Thread -> SUBSET (Addr \X Slot \X Value)]
    <2>1. CASE LoadFlag(t, a)
      BY <2>1 DEF LoadFlag, TypeInv, TypeOK
    <2>2. CASE UNCHANGED delayed /\ wbuf' = [wbuf EXCEPT ![a][i] = v]
      <3>1. [wbuf[a] EXCEPT ![i] = v] \in [Slot -> Value]
        BY <1>0 DEF TypeInv, TypeOK
      <3> QED
        BY <2>2, <3>1 DEF TypeInv, TypeOK
    <2>3. CASE UNCHANGED wbuf /\ delayed' = [delayed EXCEPT ![t] = {<<a, i, v>>}]
      <3>1. {<<a, i, v>>} \in SUBSET (Addr \X Slot \X Value)
        BY <1>0
      <3> QED
        BY <2>3, <3>1 DEF TypeInv, TypeOK
    <2> QED
      BY <2>1, <2>2, <2>3 DEF StoreBuf
  <1>6. TypeOK'
    BY <1>1, <1>3, <1>4, <1>5 DEF TypeInv, TypeOK
  <1>7. \A u \in Thread : Phase(pc'[u]) = Phase(pc[u])
    BY <1>1 DEF TypeInv, PcOK, Phase, Tracking, Loading, Publishing
  <1> QED
    BY <1>1, <1>2, <1>6, <1>7, SamePhase

\* and those of the executor.
LEMMA ExecutorTypes ==
  ASSUME TypeInv, NEW t \in Thread, Executor(t)
  PROVE  PcOK' /\ AtOK' /\ TypeOK' /\ Client!Uses(t)
  <1>0. Initial \in Value /\ Garbage \in Value /\ Nat \subseteq Value
    BY DEF Value
  <1>1. CASE Load(t)
    BY <1>1, <1>0, AdvanceTypes, StartTypes DEF Load
  <1>2. CASE Store(t)
    <2>1. Advance(t, "store")
      BY <1>2 DEF Store
    <2>2. Position(epoch[t], op[t] + 1) \in Value
      <3>1. op[t] + 1 \in Nat /\ epoch[t] \in Nat
        BY <2>1, AdvanceTypes
      <3> QED
        BY <1>0, <3>1, PositionType
    <2>3. PICK v \in Value : StoreBuf(t, Operand(t), v)
      BY <1>0, <1>2, <2>2 DEF Store
    <2> QED
      BY <2>1, <2>3, AdvanceTypes, StartTypes
  <1>3. CASE StoreNowhere(t)
    <2>1. Advance(t, "store") /\ UNCHANGED <<epochVars, depVars>>
      BY <1>3 DEF StoreNowhere
    <2>2. op' \in [Thread -> 0 .. Width] /\ UNCHANGED sound
      BY <2>1, AdvanceTypes
    <2>3. UNCHANGED <<epochData, start, pc>>
      BY <2>1 DEF epochVars, epochData, cursors, locks, locals
    <2>4. PcOK' /\ AtOK'
      BY <2>1, <2>3 DEF TypeInv, PcOK, AtOK, depVars, depLocals
    <2>5. TypeOK'
      BY <2>1, <2>2 DEF TypeInv, TypeOK, depVars, flags, lists, depLocals
    <2> QED
      BY <2>3, <2>4, <2>5, SamePhase
  <1>4. CASE LoadEnd(t)
    <2>1. Loads(t) /\ UNCHANGED op
      BY <1>4 DEF LoadEnd, Loads
    <2>2. sound' \in [Thread -> BOOLEAN]
      BY <1>4 DEF LoadEnd, TypeInv, TypeOK
    <2>3. TypeOK'
      BY <2>1, <2>2, LoadTypes DEF TypeInv, TypeOK, flags, lists
    <2> QED
      BY <2>1, <2>3, LoadTypes, SamePhase
  <1>5. CASE Return(t)
    <2>1. /\ pc[t] = "exec" /\ \E l \in {"stop", "set_done"} : pc' = [pc EXCEPT ![t] = l]
          /\ op' = [op EXCEPT ![t] = 0] /\ sound' = [sound EXCEPT ![t] = TRUE]
          /\ UNCHANGED <<status, cursors, rollbackFlag, stop, locks, locals, depVars>>
      BY <1>5 DEF Return, Goto
    <2>2. PcOK' /\ AtOK'
      BY <2>1 DEF TypeInv, PcOK, AtOK, depVars, depLocals, locals, TrackerLabels, Client!Labels,
         Client!Rolling
    <2>3. op' \in [Thread -> 0 .. Width]
      BY <2>1, LoopType DEF TypeInv, TypeOK
    <2>4. TypeOK'
      BY <2>1, <2>3 DEF TypeInv, TypeOK, depVars, flags, lists, depLocals
    <2>5. PICK l \in {"stop", "set_done"} : Client!Goto(t, "exec", l)
      BY <2>1 DEF TypeInv, PcOK, Client!Goto, Phase, Tracking, Loading, Publishing
    <2>6. Client!Uses(t)
      BY <2>1, <2>5 DEF Client!Uses, Client!Passes, Client!cursors, Client!locks,
         Client!locals, cursors, locks, locals
    <2> QED
      BY <2>2, <2>4, <2>6
  <1>6. ASSUME NEW a \in Addr, StoreAstray(t, a)
        PROVE  PcOK' /\ AtOK' /\ TypeOK' /\ Client!Uses(t)
    BY <1>0, <1>6, AdvanceTypes, StartTypes DEF StoreAstray
  <1> QED
    BY <1>1, <1>2, <1>3, <1>4, <1>5, <1>6 DEF Executor

\* A step of epoch.c takes a thread from a label of epoch.c to another, and leaves
\* the epoch to roll back from alone but for the end of the rollback.
LEMMA RingLabels ==
  ASSUME PcOK, NEW t \in Thread, Ring(t)
  PROVE  \E l \in Client!Labels \ {"commit_done", "rollback_done"} :
           /\ pc[t] \in Client!Labels \ TrackerLabels /\ pc' = [pc EXCEPT ![t] = l]
           /\ \/ UNCHANGED start /\ (l \in Client!Rolling => pc[t] \in Client!Rolling)
                                 /\ (pc[t] \in Client!Rolling => l \in Client!Rolling)
              \/ start' = [start EXCEPT ![t] = 0] /\ l = "exec"
  <1> USE DEF PcOK, Goto, TrackerLabels, Client!Labels, Client!Rolling, locals
  <1>1. CASE NextEnter(t) \/ NextLook(t) \/ NextStall(t) \/ NextFinish(t) \/ NextClaim(t)
             \/ NextMark(t) \/ RollbackDone(t)
    BY <1>1 DEF NextEnter, NextLook, NextStall, NextFinish, NextClaim, NextMark, RollbackDone
  <1>2. CASE RollbackLock(t) \/ RollbackEnter(t) \/ RollbackSkip(t) \/ RollbackStatus(t)
             \/ RollbackFlag(t) \/ RollbackNext(t) \/ RollbackStopKeep(t)
    BY <1>2 DEF RollbackLock, RollbackEnter, RollbackSkip, RollbackStatus, RollbackFlag,
       RollbackNext, RollbackStopKeep
  <1>3. CASE RollbackStopRead(t) \/ RollbackStopCas(t) \/ RollbackExit(t) \/ Stop(t) \/ SetDone(t)
             \/ GetCommit(t) \/ GetCommitNone(t)
    BY <1>3 DEF RollbackStopRead, RollbackStopCas, StopCas, RollbackExit, Stop, SetDone, GetCommit,
       GetCommitNone
  <1>4. CASE GetCommitCheck(t) \/ GetCommitCas(t) \/ CommitDone(t) \/ FirstRead(t) \/ FirstCheck(t)
             \/ FirstCas(t)
    BY <1>4 DEF GetCommitCheck, GetCommitCas, CommitDone, FirstRead, FirstCheck, FirstCas
  <1>5. CASE UpdateStopKeep(t) \/ UpdateStopRead(t) \/ UpdateStopCas(t) \/ Signal(t)
    BY <1>5 DEF UpdateStopKeep, UpdateStopRead, UpdateStopCas, StopCas, Signal
  <1> QED
    BY <1>1, <1>2, <1>3, <1>4, <1>5 DEF Ring

\* Every step of a worker is one of epoch.c, or one that EpochClient allows.
LEMMA Simulates ==
  ASSUME TypeInv, NEW t \in Thread, Worker(t)
  PROVE  /\ PcOK' /\ AtOK' /\ TypeOK'
         /\ Client!Kernel(t) \/ Client!Uses(t)
  <1>1. CASE Executor(t)
    BY <1>1, ExecutorTypes
  <1>2. CASE (Tracker(t) \/ Drain(t)) /\ UNCHANGED <<op, sound>>
    <2>1. Loads(t) \/ Stores(t) \/ Commits(t)
      BY <1>2 DEF Tracker, Loads, Stores, Commits
    <2>2. CASE Loads(t)
      <3>1. TypeOK'
        BY <1>2, <2>2, LoadTypes DEF TypeInv, TypeOK, flags, lists
      <3> QED
        BY <2>2, <3>1, LoadTypes, SamePhase
    <2> QED
      BY <1>2, <2>1, <2>2, StoreTypes, CommitTypes
  <1>3. CASE Ring(t) /\ UNCHANGED <<depVars, op, sound>>
    <2>1. Client!Kernel(t)
      BY <1>3, RingIsKernel DEF TypeInv
    <2>2. TypeOK'
      BY <1>3 DEF TypeInv, TypeOK, depVars, flags, lists, depLocals
    <2>3. PcOK' /\ AtOK'
      <3>1. PICK l \in Client!Labels :
              /\ pc[t] \in Client!Labels \ TrackerLabels /\ pc' = [pc EXCEPT ![t] = l]
              /\ \/ UNCHANGED start /\ (l \in Client!Rolling => pc[t] \in Client!Rolling)
                                    /\ (pc[t] \in Client!Rolling => l \in Client!Rolling)
                 \/ start' = [start EXCEPT ![t] = 0] /\ l = "exec"
        BY <1>3, RingLabels DEF TypeInv
      <3>2. l \notin TrackerLabels
        BY DEF TrackerLabels, Client!Labels, Client!Rolling
      <3>3. PcOK' /\ start \in [Thread -> Nat]
        BY <3>1, EpochTypes DEF TypeInv, PcOK
      <3>4. \A u \in Thread : pc'[u] \in TrackerLabels => pc'[u] = pc[u]
        BY <3>1, <3>2 DEF TypeInv, PcOK
      <3>5. \A u \in Thread : pc'[u] \notin Client!Rolling => start'[u] = 0
        BY <3>1, <3>3 DEF TypeInv, PcOK, AtOK, Client!Rolling
      <3>6. \A u \in Thread : pc'[u] \in {"load_buf", "load_check"} => pc'[u] = pc[u]
        BY <3>4 DEF TrackerLabels
      <3>7. AtOK'
        BY <1>3, <3>4, <3>5, <3>6 DEF TypeInv, AtOK, depVars, depLocals
      <3> QED
        BY <3>3, <3>7
    <2> QED
      BY <2>1, <2>2, <2>3
  <1> QED
    BY <1>1, <1>2, <1>3 DEF Worker

-----------------------------------------------------------------------------
\* The invariant of EpochClient, and the types.
RingInv == TypeInv /\ Client!Inductive

\* The invariant of the ring holds at first,
LEMMA InitRingInv == Init => RingInv
  <1> SUFFICES ASSUME Init PROVE RingInv
    OBVIOUS
  <1>1. EpochInit /\ DependencyInit /\ op = [t \in Thread |-> 0] /\ sound = [t \in Thread |-> TRUE]
    BY DEF Init
  <1>2. PcOK /\ AtOK
    BY <1>1 DEF EpochInit, PcOK, AtOK, Client!Labels, TrackerLabels
  <1>3. Initial \in Value /\ NoAddr \in Addr \cup {NoAddr} /\ 0 \in 0 .. Width
    BY LoopType DEF Value
  <1>4. /\ mem \in [Addr -> Value] /\ wbuf \in [Addr -> [Slot -> Value]] /\ value \in [Thread -> Value]
        /\ link \in [Addr -> [Slot -> Addr \cup {NoAddr}]]
        /\ head \in [Slot -> Addr \cup {NoAddr}]
    BY <1>1, <1>3 DEF DependencyInit
  <1>5. TypeOK
    BY <1>1, <1>3, <1>4 DEF DependencyInit, TypeOK
  <1>6. Client!Init
    BY <1>1 DEF EpochInit, Client!Init, Client!EpochInit, Phase, Tracking, Loading, Publishing, Slot,
       Client!Slot
  <1>7. Client!Inductive
    BY <1>6, Client!InitInductive, ClientAssumptions
  <1>8. Client!TypeOK
    BY <1>7 DEF Client!Inductive
  <1> QED
    BY <1>2, <1>5, <1>7, <1>8 DEF RingInv, TypeInv

\* A step of a worker, or none.
LEMMA StepRingInv == RingInv /\ [Next]_vars => RingInv'
  <1> SUFFICES ASSUME RingInv, [Next]_vars PROVE RingInv'
    OBVIOUS
  <1>1. ASSUME NEW t \in Thread, PcOK', AtOK', TypeOK', Client!Kernel(t) \/ Client!Uses(t)
        PROVE  RingInv'
    <2>0. UNCHANGED <<[u \in Thread |-> 0], 0>>
      OBVIOUS
    <2>1. Client!TypeOK'
      <3>1. CASE Client!Kernel(t)
        BY <3>1, Client!KernelTypeOK, ClientAssumptions DEF RingInv, TypeInv
      <3>2. CASE Client!Uses(t)
        BY <2>0, <3>2, Client!UsesTypeOK, ClientAssumptions DEF RingInv, TypeInv
      <3> QED
        BY <1>1, <3>1, <3>2
    <2>2. Client!Inductive'
      BY <1>1, <2>1, Client!RingInductive, ClientAssumptions DEF RingInv
    <2> QED
      BY <1>1, <2>1, <2>2 DEF RingInv, TypeInv
  <1>2. CASE \E t \in Thread : Worker(t)
    BY <1>1, <1>2, Simulates DEF RingInv
  <1>3. CASE UNCHANGED vars
    <2>1. UNCHANGED <<epochVars, depVars, op, sound>>
      BY <1>3 DEF vars
    <2>2. PcOK' /\ AtOK' /\ TypeOK'
      BY <2>1 DEF RingInv, TypeInv, PcOK, AtOK, TypeOK, epochVars, locals, depVars, flags, lists, depLocals
    <2> QED
      <3>1. UNCHANGED Client!vars
        BY <2>1 DEF epochVars, locals, cursors, locks, Client!vars, Client!epochVars, Client!locals,
           Client!cursors, Client!locks
      <3>2. Client!Inductive'
        BY <3>1, Client!StepInductive, ClientAssumptions DEF RingInv
      <3> QED
        BY <2>2, <3>2 DEF RingInv, TypeInv, Client!Inductive
  <1> QED
    BY <1>2, <1>3 DEF Next

\* hence always.
LEMMA AlwaysRingInv == Spec => []RingInv
  BY InitRingInv, StepRingInv, PTL DEF Spec

(* Every variable of the tracker has its type, for every loop: a slot, an   *)
(* address or a value is never taken out of thin air, and a thread runs no  *)
(* operation beyond those of its iteration.                                 *)
THEOREM TrackerTypes == Spec => []TypeOK
  <1>1. RingInv => TypeOK
    BY DEF RingInv, TypeInv
  <1> QED
    BY <1>1, AlwaysRingInv, PTL

(* What is proved of the ring of epochs under an abstract loop body holds   *)
(* under the dependency tracker and every loop: the tracker asks only for   *)
(* rollbacks of later epochs, and touches no word of epoch.c.               *)
THEOREM RingSafe ==
  Spec => []( /\ Client!CursorOrder
              /\ Client!SlotExclusive
              /\ Client!AssertsHold
              /\ Client!StatusByRange
              /\ Client!FlagImpliesUndo )
  <1>1. RingInv => /\ Client!CursorOrder /\ Client!SlotExclusive /\ Client!AssertsHold
                   /\ Client!StatusByRange /\ Client!FlagImpliesUndo
    <2>1. RingInv => Client!AssertsHold /\ Client!StatusByRange
      BY Client!InductiveAsserts, Client!InductiveStatus, ClientAssumptions DEF RingInv
    <2> QED
      BY <2>1 DEF RingInv, Client!Inductive
  <1> QED
    BY <1>1, AlwaysRingInv, PTL

-----------------------------------------------------------------------------
(* Who owns a slot.                                                         *)

\* The labels from the claim of an epoch to the end of yarn_epoch_set_done, and
\* from the claim of its commit to the end of yarn_epoch_commit_done.
RunLabels == {"next_mark", "undo", "rollback_done", "exec", "stop", "set_done"}
             \cup Client!Rolling \cup Tracking
CommitLabels == {"publish", "commit_done"} \cup Publishing

Owns(t, i) ==
  \/ pc[t] \in RunLabels /\ Index(epoch[t]) = i
  \/ pc[t] \in CommitLabels /\ Index(cur[t]) = i

\* One thread owns a slot, and the status of the slot says what for.
LEMMA OneOwner ==
  ASSUME RingInv, NEW t \in Thread, NEW u \in Thread, NEW i, Owns(t, i), Owns(u, i)
  PROVE  t = u
  <1>1. Client!SlotExclusive
    BY DEF RingInv, Client!Inductive
  <1>2. ASSUME NEW v \in Thread, Owns(v, i)
        PROVE  \E e \in Client!Held(v) : Client!Index(e) = i
    <2>1. CASE pc[v] \in RunLabels /\ Index(epoch[v]) = i
      <3>1. Client!Running(v)
        BY <2>1 DEF Client!Running, Client!Rolling, RunLabels, Phase, Tracking, Loading, Publishing
      <3> QED
        BY <2>1, <3>1 DEF Client!Held, Index, Client!Index
    <2>2. CASE pc[v] \in CommitLabels /\ Index(cur[v]) = i
      <3>1. Client!Committing(v) /\ ~Client!Running(v)
        BY <2>2 DEF Client!Running, Client!Rolling, Client!Committing, CommitLabels, Phase, Tracking,
           Loading, Publishing
      <3> QED
        BY <2>2, <3>1 DEF Client!Held, Index, Client!Index
    <2> QED
      BY <1>2, <2>1, <2>2 DEF Owns
  <1> QED
    BY <1>1, <1>2 DEF Client!SlotExclusive

\* The status of the slot a thread owns.
LEMMA OwnedStatus ==
  ASSUME RingInv, NEW t \in Thread
  PROVE  /\ pc[t] \in RunLabels \ {"next_mark"} =>
              status[Index(epoch[t])] \in {"executing", "pending_rollback"}
         /\ pc[t] = "next_mark" => status[Index(epoch[t])] \in {"commit", "rollback"}
         /\ pc[t] \in CommitLabels => status[Index(cur[t])] = "done"
  <1>1. Client!RunInv /\ Client!CommitInv
    BY DEF RingInv, Client!Inductive
  <1>2. /\ pc[t] \in RunLabels => Client!Running(t)
        /\ Phase(pc[t]) = "next_mark" <=> pc[t] = "next_mark"
        /\ pc[t] \in CommitLabels => Client!Committing(t)
    BY DEF Client!Running, Client!Rolling, Client!Committing, RunLabels, CommitLabels, Phase,
           Tracking, Loading, Publishing
  <1> QED
    BY <1>1, <1>2 DEF Client!RunInv, Client!CommitInv, Client!Index, Index

-----------------------------------------------------------------------------
(* The list of the records of a slot.                                       *)

\* The list of slot i has n records; counted from its end, r[k] is the one at k.
IsList(i, n, r) ==
  /\ n \in Nat
  /\ r \in [Nat -> Addr \cup {NoAddr}]
  /\ r[0] = NoAddr
  /\ head[i] = r[n]
  /\ \A k \in 1 .. n : r[k] \in Addr /\ link[r[k]][i] = r[k - 1]
  /\ \A k, l \in 1 .. n : r[k] = r[l] => k = l

On(n, r, a) == \E k \in 1 .. n : r[k] = a

\* A record that was pushed and has no flag yet, or was popped and has its flag still.
Storing(t, i) == pc[t] = "store_flag" /\ Index(epoch[t]) = i
Clearing(t, i) == pc[t] \in Publishing /\ Index(cur[t]) = i

\* The list of slot i ends, without repetition, and holds what the flags say.
ListOK(i) ==
  \E n \in Nat, r \in [Nat -> Addr \cup {NoAddr}] :
    /\ IsList(i, n, r)
    /\ \A a \in Addr : On(n, r, a) => a \in Touched(i) \/ \E t \in Thread : Storing(t, i) /\ at[t] = a
    /\ \A a \in Touched(i) : On(n, r, a) \/ \E t \in Thread : Clearing(t, i) /\ at[t] = a
    /\ \A t \in Thread : Storing(t, i) => On(n, r, at[t])
    /\ \A t \in Thread : Clearing(t, i) => ~On(n, r, at[t])

\* The list of a slot that is free, committed or undone is empty.
EmptyOK ==
  /\ \A i \in Slot : status[i] = "commit" => head[i] = NoAddr
  /\ \A t \in Thread : /\ pc[t] = "commit_done" => head[Index(cur[t])] = NoAddr
                       /\ pc[t] = "rollback_done" => head[Index(epoch[t])] = NoAddr

ListsInv == EmptyOK /\ \A i \in Slot : ListOK(i)

\* A list without a first record is empty, and one with a first record is not.
LEMMA EmptyList ==
  ASSUME NEW i, NEW n, NEW r, IsList(i, n, r)
  PROVE  head[i] = NoAddr <=> n = 0
  <1>1. n # 0 => n \in 1 .. n
    BY DEF IsList
  <1> QED
    BY <1>1, NoAddrAssumption DEF IsList

\* A record that is not on a list can be pushed on it.
LEMMA PushedList ==
  ASSUME TypeOK, NEW i \in Slot, NEW n, NEW r, IsList(i, n, r), NEW a \in Addr, ~On(n, r, a),
         link' = [link EXCEPT ![a][i] = head[i]],
         head' = [head EXCEPT ![i] = a]
  PROVE  \E s : IsList(i, n + 1, s)' /\ \A b \in Addr : On(n + 1, s, b) <=> On(n, r, b) \/ b = a
  <1> DEFINE s == [r EXCEPT ![n + 1] = a]
  <1>1. /\ n \in Nat /\ r \in [Nat -> Addr \cup {NoAddr}] /\ r[0] = NoAddr /\ head[i] = r[n]
        /\ \A k \in 1 .. n : r[k] \in Addr /\ link[r[k]][i] = r[k - 1] /\ r[k] # a
        /\ \A k, l \in 1 .. n : r[k] = r[l] => k = l
    BY DEF IsList, On
  <1>2. /\ head'[i] = a
        /\ \A b \in Addr : link'[b][i] = IF b = a THEN r[n] ELSE link[b][i]
    BY <1>1 DEF TypeOK
  <1>3. /\ n + 1 \in Nat /\ s \in [Nat -> Addr \cup {NoAddr}] /\ s[n + 1] = a
        /\ \A k \in 0 .. n : s[k] = r[k]
    BY <1>1
  <1>4. \A k \in 1 .. n + 1 : k = n + 1 \/ k \in 1 .. n
    BY <1>1
  <1>5. \A k \in 1 .. n + 1 : k - 1 \in 0 .. n
    BY <1>1
  <1>6. \A k \in 1 .. n : k \in 0 .. n
    OBVIOUS
  <1>7. n + 1 - 1 = n /\ n \in 0 .. n /\ 0 \in 0 .. n
    BY <1>1
  <1> HIDE DEF s
  <1>8. \A k \in 1 .. n + 1 : s[k] \in Addr /\ link'[s[k]][i] = s[k - 1]
    <2> SUFFICES ASSUME NEW k \in 1 .. n + 1 PROVE s[k] \in Addr /\ link'[s[k]][i] = s[k - 1]
      OBVIOUS
    <2>1. CASE k = n + 1
      BY <1>1, <1>2, <1>3, <1>7, <2>1
    <2>2. CASE k \in 1 .. n
      <3>1. s[k] = r[k] /\ s[k - 1] = r[k - 1]
        BY <1>3, <1>5, <1>6, <2>2
      <3> QED
        BY <1>1, <1>2, <2>2, <3>1
    <2> QED
      BY <1>4, <2>1, <2>2
  <1>9. \A k, l \in 1 .. n + 1 : s[k] = s[l] => k = l
    <2>1. \A k \in 1 .. n : s[k] = r[k] /\ r[k] # a
      BY <1>1, <1>3, <1>6
    <2> QED
      BY <1>1, <1>3, <1>4, <2>1
  <1>10. IsList(i, n + 1, s)'
    BY <1>1, <1>2, <1>3, <1>7, <1>8, <1>9 DEF IsList
  <1>11. \A b \in Addr : On(n + 1, s, b) <=> On(n, r, b) \/ b = a
    <2>1. n + 1 \in 1 .. n + 1 /\ \A k \in 1 .. n : k \in 1 .. n + 1
      BY <1>1
    <2> QED
      BY <1>3, <1>4, <1>6, <2>1 DEF On
  <1> QED
    BY <1>10, <1>11

\* The first record of a list can be popped off it.
LEMMA PoppedList ==
  ASSUME TypeOK, NEW i \in Slot, NEW n, NEW r, IsList(i, n, r), Pop(i)
  PROVE  /\ head[i] \in Addr /\ On(n, r, head[i])
         /\ IsList(i, n - 1, r)'
         /\ \A b \in Addr : On(n - 1, r, b) <=> On(n, r, b) /\ b # head[i]
  <1>1. /\ n \in Nat /\ r \in [Nat -> Addr \cup {NoAddr}] /\ r[0] = NoAddr /\ head[i] = r[n]
        /\ \A k \in 1 .. n : r[k] \in Addr /\ link[r[k]][i] = r[k - 1]
        /\ \A k, l \in 1 .. n : r[k] = r[l] => k = l
    BY DEF IsList
  <1>2. n # 0
    BY EmptyList DEF Pop
  <1>3. /\ n - 1 \in Nat /\ n \in 1 .. n
        /\ \A k \in 1 .. n - 1 : k \in 1 .. n /\ k # n
        /\ \A k \in 1 .. n : k = n \/ k \in 1 .. n - 1
    BY <1>1, <1>2
  <1>4. head[i] \in Addr /\ head[i] = r[n]
    BY <1>1, <1>3
  <1>5. head'[i] = r[n - 1]
    BY <1>1, <1>3, <1>4 DEF Pop, TypeOK
  <1>6. \A b \in Addr : b # head[i] => link'[b][i] = link[b][i]
    BY <1>4 DEF Pop, TypeOK
  <1>7. \A k \in 1 .. n - 1 : r[k] \in Addr /\ link'[r[k]][i] = r[k - 1]
    BY <1>1, <1>3, <1>4, <1>6
  <1>8. IsList(i, n - 1, r)'
    BY <1>1, <1>3, <1>5, <1>7 DEF IsList
  <1>9. On(n, r, head[i])
    BY <1>3, <1>4 DEF On
  <1>10. \A b \in Addr : On(n - 1, r, b) <=> On(n, r, b) /\ b # head[i]
    BY <1>1, <1>3, <1>4 DEF On
  <1> QED
    BY <1>4, <1>8, <1>9, <1>10

\* A slot whose list and flags are left alone, and whose owner is not seen to move.
LEMMA SameList ==
  ASSUME NEW i, ListOK(i), head'[i] = head[i],
         \A a \in Addr : /\ link'[a][i] = link[a][i]
                         /\ i \in readers'[a] \cup writers'[a] <=> i \in readers[a] \cup writers[a],
         \A u \in Thread : /\ Storing(u, i)' <=> Storing(u, i)
                           /\ Clearing(u, i)' <=> Clearing(u, i)
                           /\ Storing(u, i) \/ Clearing(u, i) => at'[u] = at[u]
  PROVE  ListOK(i)'
  <1>1. PICK n \in Nat, r \in [Nat -> Addr \cup {NoAddr}] :
          /\ IsList(i, n, r)
          /\ \A a \in Addr : On(n, r, a) => a \in Touched(i) \/ \E t \in Thread : Storing(t, i) /\ at[t] = a
          /\ \A a \in Touched(i) : On(n, r, a) \/ \E t \in Thread : Clearing(t, i) /\ at[t] = a
          /\ \A t \in Thread : Storing(t, i) => On(n, r, at[t])
          /\ \A t \in Thread : Clearing(t, i) => ~On(n, r, at[t])
    BY DEF ListOK
  <1>2. Touched(i)' = Touched(i)
    BY DEF Touched
  <1>3. IsList(i, n, r)'
    BY <1>1 DEF IsList
  <1>4. \A a \in Addr : On(n, r, a) =>
          a \in Touched(i)' \/ \E t \in Thread : Storing(t, i)' /\ at'[t] = a
    BY <1>1, <1>2
  <1>5. \A a \in Touched(i)' : On(n, r, a) \/ \E t \in Thread : Clearing(t, i)' /\ at'[t] = a
    BY <1>1, <1>2
  <1>6. \A t \in Thread : Storing(t, i)' => On(n, r, at'[t])
    BY <1>1
  <1>7. \A t \in Thread : Clearing(t, i)' => ~On(n, r, at'[t])
    BY <1>1
  <1> QED
    BY <1>3, <1>4, <1>5, <1>6, <1>7 DEF ListOK

\* Only the list and the flags of slot j change.
OnlySlot(j) ==
  \A i \in Slot \ {j} :
    /\ head'[i] = head[i]
    /\ \A a \in Addr : /\ link'[a][i] = link[a][i]
                       /\ i \in readers'[a] <=> i \in readers[a]
                       /\ i \in writers'[a] <=> i \in writers[a]

\* A list belongs to one slot: nothing else reads its links.
LEMMA SlotOfList ==
  ASSUME TypeOK, NEW a \in Addr, NEW j \in Slot, PushIfNew(a, j) \/ Pop(j) \/ UNCHANGED lists
  PROVE  \A i \in Slot \ {j} : head'[i] = head[i] /\ \A b \in Addr : link'[b][i] = link[b][i]
  <1>1. CASE UNCHANGED lists
    BY <1>1 DEF lists
  <1>2. CASE head' = [head EXCEPT ![j] = a] /\ link' = [link EXCEPT ![a][j] = head[j]]
    BY <1>2 DEF TypeOK
  <1>3. CASE Pop(j)
    <2>1. head[j] \in Addr
      BY <1>3 DEF Pop, TypeOK
    <2> QED
      BY <1>3, <2>1 DEF Pop, TypeOK
  <1> QED
    BY <1>1, <1>2, <1>3 DEF PushIfNew

\* Thread t works on its slot j, inside of an execution or of a commit.
WorksOn(t, j, l) ==
  /\ pc' = [pc EXCEPT ![t] = l]
  /\ \/ Index(epoch[t]) = j /\ pc[t] \in RunLabels \ {"next_mark"} /\ l \in RunLabels \ {"rollback_done"}
     \/ Index(cur[t]) = j /\ pc[t] \in CommitLabels /\ l \in CommitLabels \ {"commit_done"}
  /\ UNCHANGED epochData
  /\ \A u \in Thread \ {t} : at'[u] = at[u]

\* The invariant of the lists is kept if it is for the slot the thread works on.
LEMMA WorkLists ==
  ASSUME RingInv, ListsInv, NEW t \in Thread, NEW j \in Slot, NEW l, WorksOn(t, j, l),
         OnlySlot(j), ListOK(j)'
  PROVE  ListsInv'
  <1>0. Owns(t, j) /\ status[j] # "commit" /\ pc \in [Thread -> Client!Labels \cup TrackerLabels]
    BY OwnedStatus DEF WorksOn, Owns, RingInv, TypeInv, PcOK
  <1>1. \A u \in Thread \ {t} : ~Owns(u, j)
    BY <1>0, OneOwner
  <1>2. UNCHANGED <<status, epoch, cur>>
    BY DEF WorksOn, epochData
  <1>3. \A u \in Thread \ {t} : pc'[u] = pc[u]
    BY <1>0 DEF WorksOn
  <1>4. pc'[t] = l
    BY <1>0 DEF WorksOn
  <1>5. EmptyOK'
    <2>1. \A i \in Slot : status'[i] = "commit" => head'[i] = NoAddr
      BY <1>0, <1>2 DEF ListsInv, EmptyOK, OnlySlot
    <2>2. ASSUME NEW u \in Thread, pc'[u] = "commit_done"
          PROVE  head'[Index(cur'[u])] = NoAddr
      <3>1. u # t
        BY <2>2, <1>4 DEF WorksOn, RunLabels, Client!Rolling, Tracking, Loading
      <3>2. pc[u] = "commit_done" /\ Owns(u, Index(cur[u]))
        BY <2>2, <3>1, <1>3 DEF Owns, CommitLabels
      <3>3. Index(cur[u]) # j /\ Index(cur[u]) \in Slot
        <4>1. cur[u] \in Int
          BY EpochTypes DEF RingInv, TypeInv
        <4> QED
          BY <1>1, <3>1, <3>2, <4>1, IndexInSlot
      <3> QED
        BY <1>2, <3>2, <3>3 DEF ListsInv, EmptyOK, OnlySlot
    <2>3. ASSUME NEW u \in Thread, pc'[u] = "rollback_done"
          PROVE  head'[Index(epoch'[u])] = NoAddr
      <3>1. u # t
        BY <2>3, <1>4 DEF WorksOn, CommitLabels, Publishing
      <3>2. pc[u] = "rollback_done" /\ Owns(u, Index(epoch[u]))
        BY <2>3, <3>1, <1>3 DEF Owns, RunLabels
      <3>3. Index(epoch[u]) # j /\ Index(epoch[u]) \in Slot
        <4>1. epoch[u] \in Int
          BY EpochTypes DEF RingInv, TypeInv
        <4> QED
          BY <1>1, <3>1, <3>2, <4>1, IndexInSlot
      <3> QED
        BY <1>2, <3>2, <3>3 DEF ListsInv, EmptyOK, OnlySlot
    <2> QED
      BY <2>1, <2>2, <2>3 DEF EmptyOK
  <1>6. ASSUME NEW i \in Slot, i # j
        PROVE  ListOK(i)'
    <2>1. \A u \in Thread \ {t} : /\ Storing(u, i)' <=> Storing(u, i)
                                  /\ Clearing(u, i)' <=> Clearing(u, i)
                                  /\ at'[u] = at[u]
      BY <1>2, <1>3 DEF Storing, Clearing, WorksOn
    <2>2. ~Storing(t, i) /\ ~Clearing(t, i) /\ ~Storing(t, i)' /\ ~Clearing(t, i)'
      BY <1>2, <1>4, <1>6 DEF Storing, Clearing, WorksOn, RunLabels, CommitLabels, Publishing,
         Client!Rolling, Tracking, Loading
    <2>3. ListOK(i)
      BY DEF ListsInv
    <2> QED
      BY <1>6, <2>1, <2>2, <2>3, SameList DEF OnlySlot
  <1> QED
    BY <1>5, <1>6 DEF ListsInv

\* A step that leaves the lists, the flags, and who is on the way to them alone.
LEMMA QuietLists ==
  ASSUME ListsInv, EmptyOK', UNCHANGED <<flags, lists>>,
         \A u \in Thread :
           \/ UNCHANGED <<pc[u], epoch[u], cur[u], at[u]>>
           \/ /\ pc[u] \notin Publishing \cup {"store_flag"}
              /\ pc'[u] \notin Publishing \cup {"store_flag"}
           \/ /\ pc[u] \in Publishing /\ pc'[u] \in Publishing
              /\ UNCHANGED <<cur[u], at[u]>>
  PROVE  ListsInv'
  <1>1. ASSUME NEW i \in Slot
        PROVE  ListOK(i)'
    <2>1. ListOK(i)
      BY DEF ListsInv
    <2>2. \A u \in Thread : /\ Storing(u, i)' <=> Storing(u, i)
                            /\ Clearing(u, i)' <=> Clearing(u, i)
                            /\ Storing(u, i) \/ Clearing(u, i) => at'[u] = at[u]
      BY DEF Storing, Clearing, Publishing
    <2> QED
      BY <2>1, <2>2, SameList DEF flags, lists
  <1> QED
    BY <1>1 DEF ListsInv

\* What a thread finds on its own slot when no record is on the way.
LEMMA OwnList ==
  ASSUME RingInv, NEW t \in Thread, NEW j, Owns(t, j), ListOK(j),
         pc[t] \notin Publishing \cup {"store_flag"}
  PROVE  \E n \in Nat, r \in [Nat -> Addr \cup {NoAddr}] :
           /\ IsList(j, n, r)
           /\ \A a \in Addr : On(n, r, a) <=> j \in readers[a] \cup writers[a]
  <1>1. \A u \in Thread : ~Storing(u, j) /\ ~Clearing(u, j)
    <2>1. \A u \in Thread \ {t} : ~Owns(u, j)
      BY OneOwner
    <2>2. \A u \in Thread : Storing(u, j) \/ Clearing(u, j) => Owns(u, j)
      BY DEF Storing, Clearing, Owns, RunLabels, CommitLabels, Tracking
    <2> QED
      BY <2>1, <2>2 DEF Storing, Clearing
  <1> QED
    BY <1>1 DEF ListOK, Touched

\* Which threads are on the way to slot j after a step of the one that owns it.
LEMMA OwnTransit ==
  ASSUME RingInv, NEW t \in Thread, NEW j \in Slot, NEW l, WorksOn(t, j, l)
  PROVE  /\ \A u \in Thread \ {t} : ~Storing(u, j)' /\ ~Clearing(u, j)'
         /\ Storing(t, j)' <=> l = "store_flag"
         /\ Clearing(t, j)' <=> l \in Publishing
  <1>1. pc \in [Thread -> Client!Labels \cup TrackerLabels]
    BY DEF RingInv, TypeInv, PcOK
  <1>2. Owns(t, j)
    BY DEF WorksOn, Owns
  <1>3. \A u \in Thread \ {t} : ~Owns(u, j)
    BY <1>2, OneOwner
  <1>4. UNCHANGED <<epoch, cur>> /\ pc'[t] = l /\ \A u \in Thread \ {t} : pc'[u] = pc[u]
    BY <1>1 DEF WorksOn, epochData
  <1>5. \A u \in Thread \ {t} : ~Storing(u, j)' /\ ~Clearing(u, j)'
    BY <1>3, <1>4 DEF Storing, Clearing, Owns, RunLabels, CommitLabels, Tracking
  <1>6. /\ Storing(t, j)' <=> l = "store_flag"
        /\ Clearing(t, j)' <=> l \in Publishing
    BY <1>4 DEF Storing, Clearing, WorksOn, RunLabels, CommitLabels, Tracking, Loading, Publishing,
       Client!Rolling
  <1> QED
    BY <1>5, <1>6

\* A load pushes the record and sets its read flag at once; a store pushes it and
\* leaves the write flag to the next step.
LEMMA PushLists ==
  ASSUME RingInv, ListsInv, NEW t \in Thread, NEW a \in Addr, NEW j \in Slot, NEW l,
         WorksOn(t, j, l), pc[t] = "exec", PushIfNew(a, j), at'[t] = a,
         \/ /\ l = "load_mask" /\ UNCHANGED writers
            /\ readers' = [readers EXCEPT ![a] = @ \cup {j}]
         \/ l = "store_flag" /\ UNCHANGED flags
  PROVE  ListsInv'
  <1>0. TypeOK /\ Owns(t, j) /\ ListOK(j)
    BY DEF RingInv, TypeInv, WorksOn, Owns, ListsInv
  <1>1. PICK n \in Nat, r \in [Nat -> Addr \cup {NoAddr}] :
          /\ IsList(j, n, r)
          /\ \A b \in Addr : On(n, r, b) <=> j \in readers[b] \cup writers[b]
    BY <1>0, OwnList DEF Publishing
  <1>2. OnlySlot(j)
    <2>1. \A i \in Slot \ {j} : head'[i] = head[i] /\ \A b \in Addr : link'[b][i] = link[b][i]
      BY <1>0, SlotOfList
    <2>2. \A i \in Slot \ {j} : \A b \in Addr : /\ i \in readers'[b] <=> i \in readers[b]
                                                /\ i \in writers'[b] <=> i \in writers[b]
      <3>1. CASE UNCHANGED flags
        BY <3>1 DEF flags
      <3>2. CASE UNCHANGED writers /\ readers' = [readers EXCEPT ![a] = @ \cup {j}]
        BY <1>0, <3>2 DEF TypeOK
      <3> QED
        BY <3>1, <3>2
    <2> QED
      BY <2>1, <2>2 DEF OnlySlot
  <1>3. \E m, s : /\ IsList(j, m, s)'
                  /\ \A b \in Addr : On(m, s, b) <=> On(n, r, b) \/ b = a
    <2>1. CASE j \in readers[a] \cup writers[a]
      <3>1. IsList(j, n, r)' /\ On(n, r, a)
        BY <1>1, <2>1 DEF PushIfNew, lists, IsList
      <3> QED
        BY <3>1
    <2>2. CASE j \notin readers[a] \cup writers[a]
      BY <1>0, <1>1, <2>2, PushedList DEF PushIfNew
    <2> QED
      BY <2>1, <2>2
  <1>4. PICK m \in Nat, s \in [Nat -> Addr \cup {NoAddr}] :
          /\ IsList(j, m, s)'
          /\ \A b \in Addr : On(m, s, b) <=> On(n, r, b) \/ b = a
    BY <1>3 DEF IsList
  <1>5. /\ \A u \in Thread \ {t} : ~Storing(u, j)' /\ ~Clearing(u, j)'
        /\ Storing(t, j)' <=> l = "store_flag"
        /\ ~Clearing(t, j)'
    BY OwnTransit DEF Publishing
  <1>6. \A b \in Addr : b \in Touched(j)' <=>
          \/ j \in readers[b] \cup writers[b]
          \/ l = "load_mask" /\ b = a
    BY <1>0 DEF Touched, TypeOK, flags
  <1>7. ListOK(j)'
    <2>1. \A b \in Addr : On(m, s, b) => b \in Touched(j)' \/ \E u \in Thread : Storing(u, j)' /\ at'[u] = b
      BY <1>1, <1>4, <1>5, <1>6
    <2>2. \A b \in Touched(j)' : On(m, s, b)
      BY <1>1, <1>4, <1>6 DEF Touched
    <2>3. \A u \in Thread : Storing(u, j)' => On(m, s, at'[u])
      BY <1>4, <1>5
    <2> QED
      BY <1>4, <1>5, <2>1, <2>2, <2>3 DEF ListOK
  <1> QED
    BY <1>2, <1>7, WorkLists

\* The write flag of the record that was pushed is set.
LEMMA StoreFlagLists ==
  ASSUME RingInv, ListsInv, NEW t \in Thread, NEW j \in Slot, NEW l,
         WorksOn(t, j, l), pc[t] = "store_flag", l = "violation_last", UNCHANGED <<lists, readers>>,
         writers' = [writers EXCEPT ![at[t]] = @ \cup {j}]
  PROVE  ListsInv'
  <1>0. TypeOK /\ Owns(t, j) /\ ListOK(j) /\ at[t] \in Addr /\ Storing(t, j)
    <2>1. at[t] \in Addr
      BY DEF RingInv, TypeInv, AtOK, TrackerLabels
    <2> QED
      BY <2>1 DEF RingInv, TypeInv, WorksOn, Owns, ListsInv, Storing, CommitLabels, Publishing
  <1>1. \A u \in Thread \ {t} : ~Storing(u, j) /\ ~Clearing(u, j)
    <2>1. \A u \in Thread \ {t} : ~Owns(u, j)
      BY <1>0, OneOwner
    <2> QED
      BY <2>1 DEF Storing, Clearing, Owns, RunLabels, CommitLabels, Tracking
  <1>2. ~Clearing(t, j)
    BY DEF Clearing, Publishing
  <1>3. PICK n \in Nat, r \in [Nat -> Addr \cup {NoAddr}] :
          /\ IsList(j, n, r)
          /\ \A b \in Addr : On(n, r, b) => b \in Touched(j) \/ b = at[t]
          /\ \A b \in Touched(j) : On(n, r, b)
          /\ On(n, r, at[t])
    BY <1>0, <1>1, <1>2 DEF ListOK
  <1>4. IsList(j, n, r)'
    BY <1>3 DEF IsList, lists
  <1>5. \A u \in Thread : ~Storing(u, j)' /\ ~Clearing(u, j)'
    BY OwnTransit DEF Publishing
  <1>6. \A b \in Addr : b \in Touched(j)' <=> b \in Touched(j) \/ b = at[t]
    BY <1>0 DEF Touched, TypeOK
  <1>7. \A b \in Touched(j)' : On(n, r, b)
    BY <1>3, <1>6 DEF Touched
  <1>8. \A b \in Addr : On(n, r, b) => b \in Touched(j)'
    BY <1>3, <1>6
  <1>9. ListOK(j)'
    BY <1>4, <1>5, <1>7, <1>8 DEF ListOK
  <1>10. OnlySlot(j)
    BY <1>0 DEF OnlySlot, TypeOK, lists
  <1> QED
    BY <1>9, <1>10, WorkLists

\* A record is popped, by an undo that clears its flags or a commit that will.
LEMMA PopLists ==
  ASSUME RingInv, ListsInv, NEW t \in Thread, NEW j \in Slot, NEW l,
         WorksOn(t, j, l), pc[t] \in {"undo", "publish"}, Pop(j),
         \/ l = "undo" /\ ClearFlags(head[j], j)
         \/ l \in Publishing /\ UNCHANGED flags /\ at'[t] = head[j]
  PROVE  ListsInv'
  <1>0. TypeOK /\ Owns(t, j) /\ ListOK(j)
    BY DEF RingInv, TypeInv, WorksOn, Owns, ListsInv
  <1>1. PICK n \in Nat, r \in [Nat -> Addr \cup {NoAddr}] :
          /\ IsList(j, n, r)
          /\ \A b \in Addr : On(n, r, b) <=> j \in readers[b] \cup writers[b]
    BY <1>0, OwnList DEF Publishing
  <1>2. /\ head[j] \in Addr
        /\ IsList(j, n - 1, r)'
        /\ \A b \in Addr : On(n - 1, r, b) <=> On(n, r, b) /\ b # head[j]
    BY <1>0, <1>1, PoppedList
  <1>3. /\ \A u \in Thread \ {t} : ~Storing(u, j)' /\ ~Clearing(u, j)'
        /\ ~Storing(t, j)'
        /\ Clearing(t, j)' <=> l \in Publishing
    BY OwnTransit DEF Publishing
  <1>4. \A b \in Addr : b \in Touched(j)' <=>
          j \in readers[b] \cup writers[b] /\ (l = "undo" => b # head[j])
    BY <1>0, <1>2 DEF Touched, TypeOK, flags, ClearFlags, Publishing
  <1>5. n - 1 \in Nat
    BY <1>2 DEF IsList
  <1>6. ListOK(j)'
    <2>1. \A b \in Addr : On(n - 1, r, b) => b \in Touched(j)'
      BY <1>1, <1>2, <1>4
    <2>2. \A b \in Touched(j)' : On(n - 1, r, b) \/ \E u \in Thread : Clearing(u, j)' /\ at'[u] = b
      BY <1>1, <1>2, <1>3, <1>4 DEF Touched
    <2>3. \A u \in Thread : Clearing(u, j)' => ~On(n - 1, r, at'[u])
      BY <1>2, <1>3 DEF Publishing
    <2> QED
      BY <1>2, <1>3, <1>5, <2>1, <2>2, <2>3 DEF ListOK
  <1>7. OnlySlot(j)
    <2>1. \A i \in Slot \ {j} : head'[i] = head[i] /\ \A b \in Addr : link'[b][i] = link[b][i]
      BY <1>0, <1>2, SlotOfList
    <2>2. \A i \in Slot \ {j} : \A b \in Addr : /\ i \in readers'[b] <=> i \in readers[b]
                                                /\ i \in writers'[b] <=> i \in writers[b]
      BY <1>0, <1>2 DEF TypeOK, flags, ClearFlags
    <2> QED
      BY <2>1, <2>2 DEF OnlySlot
  <1> QED
    BY <1>6, <1>7, WorkLists

\* The flags of the record that a commit popped are cleared.
LEMMA ClearLists ==
  ASSUME RingInv, ListsInv, NEW t \in Thread, NEW j \in Slot, NEW l,
         WorksOn(t, j, l), pc[t] = "publish_clear", l = "publish", UNCHANGED lists,
         ClearFlags(at[t], j)
  PROVE  ListsInv'
  <1>0. TypeOK /\ Owns(t, j) /\ ListOK(j) /\ at[t] \in Addr /\ Clearing(t, j)
    <2>1. at[t] \in Addr
      BY DEF RingInv, TypeInv, AtOK, TrackerLabels
    <2> QED
      BY <2>1 DEF RingInv, TypeInv, WorksOn, Owns, ListsInv, Clearing, RunLabels, Publishing,
         Client!Rolling, Tracking, Loading
  <1>1. \A u \in Thread \ {t} : ~Storing(u, j) /\ ~Clearing(u, j)
    <2>1. \A u \in Thread \ {t} : ~Owns(u, j)
      BY <1>0, OneOwner
    <2> QED
      BY <2>1 DEF Storing, Clearing, Owns, RunLabels, CommitLabels, Tracking
  <1>2. ~Storing(t, j)
    BY DEF Storing
  <1>3. PICK n \in Nat, r \in [Nat -> Addr \cup {NoAddr}] :
          /\ IsList(j, n, r)
          /\ \A b \in Addr : On(n, r, b) => b \in Touched(j)
          /\ \A b \in Touched(j) : On(n, r, b) \/ b = at[t]
          /\ ~On(n, r, at[t])
    BY <1>0, <1>1, <1>2 DEF ListOK
  <1>4. IsList(j, n, r)'
    BY <1>3 DEF IsList, lists
  <1>5. \A u \in Thread : ~Storing(u, j)' /\ ~Clearing(u, j)'
    BY OwnTransit DEF Publishing
  <1>6. \A b \in Addr : b \in Touched(j)' <=> b \in Touched(j) /\ b # at[t]
    BY <1>0 DEF Touched, TypeOK, ClearFlags
  <1>7. \A b \in Touched(j)' : On(n, r, b)
    BY <1>3, <1>6 DEF Touched
  <1>8. \A b \in Addr : On(n, r, b) => b \in Touched(j)'
    BY <1>3, <1>6
  <1>9. ListOK(j)'
    BY <1>4, <1>5, <1>7, <1>8 DEF ListOK
  <1>10. OnlySlot(j)
    BY <1>0 DEF OnlySlot, TypeOK, lists, ClearFlags
  <1> QED
    BY <1>9, <1>10, WorkLists

\* The steps of the tracker on the records of a slot.
LEMMA TouchLists ==
  ASSUME RingInv, ListsInv, NEW t \in Thread,
         \/ \E a \in Addr : LoadFlag(t, a) \/ \E v \in Value : StoreBuf(t, a, v)
         \/ StoreFlag(t) \/ CommitWrite(t) \/ CommitClear(t) \/ UndoPop(t)
  PROVE  ListsInv'
  <1>0. Index(epoch[t]) \in Slot /\ Index(cur[t]) \in Slot /\ at \in [Thread -> Addr \cup {NoAddr}]
    <2>1. epoch[t] \in Int /\ cur[t] \in Int
      BY EpochTypes DEF RingInv, TypeInv
    <2> QED
      BY <2>1, IndexInSlot DEF RingInv, TypeInv, TypeOK
  <1> USE DEF Goto, RunLabels, CommitLabels, Tracking, Loading, Publishing
  <1>1. ASSUME NEW a \in Addr, LoadFlag(t, a)
        PROVE  ListsInv'
    <2>1. WorksOn(t, Index(epoch[t]), "load_mask")
      BY <1>0, <1>1 DEF WorksOn, LoadFlag
    <2> QED
      BY <1>0, <1>1, <2>1, PushLists DEF LoadFlag
  <1>2. ASSUME NEW a \in Addr, NEW v \in Value, StoreBuf(t, a, v)
        PROVE  ListsInv'
    <2>1. WorksOn(t, Index(epoch[t]), "store_flag")
      BY <1>0, <1>2 DEF WorksOn, StoreBuf
    <2>2. /\ pc[t] = "exec" /\ PushIfNew(a, Index(epoch[t])) /\ at'[t] = a
          /\ UNCHANGED flags
      BY <1>0, <1>2 DEF StoreBuf
    <2> QED
      BY <1>0, <2>1, <2>2, PushLists
  <1>3. CASE StoreFlag(t)
    <2>1. WorksOn(t, Index(epoch[t]), "violation_last")
      BY <1>0, <1>3 DEF WorksOn, StoreFlag
    <2> QED
      BY <1>0, <1>3, <2>1, StoreFlagLists DEF StoreFlag
  <1>4. CASE CommitWrite(t)
    <2>1. PICK l \in Publishing : WorksOn(t, Index(cur[t]), l)
      BY <1>0, <1>4 DEF WorksOn, CommitWrite
    <2>2. /\ pc[t] = "publish" /\ Pop(Index(cur[t])) /\ at'[t] = head[Index(cur[t])]
          /\ UNCHANGED flags
      BY <1>0, <1>4 DEF CommitWrite
    <2> QED
      BY <1>0, <2>1, <2>2, PopLists
  <1>5. CASE CommitClear(t)
    <2>1. WorksOn(t, Index(cur[t]), "publish")
      BY <1>0, <1>5 DEF WorksOn, CommitClear, DropLocals
    <2> QED
      BY <1>0, <1>5, <2>1, ClearLists DEF CommitClear
  <1>6. CASE UndoPop(t)
    <2>1. WorksOn(t, Index(epoch[t]), "undo")
      BY <1>0, <1>6 DEF WorksOn, UndoPop, depLocals
    <2> QED
      BY <1>0, <1>6, <2>1, PopLists DEF UndoPop
  <1> QED
    BY <1>1, <1>2, <1>3, <1>4, <1>5, <1>6

\* What a step of epoch.c leaves alone: the other threads, and the free slots but the
\* one whose commit is over.
LEMMA RingFrame ==
  ASSUME RingInv, NEW t \in Thread, Ring(t)
  PROVE  /\ \A u \in Thread \ {t} : UNCHANGED <<pc[u], epoch[u], start[u], cur[u]>>
         /\ pc'[t] \notin {"commit_done", "rollback_done"}
         /\ \A i \in Slot : status'[i] = "commit" =>
              status[i] = "commit" \/ (pc[t] = "commit_done" /\ i = Index(cur[t]))
  <1> DEFINE Frame == \A u \in Thread \ {t} : UNCHANGED <<pc[u], epoch[u], start[u], cur[u]>>
             Labels == pc'[t] \notin {"commit_done", "rollback_done"}
             Free == \A i \in Slot : status'[i] = "commit" =>
                       status[i] = "commit" \/ (pc[t] = "commit_done" /\ i = Index(cur[t]))
  <1>0. /\ pc \in [Thread -> Client!Labels \cup TrackerLabels]
        /\ status \in [Slot -> Status]
        /\ epoch \in [Thread -> Nat] /\ start \in [Thread -> Nat] /\ cur \in [Thread -> Nat]
    BY EpochTypes DEF RingInv, TypeInv, PcOK
  <1>1. Labels
    <2>1. PICK l \in Client!Labels :
            pc' = [pc EXCEPT ![t] = l] /\ l \notin {"commit_done", "rollback_done"}
      BY RingLabels DEF RingInv, TypeInv
    <2> QED
      BY <1>0, <2>1
  <1>2. Frame
    <2> USE DEF Goto, locals, Forget
    <2>1. CASE NextEnter(t) \/ NextLook(t) \/ NextStall(t) \/ NextFinish(t) \/ NextClaim(t)
      BY <1>0, <2>1 DEF NextEnter, NextLook, NextStall, NextFinish, NextClaim
    <2>2. CASE NextMark(t) \/ RollbackDone(t) \/ RollbackLock(t) \/ RollbackEnter(t)
               \/ RollbackSkip(t) \/ RollbackStatus(t)
      BY <1>0, <2>2 DEF NextMark, RollbackDone, RollbackLock, RollbackEnter, RollbackSkip,
         RollbackStatus
    <2>3. CASE RollbackFlag(t) \/ RollbackNext(t) \/ RollbackStopKeep(t)
               \/ RollbackStopRead(t) \/ RollbackStopCas(t) \/ RollbackExit(t)
      BY <1>0, <2>3 DEF RollbackFlag, RollbackNext, RollbackStopKeep, RollbackStopRead,
         RollbackStopCas, StopCas, RollbackExit
    <2>4. CASE Stop(t) \/ SetDone(t) \/ GetCommit(t) \/ GetCommitNone(t) \/ GetCommitCheck(t)
               \/ GetCommitCas(t)
      BY <1>0, <2>4 DEF Stop, SetDone, GetCommit, GetCommitNone, GetCommitCheck, GetCommitCas
    <2>5. CASE CommitDone(t) \/ FirstRead(t) \/ FirstCheck(t) \/ FirstCas(t)
               \/ UpdateStopKeep(t) \/ UpdateStopRead(t) \/ UpdateStopCas(t) \/ Signal(t)
      BY <1>0, <2>5 DEF CommitDone, FirstRead, FirstCheck, FirstCas, UpdateStopKeep,
         UpdateStopRead, UpdateStopCas, StopCas, Signal
    <2> QED
      BY <2>1, <2>2, <2>3, <2>4, <2>5 DEF Ring
  <1>3. Free
    <2>0. Index(epoch[t]) \in Slot /\ Index(cur[t]) \in Slot
      BY <1>0, IndexInSlot
    <2>1. CASE UNCHANGED status
      BY <2>1
    <2>2. CASE NextMark(t) \/ RollbackStatus(t) \/ SetDone(t)
      BY <1>0, <2>0, <2>2 DEF NextMark, RollbackStatus, SetDone
    <2>3. CASE CommitDone(t)
      BY <1>0, <2>0, <2>3 DEF CommitDone, Goto
    <2>4. \/ UNCHANGED status
          \/ NextMark(t) \/ RollbackStatus(t) \/ SetDone(t) \/ CommitDone(t)
      BY DEF Ring, NextEnter, NextLook, NextStall, NextFinish, NextClaim, RollbackDone, RollbackLock,
         RollbackEnter, RollbackSkip, RollbackFlag, RollbackNext, RollbackStopKeep, RollbackStopRead,
         RollbackStopCas, RollbackExit, Stop, GetCommit, GetCommitNone, GetCommitCheck, GetCommitCas,
         FirstRead, FirstCheck, FirstCas, UpdateStopKeep, UpdateStopRead, UpdateStopCas, Signal
    <2> QED
      BY <2>1, <2>2, <2>3, <2>4
  <1> QED
    BY <1>1, <1>2, <1>3

\* The other steps keep the empty lists empty, and leave the flags alone.
LEMMA OtherLists ==
  ASSUME RingInv, ListsInv, NEW t \in Thread, UNCHANGED <<flags, lists>>,
         \/ Loads(t) \/ ViolationLast(t) \/ ViolationFlags(t) \/ Drain(t)
         \/ CommitLast(t) \/ CommitReturn(t) \/ UndoReturn(t)
         \/ StoreNowhere(t) \/ Return(t)
         \/ Ring(t) /\ UNCHANGED depVars
  PROVE  ListsInv'
  <1>0. /\ pc \in [Thread -> Client!Labels \cup TrackerLabels]
        /\ at \in [Thread -> Addr \cup {NoAddr}]
        /\ EmptyOK /\ UNCHANGED head
    BY DEF RingInv, TypeInv, PcOK, TypeOK, ListsInv, lists
  <1>1. CASE Ring(t) /\ UNCHANGED depVars
    <2>1. /\ \A u \in Thread \ {t} : UNCHANGED <<pc[u], epoch[u], start[u], cur[u]>>
          /\ pc'[t] \notin {"commit_done", "rollback_done"}
          /\ \A i \in Slot : status'[i] = "commit" =>
               status[i] = "commit" \/ (pc[t] = "commit_done" /\ i = Index(cur[t]))
      BY <1>1, RingFrame
    <2>2. EmptyOK'
      BY <1>0, <2>1 DEF EmptyOK
    <2>3. UNCHANGED at
      BY <1>1 DEF depVars, depLocals
    <2>4. pc[t] \notin TrackerLabels /\ pc'[t] \notin TrackerLabels
      <3>1. PICK l \in Client!Labels : pc[t] \in Client!Labels \ TrackerLabels /\ pc' = [pc EXCEPT ![t] = l]
        BY <1>1, RingLabels DEF RingInv, TypeInv
      <3> QED
        BY <1>0, <3>1 DEF TrackerLabels, Client!Labels, Client!Rolling
    <2> QED
      BY <2>1, <2>2, <2>3, <2>4, QuietLists DEF TrackerLabels, Publishing
  <1>2. CASE \/ Loads(t) \/ ViolationLast(t) \/ ViolationFlags(t) \/ Drain(t)
             \/ CommitLast(t) \/ CommitReturn(t) \/ UndoReturn(t)
             \/ StoreNowhere(t) \/ Return(t)
    <2>1. UNCHANGED <<status, epoch, cur>>
      BY <1>2 DEF Loads, LoadMask, LoadFirst, LoadBuf, LoadCheck, LoadMem, ViolationLast,
         ViolationFlags, Drain, CommitLast, CommitReturn, UndoReturn, StoreNowhere, Return,
         epochVars, epochData, locals
    <2>2. \/ pc' = pc /\ at' = at
          \/ /\ pc[t] \in Loading \cup {"violation_last", "violation_flags", "undo", "publish", "exec"}
             /\ \E l \in Loading \cup {"exec", "violation_flags", "rollback", "stop", "set_done"} :
                  pc' = [pc EXCEPT ![t] = l]
             /\ \A u \in Thread \ {t} : at'[u] = at[u]
          \/ pc[t] = "publish_last" /\ pc' = [pc EXCEPT ![t] = "publish_clear"] /\ at' = at
          \/ pc[t] = "publish" /\ pc' = [pc EXCEPT ![t] = "commit_done"] /\ at' = at
             /\ head[Index(cur[t])] = NoAddr
          \/ pc[t] = "undo" /\ pc' = [pc EXCEPT ![t] = "rollback_done"] /\ at' = at
             /\ head[Index(epoch[t])] = NoAddr
      <3> USE DEF Goto, DropLocals, Loading, depVars, depLocals
      <3>1. CASE LoadMask(t) \/ LoadFirst(t) \/ LoadBuf(t) \/ LoadMem(t)
        BY <1>0, <3>1 DEF LoadMask, LoadFirst, LoadBuf, LoadMem
      <3>2. CASE LoadCheck(t)
        BY <1>0, <3>2 DEF LoadCheck
      <3>3. CASE ViolationLast(t) \/ ViolationFlags(t)
        BY <1>0, <3>3 DEF ViolationLast, ViolationFlags
      <3>4. CASE Drain(t) \/ CommitLast(t) \/ CommitReturn(t) \/ UndoReturn(t) \/ StoreNowhere(t)
        BY <3>4 DEF Drain, CommitLast, CommitReturn, UndoReturn, StoreNowhere, epochVars
      <3>5. CASE Return(t)
        BY <3>5 DEF Return
      <3> QED
        BY <1>2, <3>1, <3>2, <3>3, <3>4, <3>5 DEF Loads
    <2>3. EmptyOK'
      BY <1>0, <2>1, <2>2 DEF EmptyOK, Loading
    <2> QED
      BY <1>0, <2>1, <2>2, <2>3, QuietLists DEF Publishing, Loading
  <1> QED
    BY <1>1, <1>2

\* The steps, put together.
LEMMA StepListsInv == RingInv /\ ListsInv /\ [Next]_vars => ListsInv'
  <1> SUFFICES ASSUME RingInv, ListsInv, [Next]_vars PROVE ListsInv'
    OBVIOUS
  <1>1. ASSUME NEW t \in Thread, Worker(t)
        PROVE  ListsInv'
    <2>1. CASE Executor(t)
      <3>1. CASE Load(t)
        BY <3>1, AdvanceTypes, TouchLists DEF Load, RingInv
      <3>2. CASE Store(t)
        <4>1. Advance(t, "store")
          BY <3>2 DEF Store
        <4>2. op[t] + 1 \in Nat /\ epoch[t] \in Nat /\ Operand(t) \in Addr
          BY <4>1, AdvanceTypes DEF RingInv
        <4>3. Position(epoch[t], op[t] + 1) \in Value /\ Garbage \in Value
          BY <4>2, PositionType DEF Value
        <4>4. \E v \in Value : StoreBuf(t, Operand(t), v)
          BY <3>2, <4>3 DEF Store
        <4> QED
          BY <4>2, <4>4, TouchLists
      <3>3. ASSUME NEW a \in Addr, StoreAstray(t, a)
            PROVE  ListsInv'
        <4>1. Garbage \in Value
          BY DEF Value
        <4> QED
          BY <3>3, <4>1, TouchLists DEF StoreAstray
      <3>4. CASE StoreNowhere(t) \/ LoadEnd(t) \/ Return(t)
        <4>1. UNCHANGED <<flags, lists>>
          BY <3>4 DEF StoreNowhere, LoadEnd, Return, LoadCheck, LoadMem, depVars
        <4> QED
          BY <3>4, <4>1, OtherLists DEF LoadEnd, Loads
      <3> QED
        BY <2>1, <3>1, <3>2, <3>3, <3>4 DEF Executor
    <2>2. CASE Tracker(t) \/ Drain(t)
      <3>1. CASE StoreFlag(t) \/ CommitWrite(t) \/ CommitClear(t) \/ UndoPop(t)
        BY <3>1, TouchLists
      <3>2. CASE LoadMask(t) \/ LoadFirst(t) \/ LoadBuf(t) \/ ViolationLast(t) \/ ViolationFlags(t)
                 \/ Drain(t) \/ CommitLast(t) \/ CommitReturn(t) \/ UndoReturn(t)
        <4>1. UNCHANGED <<flags, lists>>
          BY <3>2 DEF LoadMask, LoadFirst, LoadBuf, ViolationLast, ViolationFlags, Drain, CommitLast,
             CommitReturn, UndoReturn, depVars
        <4> QED
          BY <3>2, <4>1, OtherLists DEF Loads
      <3> QED
        BY <2>2, <3>1, <3>2 DEF Tracker
    <2>3. CASE Ring(t) /\ UNCHANGED <<depVars, op, sound>>
      BY <2>3, OtherLists DEF depVars
    <2> QED
      BY <1>1, <2>1, <2>2, <2>3 DEF Worker
  <1>2. CASE UNCHANGED vars
    <2>1. UNCHANGED <<pc, status, epoch, cur, at, flags, lists>>
      BY <1>2 DEF vars, epochVars, locals, depVars, depLocals
    <2>2. EmptyOK'
      BY <2>1 DEF ListsInv, EmptyOK, lists
    <2> QED
      BY <2>1, <2>2, QuietLists
  <1> QED
    BY <1>1, <1>2 DEF Next

\* The records that a slot's list is read as, step by step.  That there is such a
\* function has to be shown: the one of ChainOfList is.
LEMMA ChainStep ==
  ASSUME NEW i, NEW n, NEW r, IsList(i, n, r), Cardinality(Addr) \in Nat
  PROVE  \A k \in 0 .. Cardinality(Addr) :
           Chain(i)[k] = IF k = 0 THEN head[i]
                         ELSE IF Chain(i)[k - 1] = NoAddr THEN NoAddr ELSE link[Chain(i)[k - 1]][i]
  <1> DEFINE K == 0 .. Cardinality(Addr)
             Q(h) == h = [k \in K |-> IF k = 0 THEN head[i]
                                      ELSE IF h[k - 1] = NoAddr THEN NoAddr ELSE link[h[k - 1]][i]]
             f == [k \in K |-> IF k <= n THEN r[n - k] ELSE NoAddr]
  <1>1. Chain(i) = CHOOSE h : Q(h)
    BY DEF Chain
  <1>2. Q(f)
    <2> SUFFICES ASSUME NEW k \in K
                 PROVE  f[k] = IF k = 0 THEN head[i]
                               ELSE IF f[k - 1] = NoAddr THEN NoAddr ELSE link[f[k - 1]][i]
      OBVIOUS
    <2>1. n \in Nat /\ k \in Nat
      BY DEF IsList
    <2>2. CASE k = 0
      BY <2>1, <2>2 DEF IsList
    <2>3. CASE k # 0 /\ k <= n
      <3>1. k - 1 \in K /\ k - 1 <= n /\ n - (k - 1) \in 1 .. n /\ n - (k - 1) - 1 = n - k
        BY <2>1, <2>3
      <3>2. r[n - (k - 1)] \in Addr /\ link[r[n - (k - 1)]][i] = r[n - k]
        BY <3>1 DEF IsList
      <3> QED
        BY <2>3, <3>1, <3>2, NoAddrAssumption
    <2>4. CASE k = n + 1
      <3>1. k - 1 \in K /\ k - 1 <= n /\ n - (k - 1) = 0 /\ ~(k <= n) /\ k # 0
        BY <2>1, <2>4
      <3> QED
        BY <3>1 DEF IsList
    <2>5. CASE k > n + 1
      <3>1. k - 1 \in K /\ ~(k - 1 <= n) /\ ~(k <= n) /\ k # 0
        BY <2>1, <2>5
      <3> QED
        BY <3>1
    <2> QED
      BY <2>1, <2>2, <2>3, <2>4, <2>5
  <1>3. Q(Chain(i))
    <2> HIDE DEF Q
    <2> QED
      BY <1>1, <1>2
  <1> QED
    BY <1>3

\* Following the links yields the records of the list, then nothing.
LEMMA ChainOfList ==
  ASSUME NEW i, NEW n, NEW r, IsList(i, n, r), n <= Cardinality(Addr), Cardinality(Addr) \in Nat
  PROVE  \A k \in 0 .. Cardinality(Addr) : Chain(i)[k] = IF k <= n THEN r[n - k] ELSE NoAddr
  <1> DEFINE c == Cardinality(Addr)
             W == {k \in 0 .. c : Chain(i)[k] # IF k <= n THEN r[n - k] ELSE NoAddr}
  <1>1. SUFFICES ASSUME W # {} PROVE FALSE
    OBVIOUS
  <1>2. PICK m \in W : \A y \in W : m <= y
    <2>1. W \subseteq Nat
      OBVIOUS
    <2> HIDE DEF W
    <2> QED
      BY <1>1, <2>1, Smallest
  <1>3. n \in Nat
    BY DEF IsList
  <1>4. CASE m = 0
    BY <1>3, <1>4, ChainStep DEF IsList
  <1>5. CASE m # 0
    <2>1. m \in 0 .. c /\ m - 1 \in 0 .. c /\ m - 1 < m
      BY <1>5
    <2>2. Chain(i)[m - 1] = IF m - 1 <= n THEN r[n - (m - 1)] ELSE NoAddr
      <3>1. m - 1 \notin W
        <4> HIDE DEF W
        <4> QED
          BY <1>2, <2>1
      <3> QED
        BY <2>1, <3>1
    <2>3. Chain(i)[m] = IF Chain(i)[m - 1] = NoAddr THEN NoAddr ELSE link[Chain(i)[m - 1]][i]
      BY <1>5, <2>1, ChainStep
    <2>4. CASE m <= n
      <3>1. n - (m - 1) \in 1 .. n /\ n - (m - 1) - 1 = n - m
        BY <1>3, <2>1, <2>4, <1>5
      <3>2. r[n - (m - 1)] \in Addr /\ link[r[n - (m - 1)]][i] = r[n - m]
        BY <3>1 DEF IsList
      <3> QED
        BY <1>3, <2>1, <2>2, <2>3, <2>4, <3>2, NoAddrAssumption
    <2>5. CASE m = n + 1
      <3>1. r[n - (m - 1)] = NoAddr
        BY <1>3, <2>5 DEF IsList
      <3> QED
        BY <1>3, <2>1, <2>2, <2>3, <2>5, <3>1
    <2>6. CASE m > n + 1
      BY <1>3, <2>1, <2>2, <2>3, <2>6
    <2> QED
      BY <1>3, <2>1, <2>4, <2>5, <2>6
  <1> QED
    BY <1>4, <1>5

\* A list is no longer than there are addresses.
LEMMA ListLength ==
  ASSUME NEW i, NEW n, NEW r, IsList(i, n, r)
  PROVE  Cardinality(Addr) \in Nat /\ n <= Cardinality(Addr)
  <1> DEFINE f == [k \in 1 .. n |-> r[k]]
  <1>1. f \in Injection(1 .. n, Addr)
    BY DEF IsList, Injection, IsInjective
  <1>2. Cardinality(1 .. n) <= Cardinality(Addr)
    <2> HIDE DEF f
    <2> QED
      BY <1>1, FS_Injection, AddrAssumption
  <1>3. Cardinality(1 .. n) = n
    BY FS_Interval DEF IsList
  <1> QED
    BY <1>2, <1>3, FS_CardinalityType, AddrAssumption

\* The invariant implies the property.
LEMMA ListsAreRight ==
  ASSUME RingInv, ListsInv
  PROVE  ListsMatchFlags
  <1> SUFFICES ASSUME NEW i \in Slot
               PROVE  /\ Chain(i)[Cardinality(Addr)] = NoAddr
                      /\ Listed(i) \ InTransit(i) = Touched(i) \ InTransit(i)
                      /\ status[i] = "commit" => Listed(i) = {} /\ Touched(i) = {}
    BY DEF ListsMatchFlags
  <1> DEFINE c == Cardinality(Addr)
  <1>1. PICK n \in Nat, r \in [Nat -> Addr \cup {NoAddr}] :
          /\ IsList(i, n, r)
          /\ \A a \in Addr : On(n, r, a) => a \in Touched(i) \/ \E t \in Thread : Storing(t, i) /\ at[t] = a
          /\ \A a \in Touched(i) : On(n, r, a) \/ \E t \in Thread : Clearing(t, i) /\ at[t] = a
    BY DEF ListsInv, ListOK
  <1>2. c \in Nat /\ n <= c
    BY <1>1, ListLength
  <1>3. \A k \in 0 .. c : Chain(i)[k] = IF k <= n THEN r[n - k] ELSE NoAddr
    BY <1>1, <1>2, ChainOfList
  <1>4. Chain(i)[c] = NoAddr
    <2>1. c <= n => n - c = 0
      BY <1>2
    <2> QED
      BY <1>1, <1>2, <1>3, <2>1 DEF IsList
  <1>5. \A a : a \in Listed(i) <=> On(n, r, a)
    <2>1. ASSUME NEW k \in 0 .. c, Chain(i)[k] # NoAddr
          PROVE  On(n, r, Chain(i)[k])
      <3>1. k <= n /\ Chain(i)[k] = r[n - k]
        BY <1>3, <2>1
      <3>2. n - k # 0
        BY <1>1, <2>1, <3>1 DEF IsList
      <3>3. n - k \in 1 .. n
        BY <1>1, <3>1, <3>2
      <3> QED
        BY <3>1, <3>3 DEF On
    <2>2. ASSUME NEW k \in 1 .. n
          PROVE  r[k] \in Listed(i)
      <3>1. n - k \in 0 .. c /\ n - k <= n /\ n - (n - k) = k
        BY <1>1, <1>2
      <3>2. r[k] # NoAddr
        BY <1>1, NoAddrAssumption DEF IsList
      <3>3. Chain(i)[n - k] = r[k]
        BY <1>3, <3>1
      <3> QED
        BY <3>1, <3>2, <3>3 DEF Listed
    <2> QED
      BY <2>1, <2>2 DEF Listed, On
  <1>6. /\ \A t \in Thread : Storing(t, i) => at[t] \in InTransit(i)
        /\ \A t \in Thread : Clearing(t, i) => at[t] \in InTransit(i)
    BY DEF Storing, Clearing, InTransit, Publishing
  <1>7. Listed(i) \ InTransit(i) = Touched(i) \ InTransit(i)
    <2>1. \A a : On(n, r, a) => a \in Addr
      BY <1>1 DEF IsList, On
    <2>2. \A a : a \in Touched(i) => a \in Addr
      BY DEF Touched
    <2> QED
      BY <1>1, <1>5, <1>6, <2>1, <2>2
  <1>8. ASSUME status[i] = "commit"
        PROVE  Listed(i) = {} /\ Touched(i) = {}
    <2>1. n = 0
      BY <1>1, <1>8, EmptyList DEF ListsInv, EmptyOK
    <2>2. \A a : ~On(n, r, a)
      BY <2>1 DEF On
    <2>3. \A t \in Thread : ~Clearing(t, i)
      BY <1>8, OwnedStatus DEF Clearing, CommitLabels
    <2> QED
      BY <1>1, <1>5, <2>2, <2>3
  <1> QED
    BY <1>4, <1>7, <1>8

\* Every list is empty at first.
LEMMA InitListsInv == Init => ListsInv
  <1> SUFFICES ASSUME Init PROVE ListsInv
    OBVIOUS
  <1>1. /\ head = [i \in Slot |-> NoAddr] /\ pc = [t \in Thread |-> "next"]
        /\ readers = [a \in Addr |-> {}] /\ writers = [a \in Addr |-> {}]
    BY DEF Init, EpochInit, DependencyInit
  <1>2. EmptyOK
    BY <1>1 DEF EmptyOK
  <1>3. ASSUME NEW i \in Slot
        PROVE  ListOK(i)
    <2> DEFINE r == [k \in Nat |-> NoAddr]
    <2>1. IsList(i, 0, r)
      BY <1>1 DEF IsList
    <2>2. Touched(i) = {} /\ \A a : ~On(0, r, a)
      BY <1>1 DEF Touched, On
    <2>3. \A t \in Thread : ~Storing(t, i) /\ ~Clearing(t, i)
      BY <1>1 DEF Storing, Clearing, Publishing
    <2>4. r \in [Nat -> Addr \cup {NoAddr}] /\ 0 \in Nat
      OBVIOUS
    <2> HIDE DEF r
    <2> QED
      BY <2>1, <2>2, <2>3, <2>4 DEF ListOK
  <1> QED
    BY <1>2, <1>3 DEF ListsInv

\* Both invariants hold always.
LEMMA AlwaysListsInv == Spec => [](RingInv /\ ListsInv)
  BY InitRingInv, StepRingInv, InitListsInv, StepListsInv, PTL DEF Spec

(* The records of a slot are found by following its list, each once, and    *)
(* are those that have a flag of the slot: whatever the loop is, executions *)
(* that misread their input included, no flag outlives the epoch it is for. *)
THEOREM ListsFollowFlags == Spec => []ListsMatchFlags
  <1>1. RingInv /\ ListsInv => ListsMatchFlags
    BY ListsAreRight
  <1> QED
    BY <1>1, AlwaysListsInv, PTL

-----------------------------------------------------------------------------
(***************************************************************************)
(* The speculative run computes what the sequential loop computes, for     *)
(* every loop, number of threads and size of the ring, provided that an    *)
(* execution that read a wrong value stores where a right one does         *)
(* (~DataDependent) and that no write is delayed past the reads that       *)
(* follow it (~Delays).                                                    *)
(*                                                                         *)
(* The argument: whatever an execution misses was stored too late by an    *)
(* earlier epoch, and until that one is done there is a thread that dooms  *)
(* the execution (Threat): it still has the store to make, or has made it  *)
(* and is about to find the read, or is rolling back.  No thread is left   *)
(* to doom the epoch whose commit is claimed.                              *)
(***************************************************************************)

(* The values of the sequential run.                                        *)

\* The operation k of iteration e stores to a; some operation does.
WritesAt(e, a, k) == k \in 1 .. Len(Body(e)) /\ Body(e)[k] = <<"store", a>>
Writes(e, a) == \E k \in Nat : WritesAt(e, a, k)

\* The last store to a before the operation i of iteration e, in the iteration.
LastBefore(e, a, i, k) ==
  k < i /\ WritesAt(e, a, k) /\ \A l \in Nat : l < i /\ WritesAt(e, a, l) => l <= k

\* Positions follow the order of the iterations, then of their operations.
LEMMA PositionOrder ==
  ASSUME NEW c \in Nat, NEW e \in Nat, c < e, NEW k \in 0 .. Width, NEW l \in Nat, 1 <= l
  PROVE  Position(c, k) < Position(e, l)
  <1>0. Width \in Nat
    BY LoopType
  <1>1. PICK d \in Nat : e = c + 1 + d
    <2>1. e - c - 1 \in Nat /\ e = c + 1 + (e - c - 1)
      OBVIOUS
    <2> QED
      BY <2>1
  <1>2. e * Width = c * Width + Width + d * Width
    BY <1>0, <1>1
  <1>3. d * Width \in Nat /\ c * Width \in Nat
    BY <1>0
  <1>4. \A m, n, p \in Nat : p = m + Width + n => m + k < p + l
    BY <1>0
  <1>5. e * Width \in Nat
    BY <1>0
  <1> QED
    BY <1>2, <1>3, <1>4, <1>5 DEF Position

\* The operation of a store and its position have their types.
LEMMA WritesType ==
  ASSUME NEW e \in Nat, NEW a, NEW k, WritesAt(e, a, k)
  PROVE  /\ k \in 1 .. Width /\ k \in Nat
         /\ Position(e, k) \in Nat /\ Position(e, k) \in StoresOf(e, a)
  <1>1. Len(Body(e)) \in 0 .. Width /\ Width \in Nat /\ DOMAIN Body(e) = 1 .. Len(Body(e))
    BY LoopType
  <1>2. k \in 1 .. Width /\ k \in Nat /\ k \in DOMAIN Body(e) /\ Body(e)[k] = <<"store", a>>
    BY <1>1 DEF WritesAt
  <1> QED
    BY <1>2, PositionType DEF StoresOf

\* The positions of the stores of an iteration.
LEMMA StoresOfWrites ==
  ASSUME NEW e \in Nat, NEW a
  PROVE  /\ \A q \in StoresOf(e, a) : \E k \in Nat : WritesAt(e, a, k) /\ q = Position(e, k)
         /\ StoresOf(e, a) \subseteq Nat
         /\ StoresOf(e, a) # {} <=> Writes(e, a)
  <1>1. DOMAIN Body(e) = 1 .. Len(Body(e)) /\ Len(Body(e)) \in Nat
    BY LoopType
  <1>2. ASSUME NEW q \in StoresOf(e, a)
        PROVE  \E k \in Nat : WritesAt(e, a, k) /\ q = Position(e, k)
    BY <1>1 DEF StoresOf, WritesAt
  <1>3. StoresOf(e, a) \subseteq Nat
    BY <1>2, PositionType
  <1>4. Writes(e, a) => StoresOf(e, a) # {}
    BY WritesType DEF Writes
  <1>5. StoresOf(e, a) # {} => Writes(e, a)
    BY <1>2 DEF Writes
  <1> QED
    BY <1>2, <1>3, <1>4, <1>5

\* Max is the only greatest element.
LEMMA MaxIs ==
  ASSUME NEW T, T \subseteq Nat, NEW m \in T, \A q \in T : q <= m
  PROVE  Max(T) = m
  <1>0. T \subseteq Int /\ T # {} /\ m \in Int
    OBVIOUS
  <1>1. Max(T) \in T /\ \A q \in T : q <= Max(T)
    BY <1>0, LatestOf
  <1>2. \A p, q \in Nat : p <= q /\ q <= p => p = q
    OBVIOUS
  <1> QED
    BY <1>1, <1>2

\* The last store of an iteration.
LEMMA LastOfStores ==
  ASSUME NEW e \in Nat, NEW a, NEW k \in Nat, WritesAt(e, a, k),
         \A l \in Nat : WritesAt(e, a, l) => l <= k
  PROVE  Max(StoresOf(e, a)) = Position(e, k)
  <1> DEFINE T == StoresOf(e, a)
  <1>1. Position(e, k) \in T /\ T \subseteq Nat
    BY WritesType, StoresOfWrites
  <1>2. ASSUME NEW q \in T
        PROVE  q <= Position(e, k)
    <2>1. PICK l \in Nat : WritesAt(e, a, l) /\ q = Position(e, l)
      BY StoresOfWrites
    <2>2. l <= k /\ e * Width \in Nat
      BY <2>1, LoopType
    <2> QED
      BY <2>1, <2>2 DEF Position
  <1> HIDE DEF T
  <1>3. Max(T) = Position(e, k)
    BY <1>1, <1>2, MaxIs
  <1> QED
    BY <1>3 DEF T

\* An iteration that stores to a has a last store to it.
LEMMA HasLast ==
  ASSUME NEW e \in Nat, NEW a, NEW i \in Nat, \E k \in Nat : k < i /\ WritesAt(e, a, k)
  PROVE  \E k \in Nat : LastBefore(e, a, i, k)
  <1> DEFINE T == {k \in Nat : k < i /\ WritesAt(e, a, k)}
  <1>1. T \subseteq Int /\ T # {} /\ i \in Int /\ \A k \in T : k <= i
    OBVIOUS
  <1>2. PICK k \in T : \A l \in T : l <= k
    <2> HIDE DEF T
    <2> QED
      BY <1>1, Greatest
  <1> QED
    BY <1>2 DEF LastBefore

\* The stores that come before the operation i of iteration e.
Before(a, e, i) == {q \in UNION {StoresOf(c, a) : c \in 0 .. e} : q < Position(e, i)}

\* The stores before an operation: those of the earlier iterations, and its own ones.
LEMMA BeforeIs ==
  ASSUME NEW e \in Nat, NEW a, NEW i \in Nat, 1 <= i
  PROVE  /\ Before(a, e, i) \subseteq Nat
         /\ \A q : q \in Before(a, e, i) <=>
              \/ \E c \in Nat : c < e /\ q \in StoresOf(c, a)
              \/ \E k \in Nat : k < i /\ WritesAt(e, a, k) /\ q = Position(e, k)
  <1>0. Width \in Nat /\ e * Width \in Nat
    BY LoopType
  <1>1. \A c \in 0 .. e : StoresOf(c, a) \subseteq Nat
    BY StoresOfWrites
  <1>2. Before(a, e, i) \subseteq Nat
    BY <1>1 DEF Before
  <1>3. ASSUME NEW c \in Nat, c < e, NEW q \in StoresOf(c, a)
        PROVE  q \in Before(a, e, i)
    <2>1. PICK k \in Nat : WritesAt(c, a, k) /\ q = Position(c, k)
      BY StoresOfWrites
    <2>2. k \in 0 .. Width
      BY <1>0, <2>1, WritesType
    <2>3. q < Position(e, i)
      BY <1>3, <2>1, <2>2, PositionOrder
    <2>4. c \in 0 .. e
      BY <1>3
    <2> QED
      BY <2>3, <2>4 DEF Before
  <1>4. ASSUME NEW k \in Nat, k < i, WritesAt(e, a, k)
        PROVE  Position(e, k) \in Before(a, e, i)
    <2>1. Position(e, k) \in StoresOf(e, a) /\ e \in 0 .. e
      BY <1>4, WritesType
    <2>2. Position(e, k) < Position(e, i)
      BY <1>0, <1>4 DEF Position
    <2> QED
      BY <2>1, <2>2 DEF Before
  <1>5. ASSUME NEW q \in Before(a, e, i)
        PROVE  \/ \E c \in Nat : c < e /\ q \in StoresOf(c, a)
               \/ \E k \in Nat : k < i /\ WritesAt(e, a, k) /\ q = Position(e, k)
    <2>1. PICK c \in 0 .. e : q \in StoresOf(c, a)
      BY DEF Before
    <2>2. q < Position(e, i)
      BY DEF Before
    <2>3. CASE c = e
      <3>1. PICK k \in Nat : WritesAt(e, a, k) /\ q = Position(e, k)
        BY <2>1, <2>3, StoresOfWrites
      <3>2. k < i
        BY <1>0, <2>2, <3>1 DEF Position
      <3> QED
        BY <3>1, <3>2
    <2>4. CASE c # e
      <3>1. c \in Nat /\ c < e
        BY <2>4
      <3> QED
        BY <2>1, <3>1
    <2> QED
      BY <2>3, <2>4
  <1> QED
    BY <1>2, <1>3, <1>4, <1>5

\* ValueAt in these words.
LEMMA ValueIs ==
  ASSUME NEW e, NEW a, NEW i
  PROVE  ValueAt(a, e, i) = IF Before(a, e, i) = {} THEN Initial ELSE Max(Before(a, e, i))
  BY DEF ValueAt, Before

\* What an address holds: the last value the iteration has stored to it,
LEMMA OwnValue ==
  ASSUME NEW e \in Nat, NEW a, NEW i \in Nat, 1 <= i, NEW k \in Nat, LastBefore(e, a, i, k)
  PROVE  ValueAt(a, e, i) = Position(e, k)
  <1> DEFINE T == Before(a, e, i)
  <1>1. T \subseteq Nat /\ Position(e, k) \in T
    BY BeforeIs DEF LastBefore
  <1>2. ASSUME NEW q \in T
        PROVE  q <= Position(e, k)
    <2>1. k \in 1 .. Width /\ Position(e, k) \in Nat /\ Width \in Nat /\ e * Width \in Nat
      BY WritesType, LoopType DEF LastBefore
    <2>2. CASE \E c \in Nat : c < e /\ q \in StoresOf(c, a)
      <3>1. PICK c \in Nat : c < e /\ q \in StoresOf(c, a)
        BY <2>2
      <3>2. PICK l \in Nat : WritesAt(c, a, l) /\ q = Position(c, l)
        BY <3>1, StoresOfWrites
      <3>3. l \in 0 .. Width
        BY <2>1, <3>2, WritesType
      <3>4. q < Position(e, k)
        BY <2>1, <3>1, <3>2, <3>3, PositionOrder
      <3> QED
        BY <1>1, <2>1, <3>4
    <2>3. CASE \E l \in Nat : l < i /\ WritesAt(e, a, l) /\ q = Position(e, l)
      BY <2>1, <2>3 DEF LastBefore, Position
    <2> QED
      BY <2>2, <2>3, BeforeIs
  <1> HIDE DEF T
  <1>3. Max(T) = Position(e, k)
    BY <1>1, <1>2, MaxIs
  <1> QED
    BY <1>1, <1>3, ValueIs DEF T

\* or else the one of the latest iteration that stored to it, or the initial one.
LEMMA EarlierValue ==
  ASSUME NEW e \in Nat, NEW a, NEW i \in Nat, 1 <= i,
         \A k \in Nat : k < i => ~WritesAt(e, a, k),
         NEW c \in Nat, c < e, Writes(c, a),
         \A d \in Nat : c < d /\ d < e => ~Writes(d, a)
  PROVE  ValueAt(a, e, i) = Max(StoresOf(c, a))
  <1> DEFINE T == Before(a, e, i)
  <1>0. Writes(c, a) /\ Width \in Nat /\ c * Width \in Nat
    BY LoopType
  <1>1. PICK k \in Nat : LastBefore(c, a, Width + 1, k)
    <2>1. PICK k \in Nat : WritesAt(c, a, k)
      BY <1>0 DEF Writes
    <2>2. k < Width + 1
      BY <1>0, <2>1, WritesType
    <2>3. Width + 1 \in Nat
      BY <1>0
    <2> QED
      BY <2>1, <2>2, <2>3, HasLast
  <1>2. WritesAt(c, a, k) /\ \A l \in Nat : WritesAt(c, a, l) => l <= k
    <2>1. \A l \in Nat : WritesAt(c, a, l) => l < Width + 1
      BY <1>0, WritesType
    <2> QED
      BY <1>1, <2>1 DEF LastBefore
  <1>3. Max(StoresOf(c, a)) = Position(c, k)
    BY <1>2, LastOfStores
  <1>4. T \subseteq Nat /\ Position(c, k) \in T
    BY <1>2, WritesType, BeforeIs
  <1>5. ASSUME NEW q \in T
        PROVE  q <= Position(c, k)
    <2>1. k \in 1 .. Width /\ Position(c, k) \in Nat
      BY <1>2, WritesType
    <2>2. PICK d \in Nat : d < e /\ q \in StoresOf(d, a)
      BY BeforeIs
    <2>3. PICK l \in Nat : WritesAt(d, a, l) /\ q = Position(d, l)
      BY <2>2, StoresOfWrites
    <2>4. l \in 0 .. Width /\ d <= c
      BY <1>0, <2>2, <2>3, WritesType DEF Writes
    <2>5. CASE d = c
      BY <1>0, <1>2, <2>3, <2>5 DEF Position
    <2>6. CASE d < c
      <3>1. q < Position(c, k)
        BY <2>1, <2>3, <2>4, <2>6, PositionOrder
      <3> QED
        BY <1>4, <2>1, <3>1
    <2> QED
      BY <2>4, <2>5, <2>6
  <1> HIDE DEF T
  <1>6. Max(T) = Position(c, k)
    BY <1>4, <1>5, MaxIs
  <1> QED
    BY <1>3, <1>4, <1>6, ValueIs DEF T

\* An address nobody has stored to holds its initial value.
LEMMA InitialValue ==
  ASSUME NEW e \in Nat, NEW a, NEW i \in Nat, 1 <= i,
         \A k \in Nat : k < i => ~WritesAt(e, a, k),
         \A c \in Nat : c < e => ~Writes(c, a)
  PROVE  ValueAt(a, e, i) = Initial
  <1>1. \A c \in Nat : c < e => StoresOf(c, a) = {}
    BY StoresOfWrites
  <1>2. Before(a, e, i) = {}
    BY <1>1, BeforeIs
  <1> QED
    BY <1>2, ValueIs
-----------------------------------------------------------------------------
(* What the invariant of the ring says of the labels of Yarn.               *)

Fresh == {"next_mark", "undo", "rollback_done"}
Busy == {"exec"} \cup Tracking \cup Client!Rolling
Ending == {"stop", "set_done"}
RolledBack == {"rollback", "pending_rollback"}

\* Epoch e is being claimed, or is behind a rollback that did not move next yet.
InHand(e) ==
  \E t \in Thread :
    \/ pc[t] = "next_mark" /\ epoch[t] = e
    \/ pc[t] = "rollback_scan" /\ start[t] <= e /\ e < cur[t]
    \/ pc[t] = "rollback_flag" /\ start[t] <= e /\ e <= cur[t]

\* The cursors, the types of the ring and their order.
LEMMA CursorFacts ==
  ASSUME RingInv
  PROVE  /\ first \in Nat /\ nextCommit \in Nat /\ next \in Nat /\ EpochMax \in Nat
         /\ first <= nextCommit /\ nextCommit <= next /\ next <= first + EpochMax
         /\ epoch \in [Thread -> Nat] /\ start \in [Thread -> Nat] /\ cur \in [Thread -> Nat]
         /\ status \in [Slot -> Status]
         /\ pc \in [Thread -> Client!Labels \cup TrackerLabels]
  BY EpochTypes, EpochMaxAssumption
     DEF RingInv, TypeInv, PcOK, Client!Inductive, Client!CursorOrder

\* The types of the tracker.
LEMMA TypeFacts ==
  ASSUME RingInv
  PROVE  /\ mem \in [Addr -> Value]
         /\ readers \in [Addr -> SUBSET Slot]
         /\ writers \in [Addr -> SUBSET Slot]
         /\ wbuf \in [Addr -> [Slot -> Value]]
         /\ lastCommit \in [Addr -> Int]
         /\ commitLock \in [Addr -> SUBSET Thread]
         /\ link \in [Addr -> [Slot -> Addr \cup {NoAddr}]]
         /\ head \in [Slot -> Addr \cup {NoAddr}]
         /\ at \in [Thread -> Addr \cup {NoAddr}]
         /\ seen \in [Thread -> SUBSET Slot]
         /\ pick \in [Thread -> Int]
         /\ value \in [Thread -> Value]
         /\ op \in [Thread -> 0 .. Width]
         /\ sound \in [Thread -> BOOLEAN]
         /\ \A t \in Thread : /\ pc[t] \in TrackerLabels => at[t] \in Addr
                              /\ pc[t] \in {"load_buf", "load_check"} => pick[t] \in Nat
  BY DEF RingInv, TypeInv, TypeOK, AtOK

\* Where the epoch of a thread is, between the cursors.
LEMMA RunFacts ==
  ASSUME RingInv, NEW t \in Thread
  PROVE  /\ pc[t] \in RunLabels =>
              /\ first <= epoch[t] /\ nextCommit <= epoch[t] /\ epoch[t] < first + EpochMax
              /\ status[Index(epoch[t])] = "executing" => epoch[t] < next
         /\ pc[t] = "next_mark" => epoch[t] + 1 = next
         /\ pc[t] = "next_stop" => next < first + EpochMax
  <1>1. /\ Client!RunInv /\ Client!FreeInv
    BY DEF RingInv, Client!Inductive
  <1>2. /\ pc[t] \in RunLabels => Client!Running(t)
        /\ Phase(pc[t]) = "next_mark" <=> pc[t] = "next_mark"
        /\ Phase(pc[t]) = "next_stop" <=> pc[t] = "next_stop"
    BY DEF Client!Running, Client!Rolling, RunLabels, Phase, Tracking, Loading, Publishing
  <1>3. /\ pc[t] \in RunLabels => nextCommit <= epoch[t] /\ epoch[t] < first + EpochMax
        /\ pc[t] = "next_mark" => epoch[t] + 1 = next
        /\ pc[t] = "next_stop" => next < first + EpochMax
    BY <1>1, <1>2 DEF Client!RunInv
  <1>4. pc[t] \in RunLabels /\ status[Index(epoch[t])] = "executing" => epoch[t] < next
    <2> SUFFICES ASSUME pc[t] \in RunLabels, status[Index(epoch[t])] = "executing", ~(epoch[t] < next)
                 PROVE  FALSE
      OBVIOUS
    <2>1. epoch[t] \in next .. first + EpochMax - 1
      BY <1>3, CursorFacts
    <2> QED
      BY <1>1, <2>1 DEF Client!FreeInv, Client!RolledBack, Index, Client!Index
  <1> QED
    BY <1>3, <1>4, CursorFacts

\* What a rollback has behind it.
LEMMA RollFacts ==
  ASSUME RingInv, NEW t \in Thread
  PROVE  /\ pc[t] \in Client!Rolling => epoch[t] < start[t]
         /\ pc[t] \in {"rollback_scan", "rollback_flag"} =>
              /\ start[t] <= cur[t]
              /\ \A e \in Nat : start[t] <= e /\ e < cur[t] =>
                   status[Index(e)] \in {"commit"} \cup RolledBack
         /\ pc[t] = "rollback_flag" => cur[t] < next /\ status[Index(cur[t])] \in RolledBack
  <1>1. Client!ScanInv
    BY DEF RingInv, Client!Inductive
  <1>2. /\ pc[t] \in Client!Rolling => Phase(pc[t]) \in Client!Rolling
        /\ pc[t] \in {"rollback_scan", "rollback_flag"} => Phase(pc[t]) = pc[t]
    BY DEF Client!Rolling, Phase, Tracking, Loading, Publishing
  <1>3. start[t] \in Nat /\ cur[t] \in Nat
    BY CursorFacts
  <1> QED
    BY <1>1, <1>2, <1>3 DEF Client!ScanInv, RolledBack, Client!RolledBack, Index, Client!Index

\* What a commit has found out.
LEMMA CommitFacts ==
  ASSUME RingInv, NEW t \in Thread
  PROVE  /\ pc[t] \in CommitLabels => first <= cur[t] /\ cur[t] < nextCommit
         /\ pc[t] = "commit_cas" /\ cur[t] = nextCommit =>
              status[Index(cur[t])] = "done" /\ cur[t] < next
         /\ pc[t] = "first_cas" =>
              cur[t] < nextCommit /\ (cur[t] = first => status[Index(cur[t])] = "commit")
  <1>1. Client!CommitInv /\ Client!FirstInv
    BY DEF RingInv, Client!Inductive
  <1>2. /\ pc[t] \in CommitLabels => Client!Committing(t)
        /\ pc[t] = "commit_cas" => Phase(pc[t]) = "commit_cas"
        /\ pc[t] = "first_cas" => Phase(pc[t]) = "first_cas"
    BY DEF Client!Committing, CommitLabels, Phase, Tracking, Loading, Publishing
  <1> QED
    BY <1>1, <1>2 DEF Client!CommitInv, Client!FirstInv, Client!Unblocked, Client!FoundDone,
       Client!Looking, Index, Client!Index

\* What the status of a slot says.
LEMMA SlotFacts ==
  ASSUME RingInv, NEW e \in Nat
  PROVE  /\ first <= e /\ e < nextCommit => status[Index(e)] \in {"done", "commit"}
         /\ nextCommit <= e /\ e < next => status[Index(e)] \in {"executing", "done"} \/ InHand(e)
         /\ next <= e /\ e < first + EpochMax => status[Index(e)] \in {"commit"} \cup RolledBack
  <1>1. Client!CommittedInv /\ Client!ClaimedInv /\ Client!FreeInv
    BY DEF RingInv, Client!Inductive
  <1>2. /\ first <= e /\ e < nextCommit => e \in first .. nextCommit - 1
        /\ nextCommit <= e /\ e < next => e \in nextCommit .. next - 1
        /\ next <= e /\ e < first + EpochMax => e \in next .. first + EpochMax - 1
    BY CursorFacts
  <1>3. Client!InHand(e) => InHand(e)
    BY DEF Client!InHand, InHand, Phase, Tracking, Loading, Publishing
  <1> QED
    BY <1>1, <1>2, <1>3 DEF Client!CommittedInv, Client!ClaimedInv, Client!FreeInv, RolledBack,
       Client!RolledBack, Index, Client!Index

\* The slots of the ring are distinct.
LEMMA SameSlot ==
  ASSUME RingInv, NEW e \in Nat, NEW f \in Nat, Index(e) = Index(f),
         first <= e, e < first + EpochMax, first <= f, f < first + EpochMax
  PROVE  e = f
  <1>1. e < f => f < e + EpochMax
    BY CursorFacts
  <1>2. f < e => e < f + EpochMax
    BY CursorFacts
  <1>3. ~(e < f)
    BY <1>1, Client!IndexDistinct, ClientAssumptions DEF Index, Client!Index
  <1>4. ~(f < e)
    BY <1>2, Client!IndexDistinct, ClientAssumptions DEF Index, Client!Index
  <1> QED
    BY <1>3, <1>4

\* What a rollback flag says.
LEMMA FlagFacts ==
  ASSUME RingInv, NEW i \in rollbackFlag
  PROVE  \/ status[i] \in RolledBack
         \/ \E t \in Thread : pc[t] \in {"undo", "rollback_done"} /\ Index(epoch[t]) = i
  <1>1. Client!FlagImpliesUndo
    BY DEF RingInv, Client!Inductive
  <1> QED
    BY <1>1 DEF Client!FlagImpliesUndo, RolledBack, Client!RolledBack, Index, Client!Index, Phase,
       Tracking, Loading, Publishing

-----------------------------------------------------------------------------
(* The steps of a worker when no execution goes astray and no write is      *)
(* delayed.                                                                 *)

Sane == ~DataDependent /\ ~Delays

NoDelay == \A t \in Thread : delayed[t] = {}

\* No write is delayed at first.
LEMMA InitNoDelay == Init => NoDelay
  BY DEF Init, DependencyInit, NoDelay

\* No execution goes astray, and nothing is drained.
LEMMA WorkerKinds ==
  ASSUME Sane, NoDelay, NEW t \in Thread, Worker(t)
  PROVE  \/ Load(t) \/ Store(t) \/ LoadEnd(t) \/ Return(t)
         \/ Tracker(t) /\ UNCHANGED <<op, sound>>
         \/ Ring(t) /\ UNCHANGED <<depVars, op, sound>>
  <1>1. ~Drain(t)
    BY DEF NoDelay, Drain
  <1>2. ~StoreNowhere(t) /\ ~ \E a \in Addr : StoreAstray(t, a)
    BY DEF Sane, StoreNowhere, StoreAstray
  <1> QED
    BY <1>1, <1>2 DEF Worker, Executor

\* No write is delayed by a step.
LEMMA StepNoDelay == Sane /\ NoDelay /\ [Next]_vars => NoDelay'
  <1> SUFFICES ASSUME Sane, NoDelay, [Next]_vars PROVE UNCHANGED delayed
    BY DEF NoDelay
  <1>1. CASE UNCHANGED vars
    BY <1>1 DEF vars, depVars, depLocals
  <1>2. ASSUME NEW t \in Thread, Worker(t) PROVE UNCHANGED delayed
    <2>1. CASE Load(t) \/ LoadEnd(t) \/ Return(t)
      BY <2>1 DEF Load, LoadFlag, LoadEnd, LoadCheck, LoadMem, Return, depVars, depLocals
    <2>2. CASE Store(t)
      BY <2>2 DEF Store, StoreBuf, Sane
    <2>3. CASE Tracker(t)
      BY <2>3 DEF Tracker, LoadMask, LoadFirst, LoadBuf, StoreFlag, ViolationLast, ViolationFlags,
         CommitWrite, CommitLast, CommitClear, CommitReturn, UndoPop, UndoReturn, depVars, depLocals
    <2>4. CASE UNCHANGED depVars
      BY <2>4 DEF depVars, depLocals
    <2> QED
      BY <1>2, <2>1, <2>2, <2>3, <2>4, WorkerKinds
  <1> QED
    BY <1>1, <1>2 DEF Next

\* The last labels of yarn_epoch_do_rollback.
RollTail == {"rollback_stop", "rollback_stop_cas", "rollback_exit"}

\* A step of epoch.c that changes neither an epoch nor a slot.
Quiet(t) ==
  /\ UNCHANGED <<status, cursors, rollbackFlag, epoch>>
  /\ \E l \in Client!Labels :
       /\ pc' = [pc EXCEPT ![t] = l]
       /\ \/ pc[t] \notin RunLabels \cup CommitLabels /\ l \notin RunLabels \cup CommitLabels
          \/ pc[t] = "rollback" /\ l = "rollback_enter" /\ UNCHANGED <<start, cur>>
          \/ pc[t] \in RollTail /\ l \in RollTail \cup {"exec"}
          \/ pc[t] = "stop" /\ l = "set_done"

\* The steps that do.
Counts(t) ==
  \/ NextClaim(t) \/ NextMark(t) \/ RollbackDone(t)
  \/ RollbackEnter(t) \/ RollbackSkip(t) \/ RollbackStatus(t) \/ RollbackFlag(t)
  \/ RollbackNext(t) \/ SetDone(t)
  \/ GetCommitCas(t) /\ nextCommit = cur[t]
  \/ CommitDone(t)
  \/ FirstCas(t) /\ first = cur[t]

\* The steps of epoch.c are of these two kinds.
LEMMA RingKinds ==
  ASSUME RingInv, NEW t \in Thread, Ring(t)
  PROVE  Counts(t) \/ Quiet(t)
  <1> USE DEF Goto, RunLabels, CommitLabels, Tracking, Loading, Publishing, Client!Rolling, RollTail,
      Client!Labels, cursors, locals
  <1>1. CASE \/ NextEnter(t) \/ NextLook(t) \/ NextStall(t) \/ NextFinish(t)
             \/ RollbackLock(t)
    BY <1>1 DEF NextEnter, NextLook, NextStall, NextFinish, RollbackLock, Quiet
  <1>2. CASE RollbackStopKeep(t) \/ RollbackStopRead(t) \/ RollbackStopCas(t) \/ RollbackExit(t)
    BY <1>2 DEF RollbackStopKeep, RollbackStopRead, RollbackStopCas, StopCas, RollbackExit, Quiet
  <1>3. CASE Stop(t) \/ GetCommit(t) \/ GetCommitNone(t) \/ GetCommitCheck(t)
    BY <1>3 DEF Stop, GetCommit, GetCommitNone, GetCommitCheck, Quiet
  <1>4. CASE \/ FirstRead(t) \/ FirstCheck(t) \/ UpdateStopKeep(t) \/ UpdateStopRead(t)
             \/ UpdateStopCas(t) \/ Signal(t)
    BY <1>4 DEF FirstRead, FirstCheck, UpdateStopKeep, UpdateStopRead, UpdateStopCas, StopCas,
       Signal, Quiet
  <1>5. CASE GetCommitCas(t) /\ nextCommit # cur[t]
    BY <1>5 DEF GetCommitCas, Quiet
  <1>6. CASE FirstCas(t) /\ first # cur[t]
    BY <1>6 DEF FirstCas, Quiet
  <1> QED
    BY <1>1, <1>2, <1>3, <1>4, <1>5, <1>6 DEF Ring, Counts

\* A step of the tracker leaves the ring alone, but for the argument of the rollback.
LEMMA TrackerFrame ==
  ASSUME NEW t \in Thread,
         Load(t) \/ Store(t) \/ LoadEnd(t) \/ Return(t) \/ Tracker(t)
  PROVE  /\ UNCHANGED <<status, first, next, nextCommit, rollbackFlag, epoch, cur>>
         /\ ViolationFlags(t) \/ UNCHANGED start
  <1> USE DEF epochData, cursors, locals
  <1>1. CASE Load(t) \/ Store(t)
    BY <1>1 DEF Load, LoadFlag, Store, StoreBuf
  <1>2. CASE LoadEnd(t) \/ Return(t)
    BY <1>2 DEF LoadEnd, LoadCheck, LoadMem, Return
  <1>3. CASE LoadMask(t) \/ LoadFirst(t) \/ LoadBuf(t) \/ StoreFlag(t) \/ ViolationLast(t) \/ ViolationFlags(t)
    BY <1>3 DEF LoadMask, LoadFirst, LoadBuf, StoreFlag, ViolationLast, ViolationFlags
  <1>4. CASE CommitWrite(t) \/ CommitLast(t) \/ CommitClear(t) \/ CommitReturn(t) \/ UndoPop(t) \/ UndoReturn(t)
    BY <1>4 DEF CommitWrite, CommitLast, CommitClear, CommitReturn, UndoPop, UndoReturn
  <1> QED
    BY <1>1, <1>2, <1>3, <1>4 DEF Tracker

\* A step leaves the locals of the other threads alone.
LEMMA OthersStay ==
  ASSUME RingInv, Sane, NoDelay, NEW t \in Thread, Worker(t), NEW u \in Thread, u # t
  PROVE  UNCHANGED <<pc[u], epoch[u], start[u], cur[u], at[u], seen[u], pick[u], value[u], op[u], sound[u]>>
  <1>0. /\ pc \in [Thread -> Client!Labels \cup TrackerLabels]
        /\ start \in [Thread -> Nat]
        /\ at \in [Thread -> Addr \cup {NoAddr}]
        /\ seen \in [Thread -> SUBSET Slot]
        /\ pick \in [Thread -> Int]
        /\ value \in [Thread -> Value]
        /\ op \in [Thread -> 0 .. Width]
        /\ sound \in [Thread -> BOOLEAN]
    BY CursorFacts DEF RingInv, TypeInv, TypeOK
  <1>1. CASE Ring(t) /\ UNCHANGED <<depVars, op, sound>>
    <2>1. UNCHANGED <<pc[u], epoch[u], start[u], cur[u]>>
      BY <1>1, RingFrame
    <2> QED
      BY <1>1, <2>1 DEF depVars, depLocals
  <1>2. ASSUME Load(t) \/ Store(t) \/ LoadEnd(t) \/ Return(t) \/ (Tracker(t) /\ UNCHANGED <<op, sound>>)
        PROVE  UNCHANGED <<pc[u], epoch[u], start[u], cur[u], at[u], seen[u], pick[u], value[u], op[u], sound[u]>>
    <2>0. UNCHANGED <<epoch[u], cur[u]>>
      BY <1>2, TrackerFrame
    <2>1. start'[u] = start[u]
      BY <1>0, <1>2, TrackerFrame DEF ViolationFlags
    <2> USE DEF Goto, depVars, depLocals, DropLocals
    <2>2. CASE Load(t) \/ Store(t)
      BY <1>0, <2>0, <2>1, <2>2 DEF Load, LoadFlag, Store, StoreBuf, Advance
    <2>3. CASE LoadEnd(t)
      <3>1. /\ UNCHANGED <<op[u], sound[u]>>
            /\ LoadCheck(t) \/ LoadMem(t)
        BY <1>0, <2>3 DEF LoadEnd
      <3>2. CASE LoadCheck(t)
        BY <1>0, <2>0, <2>1, <3>1, <3>2 DEF LoadCheck
      <3>3. CASE LoadMem(t)
        BY <1>0, <2>0, <2>1, <3>1, <3>3 DEF LoadMem
      <3> QED
        BY <3>1, <3>2, <3>3
    <2>4. CASE Return(t)
      BY <1>0, <2>0, <2>1, <2>4 DEF Return
    <2>5. CASE Tracker(t) /\ UNCHANGED <<op, sound>>
      <3>1. CASE LoadMask(t) \/ LoadFirst(t) \/ LoadBuf(t)
        BY <1>0, <2>0, <2>1, <2>5, <3>1 DEF LoadMask, LoadFirst, LoadBuf
      <3>2. CASE StoreFlag(t) \/ ViolationLast(t)
        BY <1>0, <2>0, <2>1, <2>5, <3>2 DEF StoreFlag, ViolationLast
      <3>3. CASE ViolationFlags(t)
        BY <1>0, <2>0, <2>1, <2>5, <3>3 DEF ViolationFlags
      <3>4. CASE CommitWrite(t) \/ CommitLast(t) \/ CommitClear(t) \/ CommitReturn(t)
        BY <1>0, <2>0, <2>1, <2>5, <3>4 DEF CommitWrite, CommitLast, CommitClear, CommitReturn
      <3>5. CASE UndoPop(t) \/ UndoReturn(t)
        BY <1>0, <2>0, <2>1, <2>5, <3>5 DEF UndoPop, UndoReturn
      <3> QED
        BY <2>5, <3>1, <3>2, <3>3, <3>4, <3>5 DEF Tracker
    <2> QED
      BY <1>2, <2>2, <2>3, <2>4, <2>5
  <1> QED
    BY <1>1, <1>2, WorkerKinds

\* A step touches no flag and no buffered value of a slot that the thread does not own.
LEMMA SlotStays ==
  ASSUME RingInv, Sane, NoDelay, NEW t \in Thread, Worker(t), NEW i \in Slot, ~Owns(t, i),
         NEW a \in Addr
  PROVE  /\ i \in readers'[a] <=> i \in readers[a]
         /\ i \in writers'[a] <=> i \in writers[a]
         /\ wbuf'[a][i] = wbuf[a][i]
  <1>0. /\ readers \in [Addr -> SUBSET Slot]
        /\ writers \in [Addr -> SUBSET Slot]
        /\ wbuf \in [Addr -> [Slot -> Value]]
        /\ \A u \in Thread : pc[u] \in TrackerLabels => at[u] \in Addr
        /\ link \in [Addr -> [Slot -> Addr \cup {NoAddr}]]
        /\ head \in [Slot -> Addr \cup {NoAddr}]
    BY DEF RingInv, TypeInv, TypeOK, AtOK
  <1>1. CASE UNCHANGED <<flags, wbuf>>
    BY <1>1 DEF flags
  <1>2. pc[t] \in {"exec", "store_flag", "undo"} => i # Index(epoch[t])
    BY DEF Owns, RunLabels, Tracking
  <1>3. pc[t] = "publish_clear" => i # Index(cur[t])
    BY DEF Owns, CommitLabels, Publishing
  <1>4. CASE Load(t)
    <2>1. pc[t] = "exec" /\ Operand(t) \in Addr
      BY <1>4, AdvanceTypes DEF Load, RingInv
    <2>2. readers' = [readers EXCEPT ![Operand(t)] = @ \cup {Index(epoch[t])}]
          /\ UNCHANGED <<writers, wbuf>>
      BY <1>4 DEF Load, LoadFlag
    <2> QED
      BY <1>0, <1>2, <2>1, <2>2
  <1>5. CASE Store(t)
    <2>0. pc[t] = "exec" /\ Operand(t) \in Addr /\ UNCHANGED flags
      BY <1>5, AdvanceTypes DEF Store, StoreBuf, RingInv
    <2>1. PICK v : wbuf' = [wbuf EXCEPT ![Operand(t)][Index(epoch[t])] = v]
      BY <1>5 DEF Store, StoreBuf, Sane
    <2>2. wbuf'[a][i] = wbuf[a][i]
      BY <1>0, <1>2, <2>0, <2>1
    <2> QED
      BY <2>0, <2>2 DEF flags
  <1>6. CASE StoreFlag(t)
    <2>1. pc[t] = "store_flag" /\ at[t] \in Addr
      BY <1>0, <1>6 DEF StoreFlag, Goto, TrackerLabels
    <2> QED
      BY <1>0, <1>2, <1>6, <2>1 DEF StoreFlag
  <1>7. CASE CommitClear(t)
    <2>1. pc[t] = "publish_clear" /\ at[t] \in Addr
      BY <1>0, <1>7 DEF CommitClear, Goto, TrackerLabels
    <2> QED
      BY <1>0, <1>3, <1>7, <2>1 DEF CommitClear, ClearFlags
  <1>8. CASE UndoPop(t)
    <2>1. pc[t] = "undo" /\ Index(epoch[t]) \in Slot
      BY <1>8, CursorFacts, IndexInSlot DEF UndoPop, Goto
    <2>2. head[Index(epoch[t])] \in Addr
      BY <1>0, <1>8, <2>1 DEF UndoPop, Pop
    <2> QED
      BY <1>0, <1>2, <1>8, <2>1, <2>2 DEF UndoPop, ClearFlags
  <1>9. \/ UNCHANGED <<flags, wbuf>>
        \/ Load(t) \/ Store(t) \/ StoreFlag(t) \/ CommitClear(t) \/ UndoPop(t)
    BY WorkerKinds DEF Tracker, LoadEnd, LoadCheck, LoadMem, Return, LoadMask, LoadFirst, LoadBuf,
       ViolationLast, ViolationFlags, CommitWrite, CommitLast, CommitReturn, UndoReturn, depVars, flags
  <1> QED
    BY <1>1, <1>4, <1>5, <1>6, <1>7, <1>8, <1>9

\* The steps that change a status.
LEMMA StatusSteps ==
  ASSUME RingInv, Sane, NoDelay, NEW t \in Thread, Worker(t)
  PROVE  \/ UNCHANGED status
         \/ NextMark(t) \/ RollbackStatus(t) \/ SetDone(t) \/ CommitDone(t)
  <1>1. \/ UNCHANGED status
        \/ Ring(t)
    BY WorkerKinds, TrackerFrame
  <1> QED
    BY <1>1, RingKinds DEF Counts, Quiet, NextClaim, RollbackDone, RollbackEnter, RollbackSkip,
       RollbackFlag, RollbackNext, GetCommitCas, FirstCas

\* A step changes the status of a slot that the thread does not own only by a rollback.
LEMMA StatusStays ==
  ASSUME RingInv, Sane, NoDelay, NEW t \in Thread, Worker(t), NEW i \in Slot, ~Owns(t, i)
  PROVE  \/ status'[i] = status[i]
         \/ RollbackStatus(t) /\ i = Index(cur[t]) /\ status'[i] \in RolledBack
  <1>0. Index(epoch[t]) \in Slot /\ Index(cur[t]) \in Slot /\ status \in [Slot -> Status]
    BY CursorFacts, IndexInSlot
  <1>1. CASE UNCHANGED status
    BY <1>1
  <1>2. CASE NextMark(t) \/ SetDone(t)
    BY <1>0, <1>2 DEF NextMark, SetDone, Goto, Owns, RunLabels
  <1>3. CASE CommitDone(t)
    BY <1>0, <1>3 DEF CommitDone, Goto, Owns, CommitLabels
  <1>4. CASE RollbackStatus(t)
    BY <1>0, <1>4 DEF RollbackStatus, RolledBack
  <1> QED
    BY <1>1, <1>2, <1>3, <1>4, StatusSteps

\* The cursors of the commits never move backwards.
LEMMA CursorsStay ==
  ASSUME RingInv, Sane, NoDelay, NEW t \in Thread, Worker(t)
  PROVE  /\ first <= first' /\ nextCommit <= nextCommit'
         /\ next <= next' \/ RollbackNext(t)
         /\ first' = first \/ (FirstCas(t) /\ first = cur[t])
         /\ nextCommit' = nextCommit \/ (GetCommitCas(t) /\ nextCommit = cur[t])
         /\ next' = next \/ NextClaim(t) \/ RollbackNext(t)
  <1>0. first \in Nat /\ nextCommit \in Nat /\ next \in Nat
    BY CursorFacts
  <1>1. UNCHANGED <<first, next, nextCommit>> \/ Counts(t)
    BY WorkerKinds, TrackerFrame, RingKinds DEF Quiet, cursors
  <1>2. CASE UNCHANGED <<first, next, nextCommit>>
    BY <1>0, <1>2
  <1>3. CASE Counts(t)
    BY <1>0, <1>3 DEF Counts, NextClaim, NextMark, RollbackDone, RollbackEnter, RollbackSkip,
       RollbackStatus, RollbackFlag, RollbackNext, SetDone, GetCommitCas, CommitDone, FirstCas, cursors
  <1> QED
    BY <1>1, <1>2, <1>3

\* An epoch is given out by NextClaim and given back by SetDone.
LEMMA EpochStays ==
  ASSUME RingInv, Sane, NoDelay, NEW t \in Thread, Worker(t)
  PROVE  epoch' = epoch \/ NextClaim(t) \/ SetDone(t)
  <1>1. epoch' = epoch \/ Counts(t)
    BY WorkerKinds, TrackerFrame, RingKinds DEF Quiet
  <1> QED
    BY <1>1 DEF Counts, NextClaim, NextMark, RollbackDone, RollbackEnter, RollbackSkip,
       RollbackStatus, RollbackFlag, RollbackNext, SetDone, GetCommitCas, CommitDone, FirstCas, locals

\* An execution that did not start yet has only been given out, or undoes the last one.
LEMMA FreshBefore ==
  ASSUME RingInv, Sane, NoDelay, NEW t \in Thread, Worker(t), pc'[t] \in Fresh
  PROVE  NextClaim(t) \/ (pc[t] \in Fresh /\ epoch' = epoch)
  <1>0. pc \in [Thread -> Client!Labels \cup TrackerLabels]
    BY CursorFacts
  <1> USE DEF Fresh, Goto
  <1>1. CASE Load(t) \/ Store(t) \/ LoadEnd(t) \/ Return(t)
    BY <1>0, <1>1 DEF Load, LoadFlag, Store, StoreBuf, LoadEnd, LoadCheck, LoadMem, Return
  <1>2. CASE Tracker(t)
    <2>1. CASE LoadMask(t) \/ LoadFirst(t) \/ LoadBuf(t) \/ StoreFlag(t) \/ ViolationLast(t) \/ ViolationFlags(t)
      BY <1>0, <2>1 DEF LoadMask, LoadFirst, LoadBuf, StoreFlag, ViolationLast, ViolationFlags
    <2>2. CASE CommitWrite(t) \/ CommitLast(t) \/ CommitClear(t) \/ CommitReturn(t)
      BY <1>0, <2>2 DEF CommitWrite, CommitLast, CommitClear, CommitReturn
    <2>3. CASE UndoPop(t) \/ UndoReturn(t)
      BY <1>0, <2>3, TrackerFrame DEF UndoPop, UndoReturn, Tracker
    <2> QED
      BY <1>2, <2>1, <2>2, <2>3 DEF Tracker
  <1>3. CASE Quiet(t)
    BY <1>0, <1>3 DEF Quiet, RunLabels, RollTail
  <1>4. CASE Counts(t)
    BY <1>0, <1>4 DEF Counts, NextMark, RollbackDone, RollbackEnter, RollbackSkip,
       RollbackStatus, RollbackFlag, RollbackNext, SetDone, GetCommitCas, CommitDone, FirstCas, locals
  <1> QED
    BY <1>1, <1>2, <1>3, <1>4, WorkerKinds, RingKinds

-----------------------------------------------------------------------------
(* What dooms an execution.                                                 *)

\* Epoch e runs or has run, and its read flags are those of this execution.
Exposed(e) ==
  /\ e < next
  /\ status[Index(e)] \in {"executing", "done"}
  /\ \A u \in Thread : ~(pc[u] \in Fresh /\ epoch[u] = e)

\* Thread u will store to a: or has stored, and did not say so yet.
Outstanding(u, a) ==
  \/ /\ pc[u] \in Fresh \cup Busy
     /\ \E k \in Nat : op[u] < k /\ WritesAt(epoch[u], a, k)
  \/ pc[u] = "store_flag" /\ at[u] = a

\* Thread u will find that an epoch up to e has read too early, has found it, or is
\* rolling back.
Misses(u, e) ==
  \E a \in Addr, d \in Nat :
    epoch[u] < d /\ d <= e /\ Outstanding(u, a) /\ Exposed(d) /\ Index(d) \in readers[a]

Finds(u, e) ==
  /\ pc[u] \in {"violation_last", "violation_flags"}
  /\ \E d \in Nat :
       /\ epoch[u] < d /\ d <= e /\ Exposed(d) /\ Index(d) \in seen[u]
       /\ pc[u] = "violation_flags" => d < pick[u]

Undoes(u, e) ==
  \/ pc[u] \in {"rollback", "rollback_enter"} /\ start[u] <= e
  \/ pc[u] = "rollback_scan" /\ cur[u] <= e
  \/ pc[u] = "rollback_flag" /\ cur[u] < e

Threat(u, e) == epoch[u] < e /\ (Misses(u, e) \/ Finds(u, e) \/ Undoes(u, e))

\* The execution of epoch e is going to be rolled back.
Doomed(e) == \E u \in Thread : Threat(u, e)

\* Epoch e was executed, or is being, and its commit is not claimed.
Live(e) == nextCommit <= e /\ e < next /\ status[Index(e)] \in {"executing", "done"}

\* A threat is one to every later epoch.
LEMMA DoomedLater ==
  ASSUME RingInv, NEW d \in Nat, NEW e \in Nat, d <= e, Doomed(d)
  PROVE  Doomed(e)
  <1>1. PICK u \in Thread : Threat(u, d)
    BY DEF Doomed
  <1>2. epoch[u] \in Nat /\ start[u] \in Nat /\ cur[u] \in Nat
    BY CursorFacts
  <1>3. \A n \in Nat : n <= d => n <= e
    OBVIOUS
  <1>4. \A n \in Nat : n < d => n < e
    OBVIOUS
  <1>5. Misses(u, d) => Misses(u, e)
    BY <1>3 DEF Misses
  <1>6. Finds(u, d) => Finds(u, e)
    BY <1>3 DEF Finds
  <1>7. Undoes(u, d) => Undoes(u, e)
    BY <1>2, <1>3, <1>4 DEF Undoes
  <1> QED
    BY <1>1, <1>2, <1>4, <1>5, <1>6, <1>7 DEF Threat, Doomed

\* Only a thread that runs an epoch is a threat, so none is to the next commit.
LEMMA ThreatRuns ==
  ASSUME RingInv, NEW u \in Thread, NEW e, Threat(u, e)
  PROVE  pc[u] \in RunLabels /\ nextCommit <= epoch[u]
  <1>1. pc[u] \in RunLabels
    BY DEF Threat, Misses, Finds, Undoes, Outstanding, RunLabels, Fresh, Busy, Tracking, Client!Rolling
  <1> QED
    BY <1>1, RunFacts

LEMMA NoThreat == RingInv => ~Doomed(nextCommit)
  <1> SUFFICES ASSUME RingInv, NEW u \in Thread, Threat(u, nextCommit) PROVE FALSE
    BY DEF Doomed
  <1>1. nextCommit <= epoch[u] /\ epoch[u] < nextCommit
    BY ThreatRuns DEF Threat
  <1> QED
    BY <1>1, CursorFacts

\* An epoch stays exposed, or a thread rolls it back.
LEMMA ExposedStays ==
  ASSUME RingInv, Sane, NoDelay, NEW t \in Thread, Worker(t), NEW d \in Nat, NEW e \in Nat,
         nextCommit <= d, d <= e, Exposed(d), Live(e)'
  PROVE  Exposed(d)' \/ Threat(t, e)'
  <1>0. /\ first \in Nat /\ nextCommit \in Nat /\ next \in Nat /\ EpochMax \in Nat
        /\ first <= nextCommit /\ next <= first + EpochMax
        /\ epoch[t] \in Nat /\ cur[t] \in Nat /\ start[t] \in Nat
        /\ status \in [Slot -> Status] /\ Index(d) \in Slot /\ Index(e) \in Slot
        /\ Index(cur[t]) \in Slot /\ Index(epoch[t]) \in Slot
        /\ pc \in [Thread -> Client!Labels \cup TrackerLabels]
        /\ epoch \in [Thread -> Nat]
    BY CursorFacts, IndexInSlot
  <1>1. first <= d /\ d < first + EpochMax /\ d < next /\ status[Index(d)] \in {"executing", "done"}
    BY <1>0 DEF Exposed
  <1>2. next' \in Nat
    <2>1. next' = next \/ NextClaim(t) \/ RollbackNext(t)
      BY CursorsStay
    <2> QED
      BY <1>0, <2>1 DEF NextClaim, RollbackNext
  <1>3. d < next'
    BY <1>2 DEF Live
  <1>4. ASSUME NEW v \in Thread, pc'[v] \in Fresh, epoch'[v] = d
        PROVE  FALSE
    <2>1. CASE v # t
      BY <1>4, <2>1, OthersStay DEF Exposed
    <2>2. CASE v = t
      <3>1. CASE NextClaim(t)
        BY <1>0, <1>1, <1>4, <2>2, <3>1 DEF NextClaim
      <3>2. CASE pc[t] \in Fresh /\ epoch' = epoch
        BY <1>4, <2>2, <3>2 DEF Exposed
      <3> QED
        BY <1>4, <2>2, <3>1, <3>2, FreshBefore
    <2> QED
      BY <2>1, <2>2
  <1>5. CASE status'[Index(d)] \in {"executing", "done"}
    BY <1>3, <1>4, <1>5 DEF Exposed
  <1>6. CASE status'[Index(d)] \notin {"executing", "done"}
    <2>1. \/ NextMark(t) \/ RollbackStatus(t) \/ SetDone(t) \/ CommitDone(t)
      BY <1>1, <1>6, StatusSteps
    <2>2. ~NextMark(t) /\ ~SetDone(t)
      BY <1>0, <1>1, <1>6 DEF NextMark, SetDone
    <2>3. ~CommitDone(t)
      <3> SUFFICES ASSUME CommitDone(t) PROVE FALSE
        OBVIOUS
      <3>1. pc[t] = "commit_done" /\ Index(d) = Index(cur[t])
        BY <1>0, <1>1, <1>6 DEF CommitDone, Goto
      <3>2. first <= cur[t] /\ cur[t] < nextCommit
        BY <3>1, CommitFacts DEF CommitLabels
      <3>3. d = cur[t]
        BY <1>0, <1>1, <3>1, <3>2, SameSlot
      <3> QED
        BY <1>0, <3>2, <3>3
    <2>4. RollbackStatus(t)
      BY <2>1, <2>2, <2>3
    <2>5. /\ pc[t] = "rollback_scan" /\ pc'[t] = "rollback_flag" /\ cur[t] < next
          /\ Index(d) = Index(cur[t]) /\ UNCHANGED <<cur, epoch>>
      BY <1>0, <1>1, <1>6, <2>4 DEF RollbackStatus, Goto, locals
    <2>6. nextCommit <= epoch[t] /\ epoch[t] < start[t] /\ start[t] <= cur[t]
      BY <2>5, RunFacts, RollFacts DEF RunLabels, Client!Rolling
    <2>7. d = cur[t]
      BY <1>0, <1>1, <2>5, <2>6, SameSlot
    <2>8. d # e
      BY <1>6 DEF Live
    <2>9. cur'[t] < e /\ epoch'[t] < e
      BY <1>0, <2>5, <2>6, <2>7, <2>8
    <2> QED
      BY <2>5, <2>9 DEF Threat, Undoes
  <1> QED
    BY <1>5, <1>6

\* The read flags of an exposed epoch stay.
LEMMA ReadersStay ==
  ASSUME RingInv, Sane, NoDelay, NEW t \in Thread, Worker(t), NEW d \in Nat, nextCommit <= d,
         Exposed(d), NEW a \in Addr, Index(d) \in readers[a]
  PROVE  Index(d) \in readers'[a]
  <1>0. /\ first \in Nat /\ nextCommit \in Nat /\ next \in Nat /\ EpochMax \in Nat
        /\ first <= nextCommit /\ next <= first + EpochMax /\ d < next
        /\ epoch[t] \in Nat /\ cur[t] \in Nat
        /\ Index(d) \in Slot
        /\ Index(cur[t]) \in Slot /\ Index(epoch[t]) \in Slot
        /\ readers \in [Addr -> SUBSET Slot]
    BY CursorFacts, IndexInSlot DEF Exposed, RingInv, TypeInv, TypeOK
  <1>1. CASE ~Owns(t, Index(d))
    BY <1>0, <1>1, SlotStays
  <1>2. CASE pc[t] \in CommitLabels /\ Index(cur[t]) = Index(d)
    <2>1. first <= cur[t] /\ cur[t] < nextCommit
      BY <1>2, CommitFacts
    <2>2. d = cur[t]
      BY <1>0, <1>2, <2>1, SameSlot
    <2> QED
      BY <1>0, <2>1, <2>2
  <1>3. CASE pc[t] \in RunLabels /\ Index(epoch[t]) = Index(d)
    <2>1. first <= epoch[t] /\ epoch[t] < first + EpochMax
      BY <1>3, RunFacts
    <2>2. d = epoch[t]
      BY <1>0, <1>3, <2>1, SameSlot
    <2>3. pc[t] \notin Fresh
      BY <2>2 DEF Exposed
    <2>4. ~UndoPop(t)
      BY <2>3 DEF UndoPop, Goto, Fresh
    <2>5. ~CommitClear(t)
      BY <1>3 DEF CommitClear, Goto, RunLabels, Tracking, Loading, Client!Rolling
    <2>6. UNCHANGED readers \/ Load(t)
      BY <2>4, <2>5, WorkerKinds DEF Tracker, Store, StoreBuf, LoadEnd, LoadCheck, LoadMem, Return,
         LoadMask, LoadFirst, LoadBuf, StoreFlag, ViolationLast, ViolationFlags, CommitWrite,
         CommitLast, CommitReturn, UndoReturn, depVars, flags
    <2>7. CASE Load(t)
      <3>1. readers' = [readers EXCEPT ![Operand(t)] = @ \cup {Index(epoch[t])}]
        BY <2>7 DEF Load, LoadFlag
      <3> QED
        BY <1>0, <3>1
    <2> QED
      BY <2>6, <2>7
  <1> QED
    BY <1>1, <1>2, <1>3 DEF Owns

\* A store that is outstanding stays so until its write flag is set.
LEMMA OutstandingStays ==
  ASSUME RingInv, Sane, NoDelay, NEW u \in Thread, Worker(u), NEW a \in Addr, Outstanding(u, a)
  PROVE  epoch' = epoch /\ (Outstanding(u, a)' \/ (StoreFlag(u) /\ at[u] = a))
  <1>0. /\ pc \in [Thread -> Client!Labels \cup TrackerLabels]
        /\ epoch[u] \in Nat /\ op[u] \in Nat
        /\ op \in [Thread -> 0 .. Width] /\ at \in [Thread -> Addr \cup {NoAddr}]
        /\ Width \in Nat /\ Len(Body(epoch[u])) \in Nat
    <2>1. /\ pc \in [Thread -> Client!Labels \cup TrackerLabels]
          /\ epoch[u] \in Nat
      BY CursorFacts
    <2>2. op \in [Thread -> 0 .. Width] /\ at \in [Thread -> Addr \cup {NoAddr}]
      BY TypeFacts
    <2>3. Width \in Nat /\ Len(Body(epoch[u])) \in 0 .. Width
      BY <2>1, LoopType
    <2> QED
      BY <2>1, <2>2, <2>3
  <1>1. pc[u] \in Fresh \cup Busy
    BY DEF Outstanding, Busy, Tracking
  <1>2. epoch' = epoch
    BY <1>1, EpochStays DEF NextClaim, SetDone, Goto, Fresh, Busy, Tracking, Loading, Client!Rolling
  <1>3. ASSUME pc[u] # "store_flag", UNCHANGED <<op>>, pc'[u] \in Fresh \cup Busy
        PROVE  Outstanding(u, a)'
    BY <1>2, <1>3 DEF Outstanding, WritesAt
  <1>4. CASE Load(u)
    <2>1. /\ pc[u] = "exec" /\ pc'[u] = "load_mask"
          /\ Body(epoch[u])[op[u] + 1] = <<"load", Operand(u)>>
          /\ op' = [op EXCEPT ![u] = op[u] + 1]
      BY <1>0, <1>4, AdvanceTypes DEF Load, LoadFlag, Goto, RingInv
    <2>2. PICK k \in Nat : op[u] < k /\ WritesAt(epoch[u], a, k)
      BY <2>1 DEF Outstanding
    <2>3. k # op[u] + 1
      BY <2>1, <2>2 DEF WritesAt
    <2>4. op'[u] < k
      BY <1>0, <2>1, <2>2, <2>3
    <2>5. WritesAt(epoch'[u], a, k)
      BY <1>2, <2>2
    <2> QED
      BY <1>2, <2>1, <2>4, <2>5 DEF Outstanding, Busy, Tracking, Loading, WritesAt
  <1>5. CASE Store(u)
    <2>1. /\ pc[u] = "exec" /\ pc'[u] = "store_flag" /\ at'[u] = Operand(u)
          /\ Body(epoch[u])[op[u] + 1] = <<"store", Operand(u)>>
          /\ op' = [op EXCEPT ![u] = op[u] + 1]
      BY <1>0, <1>5, AdvanceTypes DEF Store, StoreBuf, Goto, RingInv
    <2>2. PICK k \in Nat : op[u] < k /\ WritesAt(epoch[u], a, k)
      BY <2>1 DEF Outstanding
    <2>3. CASE k = op[u] + 1
      <3>1. Operand(u) = a
        BY <2>1, <2>2, <2>3 DEF WritesAt
      <3> QED
        BY <1>2, <2>1, <3>1 DEF Outstanding
    <2>4. CASE k # op[u] + 1
      <3>1. op'[u] < k
        BY <1>0, <2>1, <2>2, <2>4
      <3> QED
        BY <1>2, <2>1, <2>2, <3>1 DEF Outstanding, Busy, Tracking, WritesAt
    <2> QED
      BY <2>3, <2>4
  <1>6. CASE LoadEnd(u)
    <2>1. pc[u] # "store_flag" /\ UNCHANGED op
      BY <1>6 DEF LoadEnd, LoadCheck, LoadMem, Goto
    <2>2. pc'[u] \in {"exec", "load_mem"}
      BY <1>0, <1>6 DEF LoadEnd, LoadCheck, LoadMem, Goto
    <2> QED
      BY <1>2, <1>3, <2>1, <2>2 DEF Busy, Tracking, Loading
  <1>7. ~Return(u)
    <2> SUFFICES ASSUME Return(u) PROVE FALSE
      OBVIOUS
    <2>1. pc[u] = "exec" /\ op[u] = Len(Body(epoch[u]))
      BY DEF Return, Goto
    <2>2. PICK k \in Nat : op[u] < k /\ WritesAt(epoch[u], a, k)
      BY <2>1 DEF Outstanding
    <2> QED
      BY <1>0, <2>1, <2>2 DEF WritesAt
  <1>8. CASE Tracker(u) /\ UNCHANGED <<op, sound>>
    <2>1. CASE LoadMask(u) \/ LoadFirst(u) \/ LoadBuf(u)
      <3>1. pc[u] # "store_flag" /\ pc'[u] \in {"load_first", "load_mem", "load_buf", "load_check"}
        BY <1>0, <2>1 DEF LoadMask, LoadFirst, LoadBuf, Goto
      <3> QED
        BY <1>3, <1>2, <1>8, <3>1 DEF Busy, Tracking, Loading
    <2>2. CASE ViolationLast(u) \/ ViolationFlags(u)
      <3>1. pc[u] # "store_flag" /\ pc'[u] \in {"exec", "violation_flags", "rollback"}
        BY <1>0, <2>2 DEF ViolationLast, ViolationFlags, Goto
      <3> QED
        BY <1>3, <1>2, <1>8, <3>1 DEF Busy, Tracking, Client!Rolling
    <2>3. CASE UndoPop(u) \/ UndoReturn(u)
      <3>1. pc[u] # "store_flag" /\ pc'[u] \in {"undo", "rollback_done"}
        BY <1>0, <2>3 DEF UndoPop, UndoReturn, Goto
      <3> QED
        BY <1>3, <1>2, <1>8, <3>1 DEF Fresh
    <2>4. CASE StoreFlag(u)
      <3>1. pc'[u] = "violation_last"
        BY <1>0, <2>4 DEF StoreFlag, Goto
      <3>2. CASE \E k \in Nat : op[u] < k /\ WritesAt(epoch[u], a, k)
        BY <1>2, <1>8, <3>1, <3>2 DEF Outstanding, Busy, Tracking, WritesAt
      <3> QED
        BY <1>2, <2>4, <3>2 DEF Outstanding
    <2>5. ~CommitWrite(u) /\ ~CommitLast(u) /\ ~CommitClear(u) /\ ~CommitReturn(u)
      BY <1>1 DEF CommitWrite, CommitLast, CommitClear, CommitReturn, Goto, Fresh, Busy, Tracking,
         Loading, Client!Rolling
    <2> QED
      BY <1>8, <2>1, <2>2, <2>3, <2>4, <2>5 DEF Tracker
  <1>9. CASE Ring(u) /\ UNCHANGED <<depVars, op, sound>>
    <2>1. pc[u] \notin TrackerLabels
      BY <1>9, RingLabels DEF RingInv, TypeInv
    <2>2. CASE Quiet(u)
      <3>1. pc'[u] \in Fresh \cup Busy
        BY <1>0, <1>1, <2>2 DEF Quiet, RollTail, Fresh, Busy, Tracking, Loading, Client!Rolling,
           RunLabels
      <3> QED
        BY <1>2, <1>3, <1>9, <2>1, <3>1 DEF TrackerLabels
    <2>3. CASE Counts(u)
      <3>1. pc'[u] \in Fresh \cup Busy
        BY <1>0, <1>1, <2>3 DEF Counts, NextClaim, NextMark, RollbackDone, RollbackEnter,
           RollbackSkip, RollbackStatus, RollbackFlag, RollbackNext, SetDone, GetCommitCas,
           CommitDone, FirstCas, Goto, Fresh, Busy, Tracking, Loading, Client!Rolling
      <3> QED
        BY <1>2, <1>3, <1>9, <2>1, <3>1 DEF TrackerLabels
    <2> QED
      BY <1>9, <2>2, <2>3, RingKinds
  <1> QED
    BY <1>4, <1>5, <1>6, <1>7, <1>8, <1>9, WorkerKinds

\* The threat of a thread that rolls back stays until the slot is rolled back.
LEMMA UndoesStays ==
  ASSUME RingInv, Sane, NoDelay, NEW t \in Thread, Worker(t), NEW u \in Thread, NEW e \in Nat,
         Live(e), Live(e)', epoch[u] < e, Undoes(u, e)
  PROVE  Threat(u, e)'
  <1>0. /\ next \in Nat /\ epoch[u] \in Nat /\ cur[u] \in Nat /\ start[u] \in Nat
        /\ cur \in [Thread -> Nat]
        /\ status \in [Slot -> Status] /\ Index(e) \in Slot /\ Index(cur[u]) \in Slot
        /\ pc \in [Thread -> Client!Labels \cup TrackerLabels]
    BY CursorFacts, IndexInSlot
  <1>1. CASE u # t
    <2>1. UNCHANGED <<pc[u], epoch[u], start[u], cur[u]>>
      BY <1>1, OthersStay
    <2> QED
      BY <2>1 DEF Threat, Undoes
  <1>2. CASE u = t
    <2> USE <1>2
    <2>1. pc[t] \in {"rollback", "rollback_enter", "rollback_scan", "rollback_flag"}
      BY DEF Undoes
    <2>2. epoch' = epoch
      BY <2>1, EpochStays DEF NextClaim, SetDone, Goto
    <2>3. ~(Load(t) \/ Store(t) \/ LoadEnd(t) \/ Return(t) \/ Tracker(t))
      BY <2>1 DEF Load, Store, LoadEnd, LoadCheck, LoadMem, Return, Tracker, LoadMask, LoadFirst,
         LoadBuf, StoreFlag, ViolationLast, ViolationFlags, CommitWrite, CommitLast, CommitClear,
         CommitReturn, UndoPop, UndoReturn, Goto
    <2>4. Quiet(t) \/ Counts(t)
      BY <2>3, WorkerKinds, RingKinds
    <2>5. CASE Quiet(t)
      <3>1. pc[t] = "rollback" /\ pc'[t] = "rollback_enter" /\ UNCHANGED <<start, cur>>
        BY <1>0, <2>1, <2>5 DEF Quiet, RunLabels, RollTail, Client!Rolling
      <3> QED
        BY <2>2, <3>1 DEF Threat, Undoes
    <2>6. CASE Counts(t)
      <3>1. \/ RollbackEnter(t) \/ RollbackSkip(t) \/ RollbackStatus(t) \/ RollbackFlag(t)
            \/ RollbackNext(t)
        BY <2>1, <2>6 DEF Counts, NextClaim, NextMark, RollbackDone, SetDone, GetCommitCas,
           CommitDone, FirstCas, Goto
      <3>2. CASE RollbackEnter(t)
        <4>1. pc[t] = "rollback_enter" /\ pc'[t] = "rollback_scan" /\ cur'[t] = start[t]
          BY <1>0, <3>2 DEF RollbackEnter, Goto
        <4> QED
          BY <2>2, <4>1 DEF Threat, Undoes
      <3>3. CASE RollbackSkip(t)
        <4>1. /\ pc[t] = "rollback_scan" /\ pc'[t] = "rollback_scan" /\ cur'[t] = cur[t] + 1
              /\ status[Index(cur[t])] \in {"commit", "rollback", "pending_rollback"}
          BY <1>0, <3>3 DEF RollbackSkip, Goto
        <4>2. cur[t] <= e /\ cur[t] # e
          BY <4>1 DEF Undoes, Live
        <4>3. cur'[t] <= e
          BY <1>0, <4>1, <4>2
        <4> QED
          BY <2>2, <4>1, <4>3 DEF Threat, Undoes
      <3>4. CASE RollbackStatus(t)
        <4>1. /\ pc[t] = "rollback_scan" /\ pc'[t] = "rollback_flag" /\ UNCHANGED cur
              /\ status'[Index(cur[t])] \in RolledBack
          BY <1>0, <3>4 DEF RollbackStatus, Goto, locals, RolledBack
        <4>2. cur[t] <= e /\ cur[t] # e
          BY <4>1 DEF Undoes, Live, RolledBack
        <4>3. cur'[t] < e
          BY <1>0, <4>1, <4>2
        <4> QED
          BY <2>2, <4>1, <4>3 DEF Threat, Undoes
      <3>5. CASE RollbackFlag(t)
        <4>1. /\ pc[t] = "rollback_flag" /\ pc'[t] = "rollback_scan" /\ cur'[t] = cur[t] + 1
          BY <1>0, <3>5 DEF RollbackFlag, Goto
        <4>2. cur'[t] <= e
          BY <1>0, <4>1 DEF Undoes
        <4> QED
          BY <2>2, <4>1, <4>2 DEF Threat, Undoes
      <3>6. CASE RollbackNext(t)
        <4>1. pc[t] = "rollback_scan" /\ cur[t] >= next
          BY <3>6 DEF RollbackNext, Goto
        <4> QED
          BY <1>0, <4>1 DEF Undoes, Live
      <3> QED
        BY <3>1, <3>2, <3>3, <3>4, <3>5, <3>6
    <2> QED
      BY <2>4, <2>5, <2>6
  <1> QED
    BY <1>1, <1>2

\* The threat of an outstanding store becomes that of a violation check.
LEMMA MissesStays ==
  ASSUME RingInv, Sane, NoDelay, NEW t \in Thread, Worker(t), NEW u \in Thread, NEW e \in Nat,
         Live(e), Live(e)', epoch[u] < e, Misses(u, e)
  PROVE  Doomed(e)'
  <1>0. /\ nextCommit \in Nat /\ epoch[u] \in Nat /\ epoch \in [Thread -> Nat]
        /\ pc \in [Thread -> Client!Labels \cup TrackerLabels]
        /\ seen \in [Thread -> SUBSET Slot]
    BY CursorFacts, TypeFacts
  <1>1. PICK a \in Addr, d \in Nat :
          epoch[u] < d /\ d <= e /\ Outstanding(u, a) /\ Exposed(d) /\ Index(d) \in readers[a]
    BY DEF Misses
  <1>2. nextCommit <= epoch[u]
    BY ThreatRuns DEF Threat
  <1>3. nextCommit <= d
    BY <1>0, <1>1, <1>2
  <1>4. CASE Threat(t, e)'
    BY <1>4 DEF Doomed
  <1>5. CASE Exposed(d)'
    <2>1. Index(d) \in readers'[a]
      BY <1>1, <1>3, ReadersStay
    <2>2. CASE u # t
      <3>1. Outstanding(u, a)' /\ epoch'[u] = epoch[u]
        BY <1>1, <2>2, OthersStay DEF Outstanding
      <3>2. Misses(u, e)'
        BY <1>1, <1>5, <2>1, <3>1 DEF Misses
      <3> QED
        BY <3>1, <3>2 DEF Threat, Doomed
    <2>3. CASE u = t
      <3>1. epoch' = epoch /\ (Outstanding(u, a)' \/ (StoreFlag(u) /\ at[u] = a))
        BY <1>1, <2>3, OutstandingStays
      <3>2. CASE Outstanding(u, a)'
        <4>1. Misses(u, e)'
          BY <1>1, <1>5, <2>1, <3>1, <3>2 DEF Misses
        <4> QED
          BY <3>1, <4>1 DEF Threat, Doomed
      <3>3. CASE StoreFlag(u) /\ at[u] = a
        <4>1. pc'[u] = "violation_last" /\ seen'[u] = readers[a]
          BY <1>0, <3>3 DEF StoreFlag, Goto
        <4>2. Finds(u, e)'
          BY <1>1, <1>5, <3>1, <4>1 DEF Finds
        <4> QED
          BY <3>1, <4>2 DEF Threat, Doomed
      <3> QED
        BY <3>1, <3>2, <3>3
    <2> QED
      BY <2>2, <2>3
  <1> QED
    BY <1>1, <1>3, <1>4, <1>5, ExposedStays

\* The threat of a violation check becomes that of a rollback.
LEMMA FindsStays ==
  ASSUME RingInv, Sane, NoDelay, NEW t \in Thread, Worker(t), NEW u \in Thread, NEW e \in Nat,
         Live(e), Live(e)', epoch[u] < e, Finds(u, e)
  PROVE  Doomed(e)'
  <1>0. /\ first \in Nat /\ nextCommit \in Nat /\ next \in Nat /\ EpochMax \in Nat
        /\ first <= nextCommit /\ next <= first + EpochMax
        /\ epoch[u] \in Nat /\ epoch \in [Thread -> Nat] /\ start \in [Thread -> Nat]
        /\ pc \in [Thread -> Client!Labels \cup TrackerLabels]
    BY CursorFacts
  <1>1. PICK d \in Nat : /\ epoch[u] < d /\ d <= e /\ Exposed(d) /\ Index(d) \in seen[u]
                         /\ pc[u] = "violation_flags" => d < pick[u]
    BY DEF Finds
  <1>2. nextCommit <= epoch[u]
    BY ThreatRuns DEF Threat
  <1>3. nextCommit <= d /\ d < next /\ first <= d /\ d < first + EpochMax
    BY <1>0, <1>1, <1>2 DEF Exposed
  <1>4. CASE Threat(t, e)'
    BY <1>4 DEF Doomed
  <1>5. CASE Exposed(d)'
    <2>1. CASE u # t
      <3>1. UNCHANGED <<pc[u], epoch[u], seen[u], pick[u]>>
        BY <2>1, OthersStay
      <3>2. Finds(u, e)'
        BY <1>1, <1>5, <3>1 DEF Finds
      <3> QED
        BY <3>1, <3>2 DEF Threat, Doomed
    <2>2. CASE u = t
      <3> USE <2>2
      <3>1. pc[t] \in {"violation_last", "violation_flags"}
        BY DEF Finds
      <3>2. epoch' = epoch
        BY <3>1, EpochStays DEF NextClaim, SetDone, Goto
      <3>3. ViolationLast(t) \/ ViolationFlags(t)
        <4>1. ~(Load(t) \/ Store(t) \/ LoadEnd(t) \/ Return(t))
          BY <3>1 DEF Load, Store, LoadEnd, LoadCheck, LoadMem, Return, Goto
        <4>2. ~Ring(t)
          <5>1. pc[t] \in TrackerLabels
            BY <3>1 DEF TrackerLabels
          <5> QED
            BY <5>1, RingLabels DEF RingInv, TypeInv
        <4>3. ~(\/ LoadMask(t) \/ LoadFirst(t) \/ LoadBuf(t) \/ StoreFlag(t)
                \/ CommitWrite(t) \/ CommitLast(t) \/ CommitClear(t) \/ CommitReturn(t)
                \/ UndoPop(t) \/ UndoReturn(t))
          BY <3>1 DEF LoadMask, LoadFirst, LoadBuf, StoreFlag, CommitWrite, CommitLast, CommitClear,
             CommitReturn, UndoPop, UndoReturn, Goto
        <4> QED
          BY <4>1, <4>2, <4>3, WorkerKinds DEF Tracker
      <3>4. CASE ViolationLast(t)
        <4>1. ~(epoch[t] + 1 >= next)
          BY <1>0, <1>1, <1>3
        <4>2. /\ pc' = [pc EXCEPT ![t] = "violation_flags"]
              /\ pick' = [pick EXCEPT ![t] = next]
              /\ UNCHANGED <<at, seen>>
          BY <3>4, <4>1 DEF ViolationLast, Goto
        <4>3. pc'[t] = "violation_flags" /\ pick'[t] = next
          BY <1>0, <4>2, TypeFacts
        <4>4. Finds(u, e)'
          BY <1>1, <1>3, <1>5, <3>2, <4>2, <4>3 DEF Finds
        <4> QED
          BY <3>2, <4>4 DEF Threat, Doomed
      <3>5. CASE ViolationFlags(t)
        <4>1. Index(d) \notin rollbackFlag
          <5> SUFFICES ASSUME Index(d) \in rollbackFlag PROVE FALSE
            OBVIOUS
          <5>1. status[Index(d)] \notin RolledBack
            BY <1>1 DEF Exposed, RolledBack
          <5>2. PICK v \in Thread : pc[v] \in {"undo", "rollback_done"} /\ Index(epoch[v]) = Index(d)
            BY <5>1, FlagFacts
          <5>3. epoch[v] \in Nat /\ first <= epoch[v] /\ epoch[v] < first + EpochMax
            BY <1>0, <5>2, RunFacts DEF RunLabels
          <5>4. epoch[v] = d
            BY <1>3, <5>2, <5>3, SameSlot
          <5> QED
            BY <1>1, <5>2, <5>4 DEF Exposed, Fresh
        <4>2. pc[t] = "violation_flags" /\ pick[t] \in Int
          BY <3>5, TypeFacts DEF ViolationFlags, Goto
        <4>3. d \in Violated(t)
          <5>1. d \in epoch[t] + 1 .. pick[t] - 1
            BY <1>0, <1>1, <4>2
          <5> QED
            BY <1>1, <4>1, <5>1 DEF Violated, Flagged
        <4>4. Violated(t) \subseteq Nat
          BY <1>0, <4>2 DEF Violated, Flagged
        <4>5. Earliest(Violated(t)) \in Nat /\ Earliest(Violated(t)) <= d
          BY <4>3, <4>4, EarliestOf
        <4>6. pc'[t] = "rollback" /\ start'[t] = Earliest(Violated(t))
          BY <1>0, <3>5, <4>3 DEF ViolationFlags, Goto
        <4>7. start'[t] <= e
          BY <1>1, <4>5, <4>6
        <4> QED
          BY <3>2, <4>6, <4>7 DEF Threat, Undoes, Doomed
      <3> QED
        BY <3>3, <3>4, <3>5
    <2> QED
      BY <2>1, <2>2
  <1> QED
    BY <1>1, <1>3, <1>4, <1>5, ExposedStays

\* A doomed epoch is so until it is rolled back.
LEMMA DoomedStays ==
  ASSUME RingInv, Sane, NoDelay, NEW t \in Thread, Worker(t), NEW e \in Nat,
         Live(e), Live(e)', Doomed(e)
  PROVE  Doomed(e)'
  <1>1. PICK u \in Thread : Threat(u, e)
    BY DEF Doomed
  <1>2. epoch[u] < e /\ (Misses(u, e) \/ Finds(u, e) \/ Undoes(u, e))
    BY <1>1 DEF Threat
  <1>3. CASE Undoes(u, e)
    BY <1>2, <1>3, UndoesStays DEF Doomed
  <1> QED
    BY <1>2, <1>3, MissesStays, FindsStays

-----------------------------------------------------------------------------
(* The invariant.                                                           *)

\* An epoch that executes is executed by a thread.
RunsInv ==
  \A e \in Nat : nextCommit <= e /\ e < next /\ status[Index(e)] = "executing" =>
    \E u \in Thread : pc[u] \in RunLabels \ {"next_mark"} /\ epoch[u] = e

\* The operation a thread is at.
OpOK(t) ==
  /\ pc[t] \notin Busy => op[t] = 0 /\ sound[t]
  /\ pc[t] \in Loading => op[t] \in 1 .. Len(Body(epoch[t])) /\ Body(epoch[t])[op[t]] = <<"load", at[t]>>
  /\ pc[t] = "store_flag" => WritesAt(epoch[t], at[t], op[t])

\* The operations of an execution whose write flag is set.
Made(t) ==
  IF pc[t] = "store_flag" THEN op[t] - 1
  ELSE IF pc[t] \in Ending THEN Len(Body(epoch[t])) ELSE op[t]

\* The flags and the buffer of the slot hold what the execution has stored.
OwnFlags(t) ==
  pc[t] \in Busy \cup Ending =>
    \A a \in Addr : Index(epoch[t]) \in writers[a] <=>
      \E k \in Nat : k <= Made(t) /\ WritesAt(epoch[t], a, k)

OwnValues(t) ==
  pc[t] \in Busy /\ sound[t] =>
    \A a \in Addr, k \in Nat :
      LastBefore(epoch[t], a, op[t] + 1, k) => wbuf[a][Index(epoch[t])] = Position(epoch[t], k)

\* The buffer holds what iteration e stores.
Buffered(e) == \A a \in Addr : Writes(e, a) => wbuf[a][Index(e)] = Max(StoresOf(e, a))

Executing(t) == status[Index(epoch[t])] = "executing"

\* An execution that has read a wrong value is doomed.
SoundOK(t) ==
  Executing(t) =>
    /\ pc[t] \in Busy /\ ~sound[t] => Doomed(epoch[t])
    /\ pc[t] \in Ending => Buffered(epoch[t]) \/ Doomed(epoch[t])

\* The execution need not look for the store of iteration c.
Found(t, c) == Doomed(epoch[t]) \/ lastCommit[at[t]] >= c

\* The iteration has stored to the address that it loads.
OwnEarlier(t) == \E k \in Nat : k < op[t] /\ WritesAt(epoch[t], at[t], k)

\* What a load has seen of the flags, picked, and read.
ReadsOK(t) == pc[t] \in Loading /\ Executing(t) => Index(epoch[t]) \in readers[at[t]]

SeenOK(t) ==
  pc[t] \in {"load_mask", "load_first"} /\ Executing(t) =>
    /\ \A c \in Nat : first <= c /\ c < epoch[t] /\ Index(c) \in seen[t] => Writes(c, at[t])
    /\ \A c \in Nat : c < epoch[t] /\ Writes(c, at[t]) => Index(c) \in seen[t] \/ Found(t, c)
    /\ Index(epoch[t]) \in seen[t] <=> OwnEarlier(t)

PickOK(t) ==
  pc[t] \in {"load_buf", "load_check"} /\ Executing(t) =>
    /\ OwnEarlier(t) <=> pick[t] = epoch[t]
    /\ pick[t] # epoch[t] =>
         /\ pick[t] < epoch[t] /\ Writes(pick[t], at[t])
         /\ \A c \in Nat : pick[t] < c /\ c < epoch[t] /\ Writes(c, at[t]) => Found(t, c)

ReadOK(t) ==
  pc[t] = "load_check" /\ Executing(t) =>
    /\ pick[t] # epoch[t] => value[t] = Max(StoresOf(pick[t], at[t])) \/ Found(t, pick[t])
    /\ pick[t] = epoch[t] => value[t] = wbuf[at[t]][Index(epoch[t])]

MemOK(t) ==
  pc[t] = "load_mem" /\ Executing(t) =>
    /\ ~OwnEarlier(t)
    /\ \A c \in Nat : c < epoch[t] /\ Writes(c, at[t]) => Found(t, c)

LoadOK(t) == ReadsOK(t) /\ SeenOK(t) /\ PickOK(t) /\ ReadOK(t) /\ MemOK(t)

\* A commit holds the lock of the record, and memory has its value before the record
\* says so.
PublishOK(t) ==
  /\ pc[t] \in Publishing => commitLock[at[t]] = {t}
  /\ pc[t] = "publish_last" =>
       /\ lastCommit[at[t]] < cur[t] /\ Writes(cur[t], at[t])
       /\ mem[at[t]] = Max(StoresOf(cur[t], at[t]))
  /\ pc[t] = "publish_clear" => (Index(cur[t]) \in writers[at[t]] => lastCommit[at[t]] >= cur[t])

ThreadOK(t) ==
  OpOK(t) /\ OwnFlags(t) /\ OwnValues(t) /\ SoundOK(t) /\ LoadOK(t) /\ PublishOK(t)

\* A write flag is one of an iteration that stores there.
FlagsInv ==
  \A e \in Nat, a \in Addr :
    first <= e /\ e < first + EpochMax /\ Index(e) \in writers[a] => Writes(e, a)

\* An epoch that is done has stored what its iteration stores, unless it is doomed.
DoneInv ==
  \A e \in Nat : nextCommit <= e /\ e < next /\ status[Index(e)] = "done" =>
    /\ \A a \in Addr : Index(e) \in writers[a] <=> Writes(e, a)
    /\ Buffered(e) \/ Doomed(e)

\* One whose commit is claimed has, until its record says that it is in memory.
ClaimInv ==
  \A e \in Nat, a \in Addr :
    first <= e /\ e < nextCommit /\ status[Index(e)] = "done" /\ Writes(e, a) =>
      \/ Index(e) \in writers[a] /\ wbuf[a][Index(e)] = Max(StoresOf(e, a))
      \/ lastCommit[a] >= e

\* One whose commit is over is.
PastInv ==
  \A e \in Nat, a \in Addr :
    e < nextCommit /\ (e < first \/ status[Index(e)] = "commit") /\ Writes(e, a) =>
      lastCommit[a] >= e

\* Memory has the value of the last commit, or a commit is about to say so.
MemoryInv ==
  \A a \in Addr :
    /\ lastCommit[a] # -1 => lastCommit[a] \in Nat /\ lastCommit[a] < nextCommit /\ Writes(lastCommit[a], a)
    /\ (\A u \in Thread : ~(pc[u] = "publish_last" /\ at[u] = a)) =>
         mem[a] = IF lastCommit[a] = -1 THEN Initial ELSE Max(StoresOf(lastCommit[a], a))

ResultInv ==
  /\ NoDelay /\ RunsInv
  /\ \A t \in Thread : ThreadOK(t)
  /\ FlagsInv /\ DoneInv /\ ClaimInv /\ PastInv /\ MemoryInv

-----------------------------------------------------------------------------
(* The other threads.                                                       *)

RunnersLive ==
  \A u \in Thread : pc[u] \in RunLabels /\ status[Index(epoch[u])] = "executing" => Live(epoch[u])

\* An epoch that runs and was not rolled back is live.
LEMMA RunLive == RingInv => RunnersLive
  BY RunFacts DEF Live, RunnersLive

\* The doom of an epoch that stays in execution.
LEMMA RunnerDoomed ==
  ASSUME RingInv, RingInv', Sane, NoDelay, NEW t \in Thread, Worker(t), NEW u \in Thread,
         pc[u] \in RunLabels, pc'[u] \in RunLabels, epoch'[u] = epoch[u],
         status[Index(epoch[u])] = "executing", status'[Index(epoch[u])] = "executing",
         Doomed(epoch[u])
  PROVE  Doomed(epoch[u])'
  <1>1. (RingInv => RunnersLive)'
    BY RunLive, PTL
  <1>2. RunnersLive'
    BY <1>1
  <1>3. Live(epoch[u])'
    BY <1>2 DEF Index, RunnersLive
  <1>4. Live(epoch[u])
    BY RunLive DEF RunnersLive
  <1> DEFINE e == epoch[u]
  <1>5. e \in Nat
    BY CursorFacts
  <1>6. PICK d \in Nat : d = e /\ d = epoch[u] /\ d = epoch'[u]
    BY <1>5
  <1>7. Live(d) /\ Live(d)' /\ Doomed(d)
    BY <1>3, <1>4, <1>6
  <1>8. Doomed(d)'
    BY <1>7, DoomedStays
  <1> QED
    BY <1>6, <1>8

\* The last commit of a record only advances.
LEMMA LastCommitStays ==
  ASSUME RingInv, ResultInv, Sane, NEW t \in Thread, Worker(t), NEW a \in Addr
  PROVE  /\ lastCommit[a] \in Int /\ lastCommit'[a] \in Int /\ lastCommit[a] <= lastCommit'[a]
         /\ lastCommit'[a] = lastCommit[a] \/ (CommitLast(t) /\ at[t] = a)
  <1>0. lastCommit \in [Addr -> Int] /\ cur[t] \in Nat /\ NoDelay
    BY TypeFacts, CursorFacts DEF ResultInv
  <1>1. CASE UNCHANGED lastCommit
    BY <1>0, <1>1
  <1>2. CASE CommitLast(t)
    <2>1. pc[t] = "publish_last" /\ at[t] \in Addr /\ lastCommit' = [lastCommit EXCEPT ![at[t]] = cur[t]]
      BY <1>2, TypeFacts DEF CommitLast, Goto, TrackerLabels
    <2>2. lastCommit[at[t]] < cur[t]
      BY <2>1 DEF ResultInv, ThreadOK, PublishOK
    <2> QED
      BY <1>0, <1>2, <2>1, <2>2
  <1>3. UNCHANGED lastCommit \/ CommitLast(t)
    BY <1>0, WorkerKinds DEF Tracker, Load, LoadFlag, Store, StoreBuf, LoadEnd, LoadCheck, LoadMem,
       Return, LoadMask, LoadFirst, LoadBuf, StoreFlag, ViolationLast, ViolationFlags,
       CommitWrite, CommitClear, CommitReturn, UndoPop, UndoReturn, depVars
  <1> QED
    BY <1>1, <1>2, <1>3

\* What a step leaves of another thread's execution.
LEMMA OtherRuns ==
  ASSUME RingInv, RingInv', ResultInv, Sane, NEW t \in Thread, Worker(t), NEW u \in Thread, u # t,
         pc[u] \in RunLabels
  PROVE  /\ \A a \in Addr : /\ Index(epoch[u]) \in readers'[a] <=> Index(epoch[u]) \in readers[a]
                            /\ Index(epoch[u]) \in writers'[a] <=> Index(epoch[u]) \in writers[a]
                            /\ wbuf'[a][Index(epoch[u])] = wbuf[a][Index(epoch[u])]
         /\ Executing(u)' => Executing(u)
         /\ Executing(u)' /\ Doomed(epoch[u]) => Doomed(epoch[u])'
         /\ \A c \in Nat : Executing(u)' /\ at[u] \in Addr /\ Found(u, c) => Found(u, c)'
  <1> DEFINE i == Index(epoch[u])
  <1>0. NoDelay /\ epoch[u] \in Nat /\ i \in Slot
    BY CursorFacts, IndexInSlot DEF ResultInv
  <1>1. UNCHANGED <<pc[u], epoch[u], at[u]>>
    BY <1>0, OthersStay
  <1>2. ~Owns(t, i)
    <2>1. Owns(u, i)
      BY DEF Owns
    <2> QED
      BY <2>1, OneOwner
  <1>3. \A a \in Addr : /\ i \in readers'[a] <=> i \in readers[a]
                        /\ i \in writers'[a] <=> i \in writers[a]
                        /\ wbuf'[a][i] = wbuf[a][i]
    BY <1>0, <1>2, SlotStays
  <1>4. status'[i] = "executing" => status[i] = "executing"
    BY <1>0, <1>2, StatusStays DEF RolledBack
  <1>5. Executing(u)' => Executing(u)
    BY <1>1, <1>4 DEF Executing, Index
  <1>6. Executing(u)' /\ Doomed(epoch[u]) => Doomed(epoch[u])'
    <2> SUFFICES ASSUME Executing(u)', Doomed(epoch[u]) PROVE Doomed(epoch[u])'
      OBVIOUS
    <2>1. status[i] = "executing" /\ status'[i] = "executing"
      BY <1>1, <1>4 DEF Executing, Index
    <2> QED
      BY <1>0, <1>1, <2>1, RunnerDoomed
  <1>7. ASSUME NEW c \in Nat, Executing(u)', at[u] \in Addr, Found(u, c)
        PROVE  Found(u, c)'
    <2>1. CASE Doomed(epoch[u])
      BY <1>6, <1>7, <2>1 DEF Found
    <2>2. CASE lastCommit[at[u]] >= c
      <3>1. lastCommit'[at[u]] >= c
        BY <1>7, <2>2, LastCommitStays
      <3> QED
        BY <1>1, <3>1 DEF Found
    <2> QED
      BY <1>7, <2>1, <2>2 DEF Found
  <1> QED
    BY <1>3, <1>5, <1>6, <1>7

\* A thread's execution is not disturbed by the others.
LEMMA OthersExecute ==
  ASSUME RingInv, RingInv', ResultInv, Sane, NEW t \in Thread, Worker(t), NEW u \in Thread, u # t
  PROVE  OpOK(u)' /\ OwnFlags(u)' /\ OwnValues(u)' /\ SoundOK(u)'
  <1>0. NoDelay /\ OpOK(u) /\ OwnFlags(u) /\ OwnValues(u) /\ SoundOK(u)
    BY DEF ResultInv, ThreadOK
  <1>1. UNCHANGED <<pc[u], epoch[u], at[u], op[u], sound[u]>>
    BY <1>0, OthersStay
  <1>2. OpOK(u)'
    BY <1>0, <1>1 DEF OpOK, WritesAt
  <1>3. CASE pc[u] \in RunLabels
    <2>1. /\ \A a \in Addr : /\ Index(epoch[u]) \in writers'[a] <=> Index(epoch[u]) \in writers[a]
                             /\ wbuf'[a][Index(epoch[u])] = wbuf[a][Index(epoch[u])]
          /\ Executing(u)' => Executing(u)
          /\ Executing(u)' /\ Doomed(epoch[u]) => Doomed(epoch[u])'
      BY <1>3, OtherRuns
    <2>2. OwnFlags(u)'
      <3>1. Made(u)' = Made(u)
        BY <1>1 DEF Made
      <3> QED
        BY <1>0, <1>1, <2>1, <3>1 DEF OwnFlags, WritesAt, Index
    <2>3. OwnValues(u)'
      <3> SUFFICES ASSUME pc[u] \in Busy, sound[u], NEW a \in Addr, NEW k \in Nat,
                          LastBefore(epoch[u], a, op[u] + 1, k)
                   PROVE  wbuf'[a][Index(epoch[u])] = Position(epoch[u], k)
        BY <1>1 DEF OwnValues
      <3> QED
        BY <1>0, <2>1 DEF OwnValues
    <2>4. Buffered(epoch[u]) => Buffered(epoch[u])'
      <3> SUFFICES ASSUME Buffered(epoch[u]), NEW a \in Addr, Writes(epoch[u], a)
                   PROVE  wbuf'[a][Index(epoch[u])] = Max(StoresOf(epoch[u], a))
        BY <1>1 DEF Buffered
      <3> QED
        BY <2>1 DEF Buffered
    <2>5. SoundOK(u)'
      <3> SUFFICES ASSUME Executing(u)'
                   PROVE  /\ pc[u] \in Busy /\ ~sound[u] => Doomed(epoch[u])'
                          /\ pc[u] \in Ending => Buffered(epoch[u])' \/ Doomed(epoch[u])'
        BY <1>1 DEF SoundOK
      <3> QED
        BY <1>0, <2>1, <2>4 DEF SoundOK
    <2> QED
      BY <1>2, <2>2, <2>3, <2>5
  <1>4. CASE pc[u] \notin RunLabels
    <2>1. pc'[u] \notin Busy \cup Ending
      BY <1>1, <1>4 DEF RunLabels, Busy, Ending
    <2> QED
      BY <1>2, <2>1 DEF OwnFlags, OwnValues, SoundOK
  <1> QED
    BY <1>3, <1>4

\* Nor are its loads.
LEMMA OthersLoad ==
  ASSUME RingInv, RingInv', ResultInv, Sane, NEW t \in Thread, Worker(t), NEW u \in Thread, u # t
  PROVE  LoadOK(u)'
  <1>0. NoDelay /\ ReadsOK(u) /\ SeenOK(u) /\ PickOK(u) /\ ReadOK(u) /\ MemOK(u)
    BY DEF ResultInv, ThreadOK, LoadOK
  <1>1. UNCHANGED <<pc[u], epoch[u], at[u], seen[u], pick[u], value[u], op[u]>>
    BY <1>0, OthersStay
  <1>2. CASE pc[u] \in Loading
    <2>0. at[u] \in Addr /\ first \in Nat /\ first <= first' /\ epoch[u] \in Nat
          /\ (pc[u] \in {"load_buf", "load_check"} => pick[u] \in Nat)
      BY <1>0, <1>2, TypeFacts, CursorFacts, CursorsStay DEF Loading, TrackerLabels
    <2>1. /\ \A a \in Addr : /\ Index(epoch[u]) \in readers'[a] <=> Index(epoch[u]) \in readers[a]
                             /\ wbuf'[a][Index(epoch[u])] = wbuf[a][Index(epoch[u])]
          /\ Executing(u)' => Executing(u)
          /\ \A c \in Nat : Executing(u)' /\ Found(u, c) => Found(u, c)'
      BY <1>2, <2>0, OtherRuns DEF RunLabels, Tracking
    <2>2. OwnEarlier(u)' <=> OwnEarlier(u)
      BY <1>1 DEF OwnEarlier, WritesAt
    <2>3. \A c \in Nat : Writes(c, at[u])' <=> Writes(c, at[u])
      BY <1>1 DEF Writes, WritesAt
    <2>4. first' \in Nat
      BY <1>0, <2>0, CursorsStay DEF FirstCas
    <2>5. ReadsOK(u)'
      BY <1>0, <1>1, <2>0, <2>1 DEF ReadsOK, Index
    <2>6. SeenOK(u)'
      <3> SUFFICES ASSUME pc[u] \in {"load_mask", "load_first"}, Executing(u)'
                   PROVE  /\ \A c \in Nat : first' <= c /\ c < epoch[u] /\ Index(c) \in seen[u] => Writes(c, at[u])
                          /\ \A c \in Nat : c < epoch[u] /\ Writes(c, at[u]) => Index(c) \in seen[u] \/ Found(u, c)'
                          /\ Index(epoch[u]) \in seen[u] <=> OwnEarlier(u)
        BY <1>1, <2>2, <2>3 DEF SeenOK, Index
      <3>1. /\ \A c \in Nat : first <= c /\ c < epoch[u] /\ Index(c) \in seen[u] => Writes(c, at[u])
            /\ \A c \in Nat : c < epoch[u] /\ Writes(c, at[u]) => Index(c) \in seen[u] \/ Found(u, c)
            /\ Index(epoch[u]) \in seen[u] <=> OwnEarlier(u)
        BY <1>0, <2>1 DEF SeenOK
      <3>2. \A c \in Nat : first' <= c => first <= c
        BY <2>0, <2>4
      <3> QED
        BY <2>1, <3>1, <3>2
    <2>7. PickOK(u)'
      <3> SUFFICES ASSUME pc[u] \in {"load_buf", "load_check"}, Executing(u)'
                   PROVE  /\ OwnEarlier(u) <=> pick[u] = epoch[u]
                          /\ pick[u] # epoch[u] =>
                               /\ pick[u] < epoch[u] /\ Writes(pick[u], at[u])
                               /\ \A c \in Nat : pick[u] < c /\ c < epoch[u] /\ Writes(c, at[u]) => Found(u, c)'
        BY <1>1, <2>0, <2>2, <2>3 DEF PickOK
      <3> QED
        BY <1>0, <2>1 DEF PickOK
    <2>8. ReadOK(u)'
      <3> SUFFICES ASSUME pc[u] = "load_check", Executing(u)'
                   PROVE  /\ pick[u] # epoch[u] => value[u] = Max(StoresOf(pick[u], at[u])) \/ Found(u, pick[u])'
                          /\ pick[u] = epoch[u] => value[u] = wbuf[at[u]][Index(epoch[u])]
        BY <1>1, <2>0, <2>1 DEF ReadOK, Index, StoresOf, Position
      <3>1. Executing(u) /\ wbuf'[at[u]][Index(epoch[u])] = wbuf[at[u]][Index(epoch[u])]
        BY <2>0, <2>1
      <3>2. Found(u, pick[u]) => Found(u, pick[u])'
        BY <1>1, <2>0, <2>1 DEF Found
      <3> QED
        BY <1>0, <3>1, <3>2 DEF ReadOK
    <2>9. MemOK(u)'
      <3> SUFFICES ASSUME pc[u] = "load_mem", Executing(u)'
                   PROVE  /\ ~OwnEarlier(u)
                          /\ \A c \in Nat : c < epoch[u] /\ Writes(c, at[u]) => Found(u, c)'
        BY <1>1, <2>2, <2>3 DEF MemOK
      <3> QED
        BY <1>0, <2>1 DEF MemOK
    <2> QED
      BY <2>5, <2>6, <2>7, <2>8, <2>9 DEF LoadOK
  <1>3. CASE pc[u] \notin Loading
    <2>1. pc'[u] \notin Loading
      BY <1>1, <1>3
    <2> QED
      BY <2>1 DEF LoadOK, ReadsOK, SeenOK, PickOK, ReadOK, MemOK, Loading
  <1> QED
    BY <1>2, <1>3

\* Nor are its commits: the record is locked.
LEMMA OthersPublish ==
  ASSUME RingInv, ResultInv, Sane, NEW t \in Thread, Worker(t), NEW u \in Thread, u # t
  PROVE  PublishOK(u)'
  <1>0. NoDelay /\ PublishOK(u) /\ PublishOK(t)
    BY DEF ResultInv, ThreadOK
  <1>1. UNCHANGED <<pc[u], cur[u], at[u]>>
    BY <1>0, OthersStay
  <1>2. CASE pc[u] \in Publishing
    <2>0. /\ at[u] \in Addr /\ commitLock[at[u]] = {u} /\ cur[u] \in Nat /\ Index(cur[u]) \in Slot
          /\ commitLock \in [Addr -> SUBSET Thread] /\ mem \in [Addr -> Value]
          /\ (pc[t] \in Publishing => at[t] \in Addr)
      BY <1>0, <1>2, TypeFacts, CursorFacts, IndexInSlot DEF PublishOK, TrackerLabels, Publishing
    <2>1. pc[t] \in Publishing => at[t] # at[u]
      BY <1>0, <2>0 DEF PublishOK
    <2>2. CommitWrite(t) => head[Index(cur[t])] # at[u]
      BY <2>0 DEF CommitWrite
    <2>3. commitLock'[at[u]] = commitLock[at[u]] /\ mem'[at[u]] = mem[at[u]]
      <3>1. CASE UNCHANGED <<commitLock, mem>>
        BY <3>1
      <3>2. CASE CommitWrite(t)
        BY <2>0, <2>2, <3>2 DEF CommitWrite
      <3>3. CASE CommitClear(t)
        BY <2>0, <2>1, <3>3 DEF CommitClear, Goto, Publishing
      <3>4. UNCHANGED <<commitLock, mem>> \/ CommitWrite(t) \/ CommitClear(t)
        BY <1>0, WorkerKinds DEF Tracker, Load, LoadFlag, Store, StoreBuf, LoadEnd, LoadCheck, LoadMem,
           Return, LoadMask, LoadFirst, LoadBuf, StoreFlag, ViolationLast, ViolationFlags,
           CommitLast, CommitReturn, UndoPop, UndoReturn, depVars
      <3> QED
        BY <3>1, <3>2, <3>3, <3>4
    <2>4. lastCommit'[at[u]] = lastCommit[at[u]]
      <3>1. CommitLast(t) => at[t] # at[u]
        BY <2>1 DEF CommitLast, Goto, Publishing
      <3> QED
        BY <2>0, <3>1, LastCommitStays
    <2>5. Index(cur[u]) \in writers'[at[u]] <=> Index(cur[u]) \in writers[at[u]]
      <3>1. Owns(u, Index(cur[u]))
        BY <1>2 DEF Owns, CommitLabels
      <3>2. ~Owns(t, Index(cur[u]))
        BY <3>1, OneOwner
      <3> QED
        BY <1>0, <2>0, <3>2, SlotStays
    <2> QED
      BY <1>0, <1>1, <2>3, <2>4, <2>5 DEF PublishOK, Index, Writes, WritesAt, StoresOf, Position
  <1>3. CASE pc[u] \notin Publishing
    BY <1>1, <1>3 DEF PublishOK, Publishing
  <1> QED
    BY <1>2, <1>3

\* A thread's part of the invariant survives the steps of the others,
LEMMA OthersOK ==
  ASSUME RingInv, RingInv', ResultInv, Sane, NEW t \in Thread, Worker(t), NEW u \in Thread, u # t
  PROVE  ThreadOK(u)'
  BY OthersExecute, OthersLoad, OthersPublish DEF ThreadOK

-----------------------------------------------------------------------------
(* The thread itself, outside of the loads and stores.                      *)

\* Nothing is said of a thread that executes and commits nothing.
LEMMA IdleOK ==
  ASSUME NEW t \in Thread, pc'[t] \notin Busy \cup Ending \cup Publishing, op'[t] = 0, sound'[t]
  PROVE  ThreadOK(t)'
  BY DEF ThreadOK, OpOK, OwnFlags, OwnValues, SoundOK, LoadOK, ReadsOK, SeenOK, PickOK, ReadOK, MemOK,
         PublishOK, Busy, Tracking, Loading, Ending, Publishing

\* The step of an execution that neither loads nor stores.
LEMMA GoesOnOK ==
  ASSUME RingInv, RingInv', ResultInv, Sane, NEW t \in Thread, Worker(t),
         pc[t] \in Busy \ (Loading \cup {"store_flag"}),
         pc'[t] \in Busy \ (Loading \cup {"store_flag"}),
         UNCHANGED <<epoch[t], op[t], sound[t], writers, wbuf>>
  PROVE  ThreadOK(t)'
  <1>0. NoDelay /\ OpOK(t) /\ OwnFlags(t) /\ OwnValues(t) /\ SoundOK(t)
    BY DEF ResultInv, ThreadOK
  <1>1. pc[t] \in RunLabels /\ pc'[t] \in RunLabels
    BY DEF Busy, RunLabels
  <1>2. status[Index(epoch[t])] \in {"executing", "pending_rollback"} /\ Index(epoch[t]) \in Slot
    BY OwnedStatus, CursorFacts, IndexInSlot DEF RunLabels, Busy, Tracking, Loading, Client!Rolling
  <1>3. Executing(t)' => Executing(t)
    <2> SUFFICES ASSUME status'[Index(epoch[t])] = "executing", status[Index(epoch[t])] = "pending_rollback"
                 PROVE  FALSE
      BY <1>2 DEF Executing, Index
    <2>1. NextMark(t)
      <3>1. status \in [Slot -> Status] /\ Index(cur[t]) \in Slot
        BY CursorFacts, IndexInSlot
      <3> QED
        BY <1>0, <1>2, <3>1, StatusSteps DEF RollbackStatus, SetDone, CommitDone
    <2> QED
      BY <2>1 DEF NextMark, Goto, Busy, Tracking, Loading, Client!Rolling
  <1>4. Executing(t)' /\ Doomed(epoch[t]) => Doomed(epoch[t])'
    <2> SUFFICES ASSUME Executing(t)', Doomed(epoch[t]) PROVE Doomed(epoch[t])'
      OBVIOUS
    <2>1. status[Index(epoch[t])] = "executing" /\ status'[Index(epoch[t])] = "executing"
      BY <1>3 DEF Executing, Index
    <2> QED
      BY <1>0, <1>1, <2>1, RunnerDoomed
  <1>5. Made(t)' = Made(t)
    BY DEF Made, Ending, Busy, Tracking, Loading, Client!Rolling
  <1>6. OpOK(t)'
    BY <1>0 DEF OpOK
  <1>7. OwnFlags(t)'
    BY <1>0, <1>5 DEF OwnFlags
  <1>8. OwnValues(t)'
    BY <1>0 DEF OwnValues
  <1>9. SoundOK(t)'
    <2>1. pc'[t] \notin Ending
      BY DEF Ending, Busy, Tracking, Loading, Client!Rolling
    <2> QED
      BY <1>0, <1>3, <1>4, <2>1 DEF SoundOK
  <1>10. LoadOK(t)' /\ PublishOK(t)'
    BY DEF LoadOK, ReadsOK, SeenOK, PickOK, ReadOK, MemOK, PublishOK, Loading, Publishing, Busy,
       Tracking, Client!Rolling
  <1> QED
    BY <1>6, <1>7, <1>8, <1>9, <1>10 DEF ThreadOK


\* A step of the tracker in an execution leaves it in execution, and doomed if it was.
LEMMA OwnRuns ==
  ASSUME RingInv, RingInv', ResultInv, Sane, NEW t \in Thread, Worker(t),
         Load(t) \/ Store(t) \/ LoadEnd(t) \/ Return(t) \/ Tracker(t),
         pc[t] \in RunLabels, pc'[t] \in RunLabels
  PROVE  /\ epoch'[t] = epoch[t]
         /\ Executing(t)' <=> Executing(t)
         /\ Executing(t) /\ Doomed(epoch[t]) => Doomed(epoch[t])'
         /\ \A c \in Nat : Executing(t) /\ at[t] \in Addr /\ at'[t] = at[t] /\ Found(t, c) => Found(t, c)'
  <1>0. NoDelay /\ epoch[t] \in Nat
    BY CursorFacts DEF ResultInv
  <1>1. UNCHANGED <<status, epoch>>
    BY TrackerFrame
  <1>2. Executing(t)' <=> Executing(t)
    BY <1>1 DEF Executing, Index
  <1>3. Executing(t) /\ Doomed(epoch[t]) => Doomed(epoch[t])'
    <2> SUFFICES ASSUME Executing(t), Doomed(epoch[t]) PROVE Doomed(epoch[t])'
      OBVIOUS
    <2>1. status[Index(epoch[t])] = "executing" /\ status'[Index(epoch[t])] = "executing"
      BY <1>1 DEF Executing
    <2> QED
      BY <1>0, <1>1, <2>1, RunnerDoomed
  <1>4. ASSUME NEW c \in Nat, Executing(t), at[t] \in Addr, at'[t] = at[t], Found(t, c)
        PROVE  Found(t, c)'
    <2>1. CASE Doomed(epoch[t])
      BY <1>3, <1>4, <2>1 DEF Found
    <2>2. CASE lastCommit[at[t]] >= c
      <3>1. lastCommit'[at[t]] >= c
        BY <1>4, <2>2, LastCommitStays
      <3> QED
        BY <1>4, <3>1 DEF Found
    <2> QED
      BY <1>4, <2>1, <2>2 DEF Found
  <1> QED
    BY <1>1, <1>2, <1>3, <1>4

\* A step of a load changes neither the flags nor the buffer of the execution.
LEMMA LoadingOK ==
  ASSUME RingInv, RingInv', ResultInv, Sane, NEW t \in Thread, Worker(t),
         LoadEnd(t) \/ Tracker(t),
         pc[t] \in Loading, pc'[t] \in Loading \cup {"exec"},
         UNCHANGED <<op, writers, wbuf>>, pc'[t] \in Loading => at'[t] = at[t],
         sound'[t] => sound[t],
         Executing(t) /\ sound[t] /\ ~sound'[t] => Doomed(epoch[t])
  PROVE  OpOK(t)' /\ OwnFlags(t)' /\ OwnValues(t)' /\ SoundOK(t)' /\ PublishOK(t)'
  <1>0. NoDelay /\ OpOK(t) /\ OwnFlags(t) /\ OwnValues(t) /\ SoundOK(t)
    BY DEF ResultInv, ThreadOK
  <1>1. /\ pc[t] \in Busy \ {"store_flag"} /\ pc'[t] \in Busy \ {"store_flag"}
        /\ pc'[t] \notin Ending \cup Publishing
        /\ pc[t] \in RunLabels /\ pc'[t] \in RunLabels
        /\ pc[t] \notin Ending
    BY DEF Busy, Ending, RunLabels, Tracking, Loading, Publishing
  <1>2. /\ epoch'[t] = epoch[t]
        /\ Executing(t)' <=> Executing(t)
        /\ Executing(t) /\ Doomed(epoch[t]) => Doomed(epoch[t])'
    BY <1>1, OwnRuns
  <1>3. OpOK(t)'
    BY <1>0, <1>1, <1>2 DEF OpOK
  <1>4. OwnFlags(t)'
    <2>1. Made(t)' = Made(t)
      BY <1>1 DEF Made
    <2> QED
      BY <1>0, <1>1, <1>2, <2>1 DEF OwnFlags
  <1>5. OwnValues(t)'
    BY <1>0, <1>1, <1>2 DEF OwnValues
  <1>6. SoundOK(t)'
    BY <1>0, <1>1, <1>2 DEF SoundOK
  <1>7. PublishOK(t)'
    BY <1>1 DEF PublishOK, Publishing
  <1> QED
    BY <1>3, <1>4, <1>5, <1>6, <1>7

RunnersExposed == \A t \in Thread : pc[t] \in RunLabels \ Fresh /\ Executing(t) => Exposed(epoch[t])

\* An execution under way is exposed.
LEMMA RunExposed == RingInv => RunnersExposed
  <1> SUFFICES ASSUME RingInv, NEW t \in Thread, pc[t] \in RunLabels \ Fresh, Executing(t)
               PROVE  Exposed(epoch[t])
    BY DEF RunnersExposed
  <1>1. epoch[t] < next
    BY RunFacts DEF Executing
  <1>2. ASSUME NEW u \in Thread, pc[u] \in Fresh, epoch[u] = epoch[t]
        PROVE  FALSE
    <2>1. Owns(u, Index(epoch[t])) /\ Owns(t, Index(epoch[t]))
      BY <1>2 DEF Owns, RunLabels, Fresh
    <2> QED
      BY <1>2, <2>1, OneOwner
  <1> QED
    BY <1>1, <1>2 DEF Exposed, Executing


\* What an execution must find of the store of an earlier iteration: unless it is in
\* memory, or a threat, or still to be made, the value is in the buffer, under a
\* write flag, and the slot is not rolled back.
LEMMA EarlierStore ==
  ASSUME RingInv, ResultInv, NEW e \in Nat, NEW a \in Addr, NEW c \in Nat, c < e, Writes(c, a),
         e < next, status[Index(e)] = "executing"
  PROVE  \/ Doomed(e)
         \/ \E u \in Thread : epoch[u] < e /\ Outstanding(u, a)
         \/ lastCommit[a] >= c
         \/ /\ Index(c) \in writers[a] /\ wbuf[a][Index(c)] = Max(StoresOf(c, a))
            /\ Index(c) \notin rollbackFlag
  <1> DEFINE Threatened == Doomed(e) \/ \E u \in Thread : epoch[u] < e /\ Outstanding(u, a)
             Ready == /\ Index(c) \in writers[a] /\ wbuf[a][Index(c)] = Max(StoresOf(c, a))
  <1>0. /\ first \in Nat /\ nextCommit \in Nat /\ next \in Nat /\ EpochMax \in Nat
        /\ first <= nextCommit /\ nextCommit <= next /\ next <= first + EpochMax
        /\ lastCommit[a] \in Int /\ op \in [Thread -> 0 .. Width] /\ Width \in Nat
        /\ epoch \in [Thread -> Nat] /\ start \in [Thread -> Nat] /\ cur \in [Thread -> Nat]
    BY CursorFacts, TypeFacts, LoopType
  <1>1. Doomed(c) => Threatened
    BY <1>0, DoomedLater
  <1>2. ASSUME NEW u \in Thread, pc[u] \in Fresh, epoch[u] = c
        PROVE  Threatened
    <2>1. op[u] = 0
      BY <1>2 DEF ResultInv, ThreadOK, OpOK, Fresh, Busy, Tracking, Loading, Client!Rolling
    <2>2. PICK k \in Nat : WritesAt(c, a, k)
      BY DEF Writes
    <2>3. op[u] < k
      BY <2>1, <2>2 DEF WritesAt
    <2> QED
      BY <1>2, <2>2, <2>3 DEF Outstanding
  <1>3. ASSUME InHand(c)
        PROVE  Threatened
    <2>1. PICK u \in Thread :
            \/ pc[u] = "next_mark" /\ epoch[u] = c
            \/ pc[u] = "rollback_scan" /\ start[u] <= c /\ c < cur[u]
            \/ pc[u] = "rollback_flag" /\ start[u] <= c /\ c <= cur[u]
      BY <1>3 DEF InHand
    <2>2. CASE pc[u] = "next_mark" /\ epoch[u] = c
      BY <1>2, <2>2 DEF Fresh
    <2>3. CASE pc[u] = "rollback_scan" /\ start[u] <= c /\ c < cur[u]
      <3>1. /\ epoch[u] < start[u]
            /\ \A f \in Nat : start[u] <= f /\ f < cur[u] => status[Index(f)] \in {"commit"} \cup RolledBack
        BY <2>3, RollFacts DEF Client!Rolling
      <3>2. start[u] <= e /\ epoch[u] < e
        BY <1>0, <2>3, <3>1
      <3>3. ~(e < cur[u])
        BY <3>1, <3>2 DEF RolledBack
      <3>4. Threat(u, e)
        BY <1>0, <2>3, <3>2, <3>3 DEF Threat, Undoes
      <3> QED
        BY <3>4 DEF Doomed
    <2>4. CASE pc[u] = "rollback_flag" /\ start[u] <= c /\ c <= cur[u]
      <3>1. /\ epoch[u] < start[u]
            /\ \A f \in Nat : start[u] <= f /\ f < cur[u] => status[Index(f)] \in {"commit"} \cup RolledBack
            /\ status[Index(cur[u])] \in RolledBack
        BY <2>4, RollFacts DEF Client!Rolling
      <3>2. start[u] <= e /\ epoch[u] < e
        BY <1>0, <2>4, <3>1
      <3>3. ~(e < cur[u]) /\ e # cur[u]
        BY <3>1, <3>2 DEF RolledBack
      <3>4. Threat(u, e)
        BY <1>0, <2>4, <3>2, <3>3 DEF Threat, Undoes
      <3> QED
        BY <3>4 DEF Doomed
    <2> QED
      BY <2>1, <2>2, <2>3, <2>4
  <1>4. CASE c < first
    <2>1. c < nextCommit
      BY <1>0, <1>4
    <2> QED
      BY <1>4, <2>1 DEF ResultInv, PastInv
  <1>5. CASE first <= c
    <2>1. Index(c) \in rollbackFlag => Threatened
      <3> SUFFICES ASSUME Index(c) \in rollbackFlag PROVE Threatened
        OBVIOUS
      <3>1. CASE status[Index(c)] \in RolledBack
        <4>1. InHand(c)
          BY <1>0, <1>5, <3>1, SlotFacts DEF RolledBack
        <4> QED
          BY <1>3, <4>1
      <3>2. CASE \E t \in Thread : pc[t] \in {"undo", "rollback_done"} /\ Index(epoch[t]) = Index(c)
        <4>1. PICK u \in Thread : pc[u] \in {"undo", "rollback_done"} /\ Index(epoch[u]) = Index(c)
          BY <3>2
        <4>2. first <= epoch[u] /\ epoch[u] < first + EpochMax
          BY <4>1, RunFacts DEF RunLabels
        <4>3. epoch[u] = c
          BY <1>0, <1>5, <4>1, <4>2, SameSlot
        <4> QED
          BY <1>2, <4>1, <4>3 DEF Fresh
      <3> QED
        BY <3>1, <3>2, FlagFacts
    <2>2. CASE c < nextCommit
      <3>1. CASE status[Index(c)] = "commit"
        BY <2>2, <3>1 DEF ResultInv, PastInv
      <3>2. CASE status[Index(c)] = "done"
        BY <1>5, <2>1, <2>2, <3>2 DEF ResultInv, ClaimInv
      <3> QED
        BY <1>5, <2>2, <3>1, <3>2, SlotFacts
    <2>3. CASE nextCommit <= c
      <3>0. c < next
        BY <1>0
      <3>1. CASE status[Index(c)] = "done"
        <4>1. /\ Index(c) \in writers[a]
              /\ Buffered(c) \/ Doomed(c)
          BY <2>3, <3>0, <3>1 DEF ResultInv, DoneInv
        <4> QED
          BY <1>1, <2>1, <4>1 DEF Buffered
      <3>2. CASE status[Index(c)] = "executing"
        <4>1. PICK u \in Thread : pc[u] \in RunLabels \ {"next_mark"} /\ epoch[u] = c
          BY <2>3, <3>0, <3>2 DEF ResultInv, RunsInv
        <4>2. /\ OpOK(u) /\ OwnFlags(u) /\ OwnValues(u) /\ SoundOK(u)
              /\ Executing(u)
          BY <3>2, <4>1 DEF ResultInv, ThreadOK, Executing
        <4>3. CASE pc[u] \in Fresh
          BY <1>2, <4>1, <4>3
        <4>4. CASE Outstanding(u, a)
          BY <4>1, <4>4
        <4>5. CASE pc[u] \in Ending
          <5>1. Index(c) \in writers[a]
            <6>1. PICK k \in Nat : WritesAt(c, a, k)
              BY DEF Writes
            <6>2. k <= Made(u)
              BY <4>1, <4>5, <6>1 DEF Made, WritesAt, Ending
            <6> QED
              BY <4>1, <4>2, <4>5, <6>1, <6>2 DEF OwnFlags
          <5>2. Buffered(c) \/ Doomed(c)
            BY <4>1, <4>2, <4>5 DEF SoundOK
          <5> QED
            BY <1>1, <2>1, <5>1, <5>2 DEF Buffered
        <4>6. CASE pc[u] \in Busy /\ ~Outstanding(u, a)
          <5>0. op[u] \in Nat
            BY <1>0
          <5>1. \A k \in Nat : WritesAt(c, a, k) => k <= op[u]
            BY <4>1, <4>6, <5>0 DEF Outstanding
          <5>2. PICK k \in Nat : LastBefore(c, a, op[u] + 1, k)
            <6>1. \E k \in Nat : k < op[u] + 1 /\ WritesAt(c, a, k)
              BY <5>0, <5>1 DEF Writes
            <6> QED
              BY <5>0, <6>1, HasLast
          <5>3. WritesAt(c, a, k) /\ k <= op[u]
            BY <5>1, <5>2 DEF LastBefore
          <5>4. \A l \in Nat : WritesAt(c, a, l) => l <= k
            BY <5>0, <5>1, <5>2 DEF LastBefore
          <5>5. Max(StoresOf(c, a)) = Position(c, k)
            BY <5>3, <5>4, LastOfStores
          <5>6. Index(c) \in writers[a]
            <6>1. CASE pc[u] # "store_flag"
              <7>1. Made(u) = op[u]
                BY <4>6, <6>1 DEF Made, Ending, Busy, Tracking, Loading, Client!Rolling
              <7> QED
                BY <4>1, <4>2, <4>6, <5>3, <7>1 DEF OwnFlags
            <6>2. CASE pc[u] = "store_flag"
              <7>1. at[u] # a
                BY <4>6, <6>2 DEF Outstanding
              <7>2. k # op[u]
                BY <4>1, <4>2, <5>3, <6>2, <7>1 DEF OpOK, WritesAt
              <7>3. k <= op[u] - 1 /\ Made(u) = op[u] - 1
                BY <5>0, <5>3, <6>2, <7>2 DEF Made
              <7> QED
                BY <4>1, <4>2, <4>6, <5>3, <7>3 DEF OwnFlags
            <6> QED
              BY <6>1, <6>2
          <5>7. CASE sound[u]
            BY <2>1, <4>1, <4>2, <4>6, <5>2, <5>5, <5>6, <5>7 DEF OwnValues
          <5>8. CASE ~sound[u]
            BY <1>1, <4>1, <4>2, <4>6, <5>8 DEF SoundOK
          <5> QED
            BY <5>7, <5>8
        <4>7. pc[u] \in Fresh \cup Busy \cup Ending
          BY <4>1 DEF RunLabels, Fresh, Busy, Ending
        <4> QED
          BY <4>3, <4>4, <4>5, <4>6, <4>7
      <3> QED
        BY <1>3, <2>3, <3>0, <3>1, <3>2, SlotFacts
    <2> QED
      BY <1>0, <2>2, <2>3
  <1> QED
    BY <1>0, <1>4, <1>5


\* A read flag dooms its execution if the store of an earlier iteration is still to be
\* made.
LEMMA FlagDooms ==
  ASSUME RingInv, RingInv', Sane, NoDelay, NEW t \in Thread, Worker(t), UNCHANGED <<status, epoch>>,
         pc'[t] \in RunLabels \ Fresh, Executing(t),
         NEW a \in Addr, Index(epoch[t]) \in readers'[a],
         NEW u \in Thread, epoch[u] < epoch[t], Outstanding(u, a)
  PROVE  Doomed(epoch[t])'
  <1>0. epoch \in [Thread -> Nat]
    BY CursorFacts
  <1>1. u # t
    BY <1>0
  <1>2. UNCHANGED <<pc[u], epoch[u], at[u], op[u]>>
    BY <1>1, OthersStay
  <1>3. Outstanding(u, a)'
    BY <1>2 DEF Outstanding
  <1>4. PICK e \in Nat : e = epoch[t] /\ e = epoch'[t]
    BY <1>0
  <1>5. Exposed(e)'
    <2>1. (RingInv => RunnersExposed)'
      BY RunExposed, PTL
    <2>2. Executing(t)'
      BY DEF Executing
    <2> QED
      BY <1>4, <2>1, <2>2 DEF RunnersExposed
  <1>6. epoch'[u] < e /\ Index(e) \in readers'[a]
    BY <1>2, <1>4
  <1>7. Misses(u, e)'
    BY <1>3, <1>5, <1>6 DEF Misses
  <1>8. Doomed(e)'
    BY <1>6, <1>7 DEF Threat, Doomed
  <1> QED
    BY <1>4, <1>8

\* So a load whose read flag is set finds the store of an earlier iteration.
LEMMA LoadFinds ==
  ASSUME RingInv, RingInv', ResultInv, Sane, NEW t \in Thread, Worker(t),
         Load(t) \/ Tracker(t), pc[t] \in RunLabels, pc'[t] \in RunLabels \ Fresh, Executing(t),
         NEW a \in Addr, Index(epoch[t]) \in readers'[a],
         NEW c \in Nat, c < epoch[t], Writes(c, a)
  PROVE  \/ Doomed(epoch[t])'
         \/ lastCommit'[a] >= c
         \/ /\ Index(c) \in writers[a] /\ wbuf[a][Index(c)] = Max(StoresOf(c, a))
            /\ Index(c) \notin rollbackFlag
  <1>0. NoDelay /\ epoch[t] \in Nat /\ UNCHANGED <<status, epoch>>
    BY CursorFacts, TrackerFrame DEF ResultInv
  <1>1. PICK e \in Nat : e = epoch[t]
    BY <1>0
  <1>2. e < next /\ status[Index(e)] = "executing"
    BY <1>1, RunFacts DEF Executing
  <1>3. \/ Doomed(e)
        \/ \E u \in Thread : epoch[u] < e /\ Outstanding(u, a)
        \/ lastCommit[a] >= c
        \/ /\ Index(c) \in writers[a] /\ wbuf[a][Index(c)] = Max(StoresOf(c, a))
           /\ Index(c) \notin rollbackFlag
    BY <1>1, <1>2, EarlierStore
  <1>4. Doomed(e) => Doomed(epoch[t])'
    BY <1>1, OwnRuns
  <1>5. ASSUME NEW u \in Thread, epoch[u] < e, Outstanding(u, a)
        PROVE  Doomed(epoch[t])'
    BY <1>0, <1>1, <1>5, FlagDooms
  <1>6. lastCommit[a] >= c => lastCommit'[a] >= c
    BY LastCommitStays
  <1> QED
    BY <1>3, <1>4, <1>5, <1>6


\* The thread itself, at a load: the compare-and-swap of the read flag,
LEMMA LoadOwnOK ==
  ASSUME RingInv, RingInv', ResultInv, Sane, NEW t \in Thread, Worker(t), Load(t)
  PROVE  ThreadOK(t)'
  <1> DEFINE a == Operand(t)
             e == epoch[t]
  <1>0. /\ NoDelay /\ OpOK(t) /\ OwnFlags(t) /\ OwnValues(t) /\ SoundOK(t)
        /\ e \in Nat /\ Index(e) \in Slot
        /\ pc \in [Thread -> Client!Labels \cup TrackerLabels]
        /\ readers \in [Addr -> SUBSET Slot]
        /\ writers \in [Addr -> SUBSET Slot]
        /\ seen \in [Thread -> SUBSET Slot] /\ at \in [Thread -> Addr \cup {NoAddr}]
        /\ op \in [Thread -> 0 .. Width]
    BY CursorFacts, TypeFacts, IndexInSlot DEF ResultInv, ThreadOK
  <1>1. /\ op[t] \in Nat /\ op[t] + 1 \in 1 .. Len(Body(e)) /\ Len(Body(e)) \in Nat
        /\ Body(e)[op[t] + 1] = <<"load", a>> /\ a \in Addr
        /\ op' = [op EXCEPT ![t] = op[t] + 1] /\ UNCHANGED sound
    <2>1. TypeInv /\ Advance(t, "load")
      BY DEF Load, RingInv
    <2>2. Len(Body(e)) \in Nat
      BY <1>0, LoopType
    <2> QED
      BY <2>1, <2>2, AdvanceTypes
  <1>2. /\ pc[t] = "exec" /\ pc' = [pc EXCEPT ![t] = "load_mask"]
        /\ readers' = [readers EXCEPT ![a] = @ \cup {Index(e)}]
        /\ seen' = [seen EXCEPT ![t] = writers[a]]
        /\ at' = [at EXCEPT ![t] = a]
        /\ UNCHANGED <<writers, wbuf, first, epoch>>
    BY TrackerFrame DEF Load, LoadFlag, Goto
  <1> HIDE DEF a
  <1>3. /\ op'[t] = op[t] + 1 /\ pc'[t] = "load_mask" /\ at'[t] = a /\ epoch'[t] = e
        /\ seen'[t] = writers[a] /\ Index(e) \in readers'[a] /\ UNCHANGED sound[t]
        /\ UNCHANGED <<writers, wbuf, first>>
    BY <1>0, <1>1, <1>2
  <1> HIDE DEF e
  <1>4. \A b, k : ~(k = op[t] + 1 /\ WritesAt(e, b, k))
    BY <1>1 DEF WritesAt
  <1>5. pc[t] \in RunLabels /\ pc'[t] \in RunLabels \ Fresh
    BY <1>2, <1>3 DEF RunLabels, Tracking, Loading, Fresh, Client!Rolling
  <1>6. /\ Executing(t)' <=> Executing(t)
        /\ Executing(t) /\ Doomed(epoch[t]) => Doomed(epoch[t])'
    BY <1>5, OwnRuns
  <1>7. OpOK(t)'
    BY <1>1, <1>3 DEF OpOK, Busy, Tracking, Loading
  <1>8. OwnFlags(t)'
    <2> SUFFICES ASSUME NEW b \in Addr
                 PROVE  Index(e) \in writers[b] <=> \E k \in Nat : k <= op[t] + 1 /\ WritesAt(e, b, k)
      BY <1>3 DEF OwnFlags, Made, Ending
    <2>1. Index(e) \in writers[b] <=> \E k \in Nat : k <= op[t] /\ WritesAt(e, b, k)
      BY <1>0, <1>2 DEF OwnFlags, Made, Ending, Busy, e
    <2>2. \A k \in Nat : k <= op[t] + 1 => k <= op[t] \/ k = op[t] + 1
      BY <1>1
    <2>3. \A k \in Nat : k <= op[t] => k <= op[t] + 1
      BY <1>1
    <2> QED
      BY <1>4, <2>1, <2>2, <2>3
  <1>9. OwnValues(t)'
    <2> SUFFICES ASSUME sound[t], NEW b \in Addr, NEW k \in Nat, LastBefore(e, b, op[t] + 1 + 1, k)
                 PROVE  wbuf[b][Index(e)] = Position(e, k)
      BY <1>3 DEF OwnValues
    <2>1. k < op[t] + 1
      BY <1>1, <1>4 DEF LastBefore
    <2>2. LastBefore(e, b, op[t] + 1, k)
      BY <1>1, <2>1 DEF LastBefore
    <2> QED
      BY <1>0, <1>2, <2>2 DEF OwnValues, Busy, e
  <1>10. SoundOK(t)'
    BY <1>0, <1>2, <1>3, <1>6 DEF SoundOK, Ending, Busy
  <1>11. OwnEarlier(t)' <=> \E k \in Nat : k <= op[t] /\ WritesAt(e, a, k)
    <2>1. \A k \in Nat : k < op[t] + 1 <=> k <= op[t]
      BY <1>1
    <2> QED
      BY <1>3, <2>1 DEF OwnEarlier
  <1>12. SeenOK(t)'
    <2> SUFFICES ASSUME Executing(t)
                 PROVE  /\ \A c \in Nat : first <= c /\ c < e /\ Index(c) \in writers[a] => Writes(c, a)
                        /\ \A c \in Nat : c < e /\ Writes(c, a) => Index(c) \in writers[a] \/ Found(t, c)'
                        /\ Index(e) \in writers[a] <=> OwnEarlier(t)'
      BY <1>3, <1>6 DEF SeenOK
    <2>1. ASSUME NEW c \in Nat, first <= c, c < e, Index(c) \in writers[a]
          PROVE  Writes(c, a)
      <3>1. first \in Nat /\ EpochMax \in Nat /\ e < first + EpochMax
        BY <1>5, CursorFacts, RunFacts DEF e
      <3>2. c < first + EpochMax
        BY <1>0, <2>1, <3>1
      <3> QED
        BY <1>1, <2>1, <3>2 DEF ResultInv, FlagsInv
    <2>2. ASSUME NEW c \in Nat, c < e, Writes(c, a)
          PROVE  Index(c) \in writers[a] \/ Found(t, c)'
      <3>1. \/ Doomed(epoch[t])'
            \/ lastCommit'[a] >= c
            \/ Index(c) \in writers[a]
        BY <1>1, <1>3, <1>5, <2>2, LoadFinds DEF e
      <3> QED
        BY <1>3, <3>1 DEF Found
    <2>3. Index(e) \in writers[a] <=> OwnEarlier(t)'
      BY <1>0, <1>1, <1>2, <1>11 DEF OwnFlags, Made, Ending, Busy, e
    <2> QED
      BY <2>1, <2>2, <2>3
  <1>13. LoadOK(t)' /\ PublishOK(t)'
    BY <1>3, <1>12 DEF LoadOK, ReadsOK, PickOK, ReadOK, MemOK, PublishOK, Publishing
  <1> QED
    BY <1>7, <1>8, <1>9, <1>10, <1>13 DEF ThreadOK


\* the mask of the epochs that are rolled back,
LEMMA MaskOwnOK ==
  ASSUME RingInv, RingInv', ResultInv, Sane, NEW t \in Thread, Worker(t), LoadMask(t),
         UNCHANGED <<op, sound>>
  PROVE  ThreadOK(t)'
  <1> DEFINE e == epoch[t]
             a == at[t]
  <1>0. /\ SeenOK(t) /\ ReadsOK(t)
        /\ e \in Nat /\ pc \in [Thread -> Client!Labels \cup TrackerLabels]
        /\ seen \in [Thread -> SUBSET Slot] /\ epoch \in [Thread -> Nat]
    BY CursorFacts, TypeFacts DEF ResultInv, ThreadOK, LoadOK
  <1>1. /\ pc[t] = "load_mask" /\ pc'[t] = "load_first" /\ seen'[t] = seen[t] \ rollbackFlag
        /\ UNCHANGED <<op, sound, at, epoch, status, first, readers, writers, wbuf>>
    BY <1>0, TrackerFrame DEF LoadMask, Goto, Tracker, flags
  <1>2. a \in Addr
    BY <1>1, TypeFacts DEF TrackerLabels
  <1>3. OpOK(t)' /\ OwnFlags(t)' /\ OwnValues(t)' /\ SoundOK(t)' /\ PublishOK(t)'
    BY <1>1, LoadingOK DEF Loading, Tracker
  <1>4. Executing(t)' <=> Executing(t)
    BY <1>1 DEF Executing
  <1>5. Executing(t) => Index(e) \notin rollbackFlag
    <2> SUFFICES ASSUME Executing(t), Index(e) \in rollbackFlag PROVE FALSE
      OBVIOUS
    <2>1. PICK u \in Thread : pc[u] \in {"undo", "rollback_done"} /\ Index(epoch[u]) = Index(e)
      BY FlagFacts DEF Executing, RolledBack
    <2>2. Owns(t, Index(e)) /\ Owns(u, Index(e))
      BY <1>1, <2>1 DEF Owns, RunLabels, Tracking, Loading
    <2> QED
      BY <1>1, <2>1, <2>2, OneOwner
  <1>6. SeenOK(t)'
    <2> SUFFICES ASSUME Executing(t)
                 PROVE  /\ \A c \in Nat : first <= c /\ c < e /\ Index(c) \in seen'[t] => Writes(c, a)
                        /\ \A c \in Nat : c < e /\ Writes(c, a) => Index(c) \in seen'[t] \/ Found(t, c)'
                        /\ Index(e) \in seen'[t] <=> OwnEarlier(t)'
      BY <1>1, <1>4 DEF SeenOK, Writes, WritesAt
    <2>1. /\ \A c \in Nat : first <= c /\ c < e /\ Index(c) \in seen[t] => Writes(c, a)
          /\ \A c \in Nat : c < e /\ Writes(c, a) => Index(c) \in seen[t] \/ Found(t, c)
          /\ Index(e) \in seen[t] <=> OwnEarlier(t)
      BY <1>0, <1>1 DEF SeenOK
    <2>2. ASSUME NEW c \in Nat, c < e, Writes(c, a)
          PROVE  Index(c) \in seen'[t] \/ Found(t, c)'
      <3>1. pc[t] \in RunLabels /\ pc'[t] \in RunLabels \ Fresh
        BY <1>1 DEF RunLabels, Tracking, Loading, Fresh
      <3>2. Index(e) \in readers'[a]
        BY <1>0, <1>1 DEF ReadsOK, Loading
      <3>3. Doomed(epoch[t])' \/ lastCommit'[a] >= c \/ Index(c) \notin rollbackFlag
        BY <1>2, <2>2, <3>1, <3>2, LoadFinds DEF Tracker
      <3>4. Found(t, c) => Found(t, c)'
        BY <1>1, <1>2, <3>1, OwnRuns DEF Tracker
      <3> QED
        BY <1>1, <2>1, <2>2, <3>3, <3>4 DEF Found
    <2>3. OwnEarlier(t)' <=> OwnEarlier(t)
      BY <1>1 DEF OwnEarlier, WritesAt
    <2> QED
      BY <1>1, <1>5, <2>1, <2>2, <2>3
  <1>7. LoadOK(t)'
    <2>1. ReadsOK(t)'
      BY <1>0, <1>1, <1>4 DEF ReadsOK, Loading
    <2> QED
      BY <1>1, <1>6, <2>1 DEF LoadOK, PickOK, ReadOK, MemOK
  <1> QED
    BY <1>3, <1>7 DEF ThreadOK

\* the choice of the latest write,
LEMMA FirstOwnOK ==
  ASSUME RingInv, RingInv', ResultInv, Sane, NEW t \in Thread, Worker(t), LoadFirst(t),
         UNCHANGED <<op, sound>>
  PROVE  ThreadOK(t)'
  <1> DEFINE e == epoch[t]
             a == at[t]
             wrote == Flagged(t, first .. e)
  <1>0. /\ SeenOK(t) /\ ReadsOK(t)
        /\ e \in Nat /\ first \in Nat /\ first <= e
        /\ pc \in [Thread -> Client!Labels \cup TrackerLabels]
        /\ pick \in [Thread -> Int] /\ epoch \in [Thread -> Nat]
    <2>1. pc[t] \in RunLabels
      BY DEF LoadFirst, Goto, RunLabels, Tracking, Loading
    <2> QED
      BY <2>1, CursorFacts, TypeFacts, RunFacts DEF ResultInv, ThreadOK, LoadOK
  <1>1. /\ pc[t] = "load_first" /\ pc'[t] = IF wrote = {} THEN "load_mem" ELSE "load_buf"
        /\ pick'[t] = IF wrote = {} THEN -1 ELSE Latest(wrote)
        /\ UNCHANGED <<op, sound, at, epoch, status, first, readers, writers, wbuf>>
    BY <1>0, TrackerFrame DEF LoadFirst, Goto, Tracker, flags
  <1>2. a \in Addr
    BY <1>1, TypeFacts DEF TrackerLabels
  <1>3. OpOK(t)' /\ OwnFlags(t)' /\ OwnValues(t)' /\ SoundOK(t)' /\ PublishOK(t)'
    BY <1>1, LoadingOK DEF Loading, Tracker
  <1>4. Executing(t)' <=> Executing(t)
    BY <1>1 DEF Executing
  <1>5. /\ wrote \subseteq Nat
        /\ wrote # {} => Latest(wrote) \in wrote /\ \A c \in wrote : c <= Latest(wrote)
    BY <1>0, FlaggedType
  <1>6. \A c \in Nat : c \in wrote <=> first <= c /\ c <= e /\ Index(c) \in seen[t]
    BY <1>0 DEF Flagged
  <1> HIDE DEF wrote
  <1>7. OwnEarlier(t)' <=> OwnEarlier(t)
    BY <1>1 DEF OwnEarlier, WritesAt
  <1>8. ASSUME Executing(t), NEW c \in Nat, Found(t, c)
        PROVE  Found(t, c)'
    <2>1. pc[t] \in RunLabels /\ pc'[t] \in RunLabels
      BY <1>1 DEF RunLabels, Tracking, Loading
    <2> QED
      BY <1>1, <1>2, <1>8, <2>1, OwnRuns DEF Tracker
  <1>9. ASSUME Executing(t), NEW c \in Nat, c < e, Writes(c, a)
        PROVE  c \in wrote \/ Found(t, c)'
    <2>1. CASE c < first
      <3>1. lastCommit[a] >= c
        <4>1. c < nextCommit
          BY <2>1, CursorFacts
        <4> QED
          BY <1>2, <1>9, <2>1, <4>1 DEF ResultInv, PastInv
      <3> QED
        BY <1>8, <1>9, <3>1 DEF Found
    <2>2. CASE first <= c
      <3>1. Index(c) \in seen[t] \/ Found(t, c)
        BY <1>0, <1>1, <1>9 DEF SeenOK
      <3>2. Index(c) \in seen[t] => c \in wrote
        BY <1>0, <1>6, <1>9, <2>2
      <3> QED
        BY <1>8, <1>9, <3>1, <3>2
    <2> QED
      BY <1>0, <2>1, <2>2
  <1>10. Executing(t) => (e \in wrote <=> OwnEarlier(t))
    BY <1>0, <1>1, <1>6 DEF SeenOK
  <1>11. PickOK(t)'
    <2> SUFFICES ASSUME Executing(t), wrote # {}
                 PROVE  /\ OwnEarlier(t) <=> pick'[t] = e
                        /\ pick'[t] # e =>
                             /\ pick'[t] < e /\ Writes(pick'[t], a)
                             /\ \A c \in Nat : pick'[t] < c /\ c < e /\ Writes(c, a) => Found(t, c)'
      BY <1>1, <1>4, <1>7 DEF PickOK, Writes, WritesAt
    <2>1. PICK p \in wrote : p = pick'[t] /\ \A c \in wrote : c <= p
      BY <1>1, <1>5
    <2>2. p \in Nat /\ first <= p /\ p <= e /\ Index(p) \in seen[t]
      BY <1>5, <1>6, <2>1
    <2>3. OwnEarlier(t) <=> p = e
      <3>1. e \in wrote => p = e
        BY <1>0, <2>1, <2>2
      <3> QED
        BY <1>10, <2>1, <3>1
    <2>4. ASSUME p # e
          PROVE  p < e /\ Writes(p, a)
      BY <1>0, <1>1, <2>2, <2>4 DEF SeenOK
    <2>5. ASSUME NEW c \in Nat, p < c, c < e, Writes(c, a)
          PROVE  Found(t, c)'
      <3>1. c \notin wrote
        BY <2>1, <2>2, <2>5
      <3> QED
        BY <1>9, <2>5, <3>1
    <2> QED
      BY <2>1, <2>3, <2>4, <2>5
  <1>12. MemOK(t)'
    <2> SUFFICES ASSUME Executing(t), wrote = {}
                 PROVE  /\ ~OwnEarlier(t)
                        /\ \A c \in Nat : c < e /\ Writes(c, a) => Found(t, c)'
      BY <1>1, <1>4, <1>7 DEF MemOK, Writes, WritesAt
    <2> QED
      BY <1>9, <1>10
  <1>13. LoadOK(t)'
    <2>1. ReadsOK(t)'
      BY <1>0, <1>1, <1>4 DEF ReadsOK, Loading
    <2> QED
      BY <1>1, <1>11, <1>12, <2>1 DEF LoadOK, SeenOK, ReadOK
  <1> QED
    BY <1>3, <1>13 DEF ThreadOK


\* the read of the buffer,
LEMMA BufOwnOK ==
  ASSUME RingInv, RingInv', ResultInv, Sane, NEW t \in Thread, Worker(t), LoadBuf(t),
         UNCHANGED <<op, sound>>
  PROVE  ThreadOK(t)'
  <1> DEFINE e == epoch[t]
             a == at[t]
             p == pick[t]
  <1>0. /\ PickOK(t) /\ ReadsOK(t)
        /\ e \in Nat /\ epoch \in [Thread -> Nat]
        /\ pc \in [Thread -> Client!Labels \cup TrackerLabels]
        /\ value \in [Thread -> Value]
    BY CursorFacts, TypeFacts DEF ResultInv, ThreadOK, LoadOK
  <1>1. /\ pc[t] = "load_buf" /\ pc'[t] = "load_check" /\ value'[t] = wbuf[a][Index(p)]
        /\ UNCHANGED <<op, sound, at, pick, epoch, status, readers, writers, wbuf>>
    BY <1>0, TrackerFrame DEF LoadBuf, Goto, Tracker, flags
  <1>2. a \in Addr /\ p \in Nat
    BY <1>1, TypeFacts DEF TrackerLabels
  <1>3. OpOK(t)' /\ OwnFlags(t)' /\ OwnValues(t)' /\ SoundOK(t)' /\ PublishOK(t)'
    BY <1>1, LoadingOK DEF Loading, Tracker
  <1>4. Executing(t)' <=> Executing(t)
    BY <1>1 DEF Executing
  <1>5. pc[t] \in RunLabels /\ pc'[t] \in RunLabels \ Fresh
    BY <1>1 DEF RunLabels, Tracking, Loading, Fresh
  <1>6. \A c \in Nat : Executing(t) /\ Found(t, c) => Found(t, c)'
    BY <1>1, <1>2, <1>5, OwnRuns DEF Tracker
  <1>7. OwnEarlier(t)' <=> OwnEarlier(t)
    BY <1>1 DEF OwnEarlier, WritesAt
  <1>8. PickOK(t)'
    <2> SUFFICES ASSUME Executing(t)
                 PROVE  /\ OwnEarlier(t) <=> p = e
                        /\ p # e =>
                             /\ p < e /\ Writes(p, a)
                             /\ \A c \in Nat : p < c /\ c < e /\ Writes(c, a) => Found(t, c)'
      BY <1>1, <1>4, <1>7 DEF PickOK, Writes, WritesAt
    <2> QED
      BY <1>0, <1>1, <1>6 DEF PickOK
  <1>9. ReadOK(t)'
    <2> SUFFICES ASSUME Executing(t), p # e
                 PROVE  wbuf[a][Index(p)] = Max(StoresOf(p, a)) \/ Found(t, p)'
      BY <1>1, <1>4 DEF ReadOK, StoresOf, Position, Index
    <2>1. p < e /\ Writes(p, a)
      BY <1>0, <1>1 DEF PickOK
    <2>2. Index(e) \in readers'[a]
      BY <1>0, <1>1 DEF ReadsOK, Loading
    <2>3. \/ Doomed(epoch[t])' \/ lastCommit'[a] >= p
          \/ wbuf[a][Index(p)] = Max(StoresOf(p, a))
      BY <1>2, <1>5, <2>1, <2>2, LoadFinds DEF Tracker
    <2> QED
      BY <1>1, <2>3 DEF Found
  <1>10. LoadOK(t)'
    <2>1. ReadsOK(t)'
      BY <1>0, <1>1, <1>4 DEF ReadsOK, Loading
    <2> QED
      BY <1>1, <1>8, <1>9, <2>1 DEF LoadOK, SeenOK, MemOK
  <1> QED
    BY <1>3, <1>10 DEF ThreadOK

\* The buffered value is right, or the execution is doomed.
LEMMA BufferedRight ==
  ASSUME RingInv, ResultInv, NEW t \in Thread, pc[t] = "load_check", Executing(t), sound[t],
         pick[t] > lastCommit[at[t]]
  PROVE  value[t] = ValueAt(at[t], epoch[t], op[t]) \/ Doomed(epoch[t])
  <1> DEFINE e == epoch[t]
             a == at[t]
             p == pick[t]
  <1>1. /\ PickOK(t) /\ ReadOK(t) /\ OpOK(t) /\ OwnValues(t)
        /\ e \in Nat /\ a \in Addr /\ p \in Nat /\ lastCommit[a] \in Int
    BY CursorFacts, TypeFacts DEF ResultInv, ThreadOK, LoadOK, TrackerLabels
  <1>2. op[t] \in Nat /\ 1 <= op[t]
    <2>1. op[t] \in 1 .. Len(Body(e)) /\ Len(Body(e)) \in Nat
      BY <1>1, LoopType DEF OpOK, Loading
    <2> QED
      BY <2>1
  <1>3. SUFFICES ASSUME ~Doomed(e) PROVE value[t] = ValueAt(a, e, op[t])
    OBVIOUS
  <1>4. \A c \in Nat : p <= c => ~Found(t, c)
    BY <1>1, <1>3 DEF Found
  <1>5. CASE p = e
    <2>1. PICK k \in Nat : LastBefore(e, a, op[t], k)
      <3>1. \E k \in Nat : k < op[t] /\ WritesAt(e, a, k)
        BY <1>1, <1>5 DEF PickOK, OwnEarlier
      <3> QED
        BY <1>1, <1>2, <3>1, HasLast
    <2>2. ValueAt(a, e, op[t]) = Position(e, k)
      BY <1>1, <1>2, <2>1, OwnValue
    <2>3. Body(e)[op[t]] = <<"load", a>>
      BY <1>1 DEF OpOK, Loading
    <2>4. LastBefore(e, a, op[t] + 1, k)
      <3>1. \A l \in Nat : WritesAt(e, a, l) => l # op[t]
        BY <2>3 DEF WritesAt
      <3> QED
        BY <1>2, <2>1, <3>1 DEF LastBefore
    <2>5. wbuf[a][Index(e)] = Position(e, k)
      BY <1>1, <2>4 DEF OwnValues, Busy, Tracking, Loading
    <2> QED
      BY <1>1, <1>5, <2>2, <2>5 DEF ReadOK
  <1>6. CASE p # e
    <2>1. /\ p < e /\ Writes(p, a)
          /\ \A c \in Nat : p < c /\ c < e => ~Writes(c, a)
          /\ ~OwnEarlier(t)
      <3>1. /\ p < e /\ Writes(p, a) /\ ~OwnEarlier(t)
            /\ \A c \in Nat : p < c /\ c < e /\ Writes(c, a) => Found(t, c)
        BY <1>1, <1>6 DEF PickOK
      <3>2. \A c \in Nat : p < c => p <= c
        BY <1>1
      <3> QED
        BY <1>4, <3>1, <3>2
    <2>2. value[t] = Max(StoresOf(p, a))
      BY <1>1, <1>4, <1>6 DEF ReadOK
    <2>3. \A k \in Nat : k < op[t] => ~WritesAt(e, a, k)
      BY <2>1 DEF OwnEarlier
    <2>4. ValueAt(a, e, op[t]) = Max(StoresOf(p, a))
      BY <1>1, <1>2, <2>1, <2>3, EarlierValue
    <2> QED
      BY <2>2, <2>4
  <1> QED
    BY <1>5, <1>6

\* So is the one in memory.
LEMMA MemoryRight ==
  ASSUME RingInv, ResultInv, NEW t \in Thread, pc[t] = "load_mem", Executing(t)
  PROVE  mem[at[t]] = ValueAt(at[t], epoch[t], op[t]) \/ Doomed(epoch[t])
  <1> DEFINE e == epoch[t]
             a == at[t]
             l == lastCommit[a]
  <1>1. /\ MemOK(t) /\ OpOK(t)
        /\ e \in Nat /\ a \in Addr /\ l \in Int
    BY CursorFacts, TypeFacts DEF ResultInv, ThreadOK, LoadOK, TrackerLabels
  <1>2. op[t] \in Nat /\ 1 <= op[t]
    <2>1. op[t] \in 1 .. Len(Body(e)) /\ Len(Body(e)) \in Nat
      BY <1>1, LoopType DEF OpOK, Loading
    <2> QED
      BY <2>1
  <1>3. SUFFICES ASSUME ~Doomed(e) PROVE mem[a] = ValueAt(a, e, op[t])
    OBVIOUS
  <1>4. /\ \A k \in Nat : k < op[t] => ~WritesAt(e, a, k)
        /\ \A c \in Nat : c < e /\ Writes(c, a) => l >= c
    BY <1>1, <1>3 DEF MemOK, OwnEarlier, Found
  <1>5. nextCommit \in Nat /\ nextCommit <= e
    <2>1. pc[t] \in RunLabels
      BY DEF RunLabels, Tracking, Loading
    <2> QED
      BY <2>1, CursorFacts, RunFacts
  <1>6. ASSUME NEW u \in Thread, pc[u] = "publish_last", at[u] = a
        PROVE  FALSE
    <2>1. l < cur[u] /\ Writes(cur[u], a)
      BY <1>6 DEF ResultInv, ThreadOK, PublishOK
    <2>2. cur[u] \in Nat /\ cur[u] < nextCommit
      BY <1>6, CursorFacts, CommitFacts DEF CommitLabels, Publishing
    <2>3. cur[u] < e
      BY <1>1, <1>5, <2>2
    <2>4. l >= cur[u]
      BY <1>4, <2>1, <2>2, <2>3
    <2> QED
      BY <1>1, <2>1, <2>2, <2>4
  <1>7. /\ l # -1 => l \in Nat /\ l < nextCommit /\ Writes(l, a)
        /\ mem[a] = IF l = -1 THEN Initial ELSE Max(StoresOf(l, a))
    BY <1>1, <1>6 DEF ResultInv, MemoryInv
  <1>8. CASE l = -1
    <2>1. \A c \in Nat : c < e => ~Writes(c, a)
      BY <1>4, <1>8
    <2> QED
      BY <1>1, <1>2, <1>4, <1>7, <1>8, <2>1, InitialValue
  <1>9. CASE l # -1
    <2>1. l \in Nat /\ l < e /\ Writes(l, a)
      BY <1>1, <1>5, <1>7, <1>9
    <2>2. \A c \in Nat : l < c /\ c < e => ~Writes(c, a)
      BY <1>4, <2>1
    <2>3. ValueAt(a, e, op[t]) = Max(StoresOf(l, a))
      BY <1>1, <1>2, <1>4, <2>1, <2>2, EarlierValue
    <2> QED
      BY <1>7, <1>9, <2>3
  <1> QED
    BY <1>8, <1>9


\* and the end of a load, with the value of the buffer or of memory.
LEMMA EndOwnOK ==
  ASSUME RingInv, RingInv', ResultInv, Sane, NEW t \in Thread, Worker(t), LoadEnd(t)
  PROVE  ThreadOK(t)'
  <1> DEFINE e == epoch[t]
             a == at[t]
             p == pick[t]
  <1>0. /\ PickOK(t) /\ ReadsOK(t)
        /\ e \in Nat /\ epoch \in [Thread -> Nat]
        /\ pc \in [Thread -> Client!Labels \cup TrackerLabels]
        /\ value \in [Thread -> Value] /\ sound \in [Thread -> BOOLEAN]
    BY CursorFacts, TypeFacts DEF ResultInv, ThreadOK, LoadOK
  <1>1. /\ UNCHANGED <<op, epoch, status, readers, writers, wbuf>>
        /\ pc[t] \in {"load_check", "load_mem"} /\ pc'[t] \in {"exec", "load_mem"}
        /\ sound'[t] = (sound[t] /\ (pc'[t] = "exec" => value'[t] = ValueAt(a, e, op[t])))
    BY <1>0, TrackerFrame DEF LoadEnd, LoadCheck, LoadMem, Goto, flags
  <1>2. \/ /\ pc[t] = "load_check" /\ pc'[t] = "exec" /\ p > lastCommit[a] /\ value'[t] = value[t]
        \/ /\ pc[t] = "load_check" /\ pc'[t] = "load_mem" /\ p <= lastCommit[a] /\ at'[t] = at[t]
        \/ /\ pc[t] = "load_mem" /\ pc'[t] = "exec" /\ value'[t] = mem[a]
    <2>1. CASE LoadCheck(t)
      BY <1>0, <2>1 DEF LoadCheck, Goto
    <2>2. CASE LoadMem(t)
      BY <1>0, <2>2 DEF LoadMem, Goto
    <2> QED
      BY <2>1, <2>2 DEF LoadEnd
  <1>3. a \in Addr
    BY <1>1, TypeFacts DEF TrackerLabels
  <1>4. Executing(t) /\ sound[t] /\ ~sound'[t] => Doomed(e)
    BY <1>1, <1>2, BufferedRight, MemoryRight
  <1>5. OpOK(t)' /\ OwnFlags(t)' /\ OwnValues(t)' /\ SoundOK(t)' /\ PublishOK(t)'
    <2>1. /\ pc[t] \in Loading /\ pc'[t] \in Loading \cup {"exec"}
          /\ pc'[t] \in Loading => at'[t] = at[t]
      BY <1>1, <1>2 DEF Loading
    <2>2. sound'[t] => sound[t]
      BY <1>1
    <2> QED
      BY <1>1, <1>4, <2>1, <2>2, LoadingOK
  <1>6. CASE pc'[t] = "exec"
    <2>1. LoadOK(t)'
      BY <1>6 DEF LoadOK, ReadsOK, SeenOK, PickOK, ReadOK, MemOK, Loading
    <2> QED
      BY <1>5, <2>1 DEF ThreadOK
  <1>7. CASE pc'[t] = "load_mem"
    <2>1. /\ pc[t] = "load_check" /\ p <= lastCommit[a] /\ at'[t] = at[t]
          /\ p \in Nat /\ lastCommit[a] \in Int
      BY <1>2, <1>3, <1>7, TypeFacts
    <2>2. Executing(t)' <=> Executing(t)
      BY <1>1 DEF Executing
    <2>3. pc[t] \in RunLabels /\ pc'[t] \in RunLabels
      BY <1>1 DEF RunLabels, Tracking, Loading
    <2>4. p # e
      <3>1. lastCommit[a] < nextCommit /\ nextCommit \in Nat /\ nextCommit <= e
        <4>1. lastCommit[a] # -1
          BY <2>1
        <4> QED
          BY <1>3, <2>3, <4>1, CursorFacts, RunFacts DEF ResultInv, MemoryInv
      <3> QED
        BY <1>0, <2>1, <3>1
    <2>5. OwnEarlier(t)' <=> OwnEarlier(t)
      BY <1>1, <2>1 DEF OwnEarlier, WritesAt
    <2>6. MemOK(t)'
      <3> SUFFICES ASSUME Executing(t)
                   PROVE  /\ ~OwnEarlier(t)
                          /\ \A c \in Nat : c < e /\ Writes(c, a) => Found(t, c)'
        BY <1>1, <2>1, <2>2, <2>5 DEF MemOK, Writes, WritesAt
      <3>1. /\ ~OwnEarlier(t)
            /\ \A c \in Nat : p < c /\ c < e /\ Writes(c, a) => Found(t, c)
        BY <1>0, <2>1, <2>4 DEF PickOK
      <3>2. \A c \in Nat : Found(t, c) => Found(t, c)'
        BY <1>3, <2>1, <2>3, OwnRuns
      <3>3. \A c \in Nat : c <= p => Found(t, c)
        BY <2>1 DEF Found
      <3>4. \A c \in Nat : c <= p \/ p < c
        BY <2>1
      <3> QED
        BY <3>1, <3>2, <3>3, <3>4
    <2>7. ReadsOK(t)'
      BY <1>0, <1>1, <2>1, <2>2 DEF ReadsOK, Loading
    <2>8. LoadOK(t)'
      BY <1>7, <2>6, <2>7 DEF LoadOK, SeenOK, PickOK, ReadOK
    <2> QED
      BY <1>5, <2>8 DEF ThreadOK
  <1> QED
    BY <1>1, <1>6, <1>7


\* A store: the write to the buffer,
LEMMA StoreOwnOK ==
  ASSUME RingInv, RingInv', ResultInv, Sane, NEW t \in Thread, Worker(t), Store(t)
  PROVE  ThreadOK(t)'
  <1> DEFINE a == Operand(t)
             e == epoch[t]
             v == IF sound[t] THEN Position(e, op[t] + 1) ELSE Garbage
  <1>0. /\ NoDelay /\ OpOK(t) /\ OwnFlags(t) /\ OwnValues(t) /\ SoundOK(t)
        /\ e \in Nat /\ Index(e) \in Slot
        /\ pc \in [Thread -> Client!Labels \cup TrackerLabels]
        /\ wbuf \in [Addr -> [Slot -> Value]]
        /\ at \in [Thread -> Addr \cup {NoAddr}]
        /\ op \in [Thread -> 0 .. Width]
    BY CursorFacts, TypeFacts, IndexInSlot DEF ResultInv, ThreadOK
  <1>1. /\ op[t] \in Nat /\ op[t] + 1 \in 1 .. Len(Body(e)) /\ Len(Body(e)) \in Nat
        /\ Body(e)[op[t] + 1] = <<"store", a>> /\ a \in Addr
        /\ op' = [op EXCEPT ![t] = op[t] + 1] /\ UNCHANGED sound
    <2>1. TypeInv /\ Advance(t, "store")
      BY DEF Store, RingInv
    <2>2. Len(Body(e)) \in Nat
      BY <1>0, LoopType
    <2> QED
      BY <2>1, <2>2, AdvanceTypes
  <1>2. /\ pc[t] = "exec" /\ pc' = [pc EXCEPT ![t] = "store_flag"]
        /\ wbuf' = [wbuf EXCEPT ![a][Index(e)] = v]
        /\ at' = [at EXCEPT ![t] = a]
        /\ UNCHANGED <<writers, epoch>>
    BY TrackerFrame DEF Store, StoreBuf, Goto, Sane, flags
  <1> HIDE DEF a
  <1>3. /\ op'[t] = op[t] + 1 /\ pc'[t] = "store_flag" /\ at'[t] = a /\ epoch'[t] = e
        /\ UNCHANGED <<sound[t], writers>>
        /\ wbuf'[a][Index(e)] = v
        /\ \A b \in Addr : b # a => wbuf'[b][Index(e)] = wbuf[b][Index(e)]
    BY <1>0, <1>1, <1>2
  <1> HIDE DEF e
  <1>4. /\ WritesAt(e, a, op[t] + 1)
        /\ \A b, k : k = op[t] + 1 /\ WritesAt(e, b, k) => b = a
    BY <1>1 DEF WritesAt
  <1>5. pc[t] \in RunLabels /\ pc'[t] \in RunLabels
    BY <1>2, <1>3 DEF RunLabels, Tracking
  <1>6. /\ Executing(t)' <=> Executing(t)
        /\ Executing(t) /\ Doomed(epoch[t]) => Doomed(epoch[t])'
    BY <1>5, OwnRuns
  <1>7. OpOK(t)'
    BY <1>3, <1>4 DEF OpOK, Busy, Tracking, Loading
  <1>8. OwnFlags(t)'
    <2>1. Made(t)' = Made(t)
      BY <1>1, <1>2, <1>3 DEF Made, Ending
    <2>2. pc[t] \in Busy
      BY <1>2 DEF Busy
    <2> QED
      BY <1>0, <1>3, <2>1, <2>2 DEF OwnFlags, e
  <1>9. OwnValues(t)'
    <2> SUFFICES ASSUME sound[t], NEW b \in Addr, NEW k \in Nat, LastBefore(e, b, op[t] + 1 + 1, k)
                 PROVE  wbuf'[b][Index(e)] = Position(e, k)
      BY <1>3 DEF OwnValues
    <2>1. CASE b = a
      <3>1. k = op[t] + 1
        BY <1>1, <1>4, <2>1 DEF LastBefore
      <3> QED
        BY <1>3, <2>1, <3>1
    <2>2. CASE b # a
      <3>1. k < op[t] + 1
        BY <1>1, <1>4, <2>2 DEF LastBefore
      <3>2. LastBefore(e, b, op[t] + 1, k)
        BY <1>1, <3>1 DEF LastBefore
      <3> QED
        BY <1>0, <1>2, <1>3, <2>2, <3>2 DEF OwnValues, Busy, e
    <2> QED
      BY <2>1, <2>2
  <1>10. SoundOK(t)'
    BY <1>0, <1>2, <1>3, <1>6 DEF SoundOK, Ending, Busy
  <1>11. LoadOK(t)' /\ PublishOK(t)'
    BY <1>3 DEF LoadOK, ReadsOK, SeenOK, PickOK, ReadOK, MemOK, PublishOK, Publishing, Loading
  <1> QED
    BY <1>7, <1>8, <1>9, <1>10, <1>11 DEF ThreadOK

\* and the compare-and-swap of the write flag.
LEMMA FlagOwnOK ==
  ASSUME RingInv, RingInv', ResultInv, Sane, NEW t \in Thread, Worker(t), StoreFlag(t),
         UNCHANGED <<op, sound>>
  PROVE  ThreadOK(t)'
  <1> DEFINE a == at[t]
             e == epoch[t]
  <1>0. /\ NoDelay /\ OpOK(t) /\ OwnFlags(t) /\ OwnValues(t) /\ SoundOK(t)
        /\ e \in Nat /\ Index(e) \in Slot
        /\ pc \in [Thread -> Client!Labels \cup TrackerLabels]
        /\ writers \in [Addr -> SUBSET Slot]
        /\ op \in [Thread -> 0 .. Width] /\ Width \in Nat
    <2>1. Width \in Nat
      BY LoopType
    <2> QED
      BY <2>1, CursorFacts, TypeFacts, IndexInSlot DEF ResultInv, ThreadOK
  <1>1. /\ pc[t] = "store_flag" /\ pc'[t] = "violation_last"
        /\ writers' = [writers EXCEPT ![a] = @ \cup {Index(e)}]
        /\ UNCHANGED <<wbuf, epoch, op, sound>>
    BY <1>0, TrackerFrame DEF StoreFlag, Goto, Tracker
  <1>2. a \in Addr /\ op[t] \in Nat
    BY <1>0, <1>1, TypeFacts DEF TrackerLabels
  <1>3. pc[t] \in RunLabels /\ pc'[t] \in RunLabels
    BY <1>1 DEF RunLabels, Tracking
  <1>4. /\ Executing(t)' <=> Executing(t)
        /\ Executing(t) /\ Doomed(epoch[t]) => Doomed(epoch[t])'
    BY <1>3, OwnRuns DEF Tracker
  <1>5. OpOK(t)'
    BY <1>1 DEF OpOK, Busy, Tracking, Loading
  <1>6. OwnFlags(t)'
    <2> SUFFICES ASSUME NEW b \in Addr
                 PROVE  Index(e) \in writers'[b] <=> \E k \in Nat : k <= op[t] /\ WritesAt(e, b, k)
      BY <1>1 DEF OwnFlags, Made, Ending
    <2>1. Index(e) \in writers[b] <=> \E k \in Nat : k <= op[t] - 1 /\ WritesAt(e, b, k)
      BY <1>0, <1>1 DEF OwnFlags, Made, Ending, Busy, Tracking
    <2>2. WritesAt(e, a, op[t])
      BY <1>0, <1>1 DEF OpOK
    <2>3. b # a => ~WritesAt(e, b, op[t])
      BY <2>2 DEF WritesAt
    <2>4. Index(e) \in writers'[b] <=> b = a \/ Index(e) \in writers[b]
      BY <1>0, <1>1, <1>2
    <2>5. \A k \in Nat : k <= op[t] <=> k <= op[t] - 1 \/ k = op[t]
      BY <1>2
    <2> QED
      BY <1>2, <2>1, <2>2, <2>3, <2>4, <2>5
  <1>7. OwnValues(t)'
    BY <1>0, <1>1 DEF OwnValues, Busy, Tracking
  <1>8. SoundOK(t)'
    BY <1>0, <1>1, <1>4 DEF SoundOK, Ending, Busy, Tracking
  <1>9. LoadOK(t)' /\ PublishOK(t)'
    BY <1>1 DEF LoadOK, ReadsOK, SeenOK, PickOK, ReadOK, MemOK, PublishOK, Publishing, Loading
  <1> QED
    BY <1>5, <1>6, <1>7, <1>8, <1>9 DEF ThreadOK

\* The end of the iteration.
LEMMA ReturnOwnOK ==
  ASSUME RingInv, RingInv', ResultInv, Sane, NEW t \in Thread, Worker(t), Return(t)
  PROVE  ThreadOK(t)'
  <1> DEFINE e == epoch[t]
  <1>0. /\ NoDelay /\ OpOK(t) /\ OwnFlags(t) /\ OwnValues(t) /\ SoundOK(t)
        /\ e \in Nat /\ Len(Body(e)) \in Nat
        /\ pc \in [Thread -> Client!Labels \cup TrackerLabels]
        /\ op \in [Thread -> 0 .. Width] /\ sound \in [Thread -> BOOLEAN]
    <2>1. e \in Nat /\ pc \in [Thread -> Client!Labels \cup TrackerLabels]
      BY CursorFacts
    <2>2. Len(Body(e)) \in Nat
      BY <2>1, LoopType
    <2> QED
      BY <2>1, <2>2, TypeFacts DEF ResultInv, ThreadOK
  <1>1. /\ pc[t] = "exec" /\ pc'[t] \in Ending
        /\ op[t] = Len(Body(e)) /\ op'[t] = 0 /\ sound'[t] = TRUE
        /\ UNCHANGED <<writers, wbuf, epoch>>
    BY <1>0, TrackerFrame DEF Return, Goto, Ending, depVars, flags
  <1>2. pc[t] \in RunLabels /\ pc'[t] \in RunLabels /\ pc'[t] \notin Busy
    BY <1>1 DEF RunLabels, Ending, Busy, Tracking, Loading, Client!Rolling
  <1>3. /\ Executing(t)' <=> Executing(t)
        /\ Executing(t) /\ Doomed(epoch[t]) => Doomed(epoch[t])'
    BY <1>2, OwnRuns
  <1>4. OpOK(t)'
    BY <1>1, <1>2 DEF OpOK, Ending, Loading
  <1>5. OwnFlags(t)'
    <2>1. Made(t)' = Made(t)
      BY <1>1 DEF Made, Ending
    <2> QED
      BY <1>0, <1>1, <2>1 DEF OwnFlags, Busy
  <1>6. SoundOK(t)'
    <2> SUFFICES ASSUME Executing(t) PROVE Buffered(e)' \/ Doomed(epoch[t])'
      BY <1>1, <1>2, <1>3 DEF SoundOK
    <2>1. CASE ~sound[t]
      BY <1>0, <1>1, <1>3, <2>1 DEF SoundOK, Busy
    <2>2. CASE sound[t]
      <3>1. ASSUME NEW a \in Addr, Writes(e, a)
            PROVE  wbuf[a][Index(e)] = Max(StoresOf(e, a))
        <4>1. \A k \in Nat : WritesAt(e, a, k) => k < op[t] + 1
          BY <1>0, <1>1 DEF WritesAt
        <4>2. PICK k \in Nat : LastBefore(e, a, op[t] + 1, k)
          <5>1. \E k \in Nat : k < op[t] + 1 /\ WritesAt(e, a, k)
            BY <3>1, <4>1 DEF Writes
          <5>2. op[t] + 1 \in Nat
            BY <1>0, <1>1
          <5> QED
            BY <1>0, <5>1, <5>2, HasLast
        <4>3. WritesAt(e, a, k) /\ \A l \in Nat : WritesAt(e, a, l) => l <= k
          BY <4>1, <4>2 DEF LastBefore
        <4>4. Max(StoresOf(e, a)) = Position(e, k)
          BY <1>0, <4>3, LastOfStores
        <4> QED
          BY <1>0, <1>1, <2>2, <4>2, <4>4 DEF OwnValues, Busy
      <3>2. Buffered(e)
        BY <3>1 DEF Buffered
      <3>3. Buffered(e)'
        BY <1>1, <3>2 DEF Buffered, Index, Writes, WritesAt, StoresOf, Position
      <3> QED
        BY <3>3
    <2> QED
      BY <1>0, <2>1, <2>2
  <1>7. OwnValues(t)' /\ LoadOK(t)' /\ PublishOK(t)'
    BY <1>1, <1>2 DEF OwnValues, LoadOK, ReadsOK, SeenOK, PickOK, ReadOK, MemOK, PublishOK, Publishing,
       Loading, Ending
  <1> QED
    BY <1>4, <1>5, <1>6, <1>7 DEF ThreadOK


\* The slot of an execution that is about to start has no flag.
LEMMA Untouched ==
  ASSUME RingInv, ListsInv, NEW t \in Thread,
         \/ pc[t] = "next_mark" /\ status[Index(epoch[t])] = "commit"
         \/ pc[t] = "rollback_done",
         NEW a \in Addr
  PROVE  Index(epoch[t]) \notin readers[a] \cup writers[a]
  <1> DEFINE j == Index(epoch[t])
  <1>0. j \in Slot
    BY CursorFacts, IndexInSlot
  <1>1. head[j] = NoAddr
    BY <1>0 DEF ListsInv, EmptyOK
  <1>2. Owns(t, j) /\ pc[t] \notin Publishing \cup {"store_flag"}
    BY DEF Owns, RunLabels, Publishing
  <1>3. PICK n \in Nat, r \in [Nat -> Addr \cup {NoAddr}] :
          IsList(j, n, r) /\ \A b \in Addr : On(n, r, b) <=> j \in readers[b] \cup writers[b]
    BY <1>0, <1>2, OwnList DEF ListsInv
  <1>4. n = 0
    BY <1>1, <1>3, EmptyList
  <1> QED
    BY <1>3, <1>4 DEF On

\* The start of an execution.
LEMMA StartOwnOK ==
  ASSUME RingInv, RingInv', ListsInv, ResultInv, Sane, NEW t \in Thread, Worker(t),
         pc[t] \in {"next_mark", "rollback_done"}, pc'[t] = "exec",
         pc[t] = "next_mark" => status[Index(epoch[t])] = "commit",
         UNCHANGED <<epoch, op, sound, writers>>
  PROVE  ThreadOK(t)'
  <1> DEFINE e == epoch[t]
  <1>0. /\ OpOK(t) /\ e \in Nat
    BY CursorFacts DEF ResultInv, ThreadOK
  <1>1. op[t] = 0 /\ sound[t]
    BY <1>0 DEF OpOK, Busy, Tracking, Loading, Client!Rolling
  <1>2. \A a, k : WritesAt(e, a, k) => k \in Nat /\ 1 <= k
    BY DEF WritesAt
  <1>3. OwnFlags(t)'
    <2> SUFFICES ASSUME NEW a \in Addr
                 PROVE  Index(e) \in writers[a] <=> \E k \in Nat : k <= 0 /\ WritesAt(e, a, k)
      BY <1>1 DEF OwnFlags, Made, Ending
    <2>1. Index(e) \notin writers[a]
      BY Untouched
    <2>2. \A k \in Nat : 1 <= k => ~(k <= 0)
      OBVIOUS
    <2> QED
      BY <1>2, <2>1, <2>2
  <1>4. OwnValues(t)'
    <2> SUFFICES ASSUME NEW a \in Addr, NEW k \in Nat, LastBefore(e, a, 0 + 1, k)
                 PROVE  FALSE
      BY <1>1 DEF OwnValues
    <2>1. k < 1 /\ 1 <= k
      BY <1>2 DEF LastBefore
    <2> QED
      BY <2>1
  <1>5. OpOK(t)' /\ SoundOK(t)' /\ LoadOK(t)' /\ PublishOK(t)'
    BY <1>1 DEF OpOK, SoundOK, Ending, LoadOK, ReadsOK, SeenOK, PickOK, ReadOK, MemOK, PublishOK,
       Publishing, Loading
  <1> QED
    BY <1>3, <1>4, <1>5 DEF ThreadOK

\* The two steps from the break of the loop to yarn_epoch_set_done.
LEMMA EndingOwnOK ==
  ASSUME RingInv, RingInv', ResultInv, Sane, NEW t \in Thread, Worker(t),
         pc[t] = "stop", pc'[t] = "set_done",
         UNCHANGED <<epoch, status, op, sound, writers, wbuf>>
  PROVE  ThreadOK(t)'
  <1>0. NoDelay /\ OpOK(t) /\ OwnFlags(t) /\ OwnValues(t) /\ SoundOK(t)
    BY DEF ResultInv, ThreadOK
  <1>1. pc[t] \in RunLabels /\ pc'[t] \in RunLabels /\ pc'[t] \in Ending \ Busy /\ pc[t] \in Ending \ Busy
    BY DEF RunLabels, Ending, Busy, Tracking, Loading, Client!Rolling
  <1>2. /\ Executing(t)' <=> Executing(t)
        /\ Executing(t) /\ Doomed(epoch[t]) => Doomed(epoch[t])'
    <2>1. Executing(t)' <=> Executing(t)
      BY DEF Executing
    <2> SUFFICES ASSUME Executing(t), Doomed(epoch[t]) PROVE Doomed(epoch[t])'
      BY <2>1
    <2>2. status[Index(epoch[t])] = "executing" /\ status'[Index(epoch[t])] = "executing"
      BY DEF Executing
    <2> QED
      BY <1>0, <1>1, <2>2, RunnerDoomed
  <1>3. OpOK(t)'
    BY <1>0, <1>1 DEF OpOK, Ending, Loading
  <1>4. OwnFlags(t)'
    <2>1. Made(t)' = Made(t)
      BY <1>1 DEF Made, Ending
    <2> QED
      BY <1>0, <1>1, <2>1 DEF OwnFlags
  <1>5. SoundOK(t)'
    <2>1. Buffered(epoch[t])' <=> Buffered(epoch[t])
      BY DEF Buffered, Index, Writes, WritesAt, StoresOf, Position
    <2> QED
      BY <1>0, <1>1, <1>2, <2>1 DEF SoundOK
  <1>6. OwnValues(t)' /\ LoadOK(t)' /\ PublishOK(t)'
    BY <1>1 DEF OwnValues, LoadOK, ReadsOK, SeenOK, PickOK, ReadOK, MemOK, PublishOK, Publishing,
       Loading, Ending
  <1> QED
    BY <1>3, <1>4, <1>5, <1>6 DEF ThreadOK


\* The commit of a record: the write to memory, then the epoch of the last commit.
LEMMA CommitOwnOK ==
  ASSUME RingInv, RingInv', ResultInv, Sane, NEW t \in Thread, Worker(t),
         CommitWrite(t) \/ CommitLast(t), UNCHANGED <<op, sound>>
  PROVE  ThreadOK(t)'
  <1> DEFINE e == cur[t]
  <1>0. /\ OpOK(t) /\ PublishOK(t)
        /\ e \in Nat /\ Index(e) \in Slot
        /\ pc \in [Thread -> Client!Labels \cup TrackerLabels]
        /\ at \in [Thread -> Addr \cup {NoAddr}] /\ mem \in [Addr -> Value]
        /\ lastCommit \in [Addr -> Int] /\ commitLock \in [Addr -> SUBSET Thread]
        /\ head \in [Slot -> Addr \cup {NoAddr}]
    BY CursorFacts, TypeFacts, IndexInSlot DEF ResultInv, ThreadOK
  <1>1. UNCHANGED <<epoch, cur, writers, wbuf>>
    BY TrackerFrame DEF CommitWrite, CommitLast, Tracker, flags
  <1>2. pc[t] \notin Busy /\ pc'[t] \in Publishing /\ pc'[t] \notin Busy \cup Ending
    BY <1>0 DEF CommitWrite, CommitLast, Goto, Busy, Tracking, Loading, Client!Rolling, Publishing,
       Ending
  <1>3. PublishOK(t)'
    <2>1. CASE CommitWrite(t)
      <3> DEFINE a == head[Index(e)]
      <3>1. /\ a \in Addr /\ at'[t] = a /\ commitLock'[a] = {t} /\ UNCHANGED lastCommit
            /\ pc[t] = "publish"
            /\ pc'[t] = IF Newer(t, a) THEN "publish_last" ELSE "publish_clear"
            /\ Newer(t, a) => mem'[a] = wbuf[a][Index(e)]
        BY <1>0, <2>1 DEF CommitWrite, Pop, Goto
      <3> HIDE DEF a
      <3>2. ASSUME Newer(t, a)
            PROVE  lastCommit[a] < e /\ Writes(e, a) /\ mem'[a] = Max(StoresOf(e, a))
        <4>1. /\ Index(e) \in writers[a] /\ e > lastCommit[a] /\ lastCommit[a] \in Int
              /\ first \in Nat /\ nextCommit \in Nat /\ next \in Nat /\ EpochMax \in Nat
              /\ nextCommit <= next /\ next <= first + EpochMax
          BY <1>0, <3>1, <3>2, CursorFacts DEF Newer
        <4>2. first <= e /\ e < nextCommit /\ status[Index(e)] = "done"
          BY <3>1, CommitFacts, OwnedStatus DEF CommitLabels
        <4>3. e < first + EpochMax
          BY <1>0, <4>1, <4>2
        <4>4. Writes(e, a)
          BY <1>0, <3>1, <4>1, <4>2, <4>3 DEF ResultInv, FlagsInv
        <4>5. ~(lastCommit[a] >= e)
          BY <1>0, <4>1
        <4>6. wbuf[a][Index(e)] = Max(StoresOf(e, a))
          BY <1>0, <3>1, <4>2, <4>4, <4>5 DEF ResultInv, ClaimInv
        <4> QED
          BY <3>1, <3>2, <4>1, <4>4, <4>6
      <3>3. ~Newer(t, a) => (Index(e) \in writers[a] => lastCommit[a] >= e)
        BY <1>0, <3>1 DEF Newer
      <3> QED
        BY <1>1, <3>1, <3>2, <3>3 DEF PublishOK, Publishing, Writes, WritesAt, StoresOf, Position, Index
    <2>2. CASE CommitLast(t)
      <3>1. /\ pc[t] = "publish_last" /\ pc'[t] = "publish_clear" /\ at'[t] = at[t]
            /\ lastCommit' = [lastCommit EXCEPT ![at[t]] = e] /\ UNCHANGED commitLock
        BY <1>0, <2>2 DEF CommitLast, Goto, depLocals
      <3>2. at[t] \in Addr
        BY <3>1, TypeFacts DEF TrackerLabels
      <3>3. lastCommit'[at[t]] >= e /\ commitLock[at[t]] = {t}
        BY <1>0, <3>1, <3>2 DEF PublishOK, Publishing
      <3> QED
        BY <1>1, <3>1, <3>3 DEF PublishOK, Publishing
    <2> QED
      BY <2>1, <2>2
  <1>4. OpOK(t)'
    BY <1>0, <1>2 DEF OpOK, Publishing, Loading
  <1>5. OwnFlags(t)' /\ OwnValues(t)' /\ SoundOK(t)' /\ LoadOK(t)'
    BY <1>2 DEF OwnFlags, OwnValues, SoundOK, LoadOK, ReadsOK, SeenOK, PickOK, ReadOK, MemOK, Publishing,
       Loading
  <1> QED
    BY <1>3, <1>4, <1>5 DEF ThreadOK

\* The steps of epoch.c, for the execution of the thread.
LEMMA RingMoves ==
  ASSUME RingInv, Sane, NoDelay, NEW t \in Thread, Ring(t)
  PROVE  \/ pc[t] \in Client!Rolling /\ pc'[t] \in Client!Rolling \cup {"exec"} /\ UNCHANGED epoch
         \/ /\ pc[t] \in {"next_mark", "rollback_done"} /\ pc'[t] = "exec" /\ UNCHANGED epoch
            /\ pc[t] = "next_mark" => status[Index(epoch[t])] = "commit"
         \/ pc[t] = "stop" /\ pc'[t] = "set_done" /\ UNCHANGED <<epoch, status>>
         \/ pc[t] \notin Busy /\ pc'[t] \notin Busy \cup Ending \cup Publishing
  <1>0. pc \in [Thread -> Client!Labels \cup TrackerLabels]
    BY CursorFacts
  <1>1. pc[t] \notin TrackerLabels
    BY RingLabels DEF RingInv, TypeInv
  <1>2. CASE Quiet(t)
    <2>1. PICK l \in Client!Labels :
            /\ pc' = [pc EXCEPT ![t] = l]
            /\ \/ pc[t] \notin RunLabels \cup CommitLabels /\ l \notin RunLabels \cup CommitLabels
               \/ pc[t] = "rollback" /\ l = "rollback_enter" /\ UNCHANGED <<start, cur>>
               \/ pc[t] \in RollTail /\ l \in RollTail \cup {"exec"}
               \/ pc[t] = "stop" /\ l = "set_done"
      BY <1>2 DEF Quiet
    <2>2. pc'[t] = l /\ UNCHANGED <<epoch, status>>
      BY <1>0, <1>2, <2>1 DEF Quiet
    <2>3. CASE pc[t] \notin RunLabels \cup CommitLabels /\ l \notin RunLabels \cup CommitLabels
      BY <2>2, <2>3 DEF RunLabels, CommitLabels, Busy, Ending
    <2> QED
      BY <2>1, <2>2, <2>3 DEF RollTail, Client!Rolling
  <1>3. CASE Counts(t)
    <2>1. CASE NextClaim(t) \/ GetCommitCas(t) \/ CommitDone(t) \/ FirstCas(t)
      BY <1>0, <2>1 DEF NextClaim, GetCommitCas, CommitDone, FirstCas, Goto, Busy, Ending, Tracking,
         Loading, Client!Rolling, Publishing
    <2>2. CASE NextMark(t) \/ RollbackDone(t) \/ SetDone(t)
      BY <1>0, <2>2 DEF NextMark, RollbackDone, SetDone, locals, Goto, Busy, Ending, Tracking,
         Loading, Client!Rolling, Publishing
    <2>3. CASE RollbackEnter(t) \/ RollbackSkip(t) \/ RollbackStatus(t) \/ RollbackFlag(t) \/ RollbackNext(t)
      BY <1>0, <2>3 DEF RollbackEnter, RollbackSkip, RollbackStatus, RollbackFlag, RollbackNext,
         locals, Goto, Client!Rolling
    <2> QED
      BY <1>3, <2>1, <2>2, <2>3 DEF Counts
  <1> QED
    BY <1>2, <1>3, RingKinds

\* and its own.
LEMMA OwnOK ==
  ASSUME RingInv, RingInv', ListsInv, ResultInv, Sane, NEW t \in Thread, Worker(t)
  PROVE  ThreadOK(t)'
  <1>0. /\ NoDelay /\ OpOK(t)
        /\ pc \in [Thread -> Client!Labels \cup TrackerLabels]
    BY CursorFacts DEF ResultInv, ThreadOK
  <1>1. CASE Load(t) \/ Store(t) \/ LoadEnd(t) \/ Return(t)
    BY <1>1, LoadOwnOK, StoreOwnOK, EndOwnOK, ReturnOwnOK
  <1>2. CASE Tracker(t) /\ UNCHANGED <<op, sound>>
    <2>1. CASE LoadMask(t) \/ LoadFirst(t) \/ LoadBuf(t) \/ StoreFlag(t) \/ CommitWrite(t) \/ CommitLast(t)
      BY <1>2, <2>1, MaskOwnOK, FirstOwnOK, BufOwnOK, FlagOwnOK, CommitOwnOK
    <2>2. CASE ViolationLast(t) \/ ViolationFlags(t)
      <3>1. /\ pc[t] \in {"violation_last", "violation_flags"}
            /\ pc'[t] \in {"exec", "violation_flags", "rollback"}
            /\ UNCHANGED <<writers, wbuf>>
        BY <1>0, <2>2 DEF ViolationLast, ViolationFlags, Goto, flags
      <3>2. /\ pc[t] \in Busy \ (Loading \cup {"store_flag"})
            /\ pc'[t] \in Busy \ (Loading \cup {"store_flag"})
        BY <3>1 DEF Busy, Tracking, Loading, Client!Rolling
      <3>3. UNCHANGED epoch
        BY <1>2, TrackerFrame
      <3> QED
        BY <1>2, <3>1, <3>2, <3>3, GoesOnOK
    <2>3. CASE CommitClear(t) \/ CommitReturn(t) \/ UndoPop(t) \/ UndoReturn(t)
      <3>1. /\ pc[t] \in {"publish_clear", "publish", "undo"}
            /\ pc'[t] \in {"publish", "commit_done", "undo", "rollback_done"}
        BY <1>0, <2>3 DEF CommitClear, CommitReturn, UndoPop, UndoReturn, Goto
      <3>2. pc[t] \notin Busy /\ pc'[t] \notin Busy \cup Ending \cup Publishing
        BY <3>1 DEF Busy, Tracking, Loading, Client!Rolling, Ending, Publishing
      <3>3. op'[t] = 0 /\ sound'[t]
        BY <1>0, <1>2, <3>2 DEF OpOK
      <3> QED
        BY <3>2, <3>3, IdleOK
    <2> QED
      BY <1>2, <2>1, <2>2, <2>3 DEF Tracker
  <1>3. CASE Ring(t) /\ UNCHANGED <<depVars, op, sound>>
    <2>0. UNCHANGED <<writers, wbuf>>
      BY <1>3 DEF depVars, flags
    <2>1. CASE pc[t] \in Client!Rolling /\ pc'[t] \in Client!Rolling \cup {"exec"} /\ UNCHANGED epoch
      <3>1. /\ pc[t] \in Busy \ (Loading \cup {"store_flag"})
            /\ pc'[t] \in Busy \ (Loading \cup {"store_flag"})
        BY <2>1 DEF Busy, Tracking, Loading, Client!Rolling
      <3> QED
        BY <1>3, <2>0, <2>1, <3>1, GoesOnOK
    <2>2. CASE /\ pc[t] \in {"next_mark", "rollback_done"} /\ pc'[t] = "exec" /\ UNCHANGED epoch
               /\ pc[t] = "next_mark" => status[Index(epoch[t])] = "commit"
      BY <1>3, <2>0, <2>2, StartOwnOK
    <2>3. CASE pc[t] = "stop" /\ pc'[t] = "set_done" /\ UNCHANGED <<epoch, status>>
      BY <1>3, <2>0, <2>3, EndingOwnOK
    <2>4. CASE pc[t] \notin Busy /\ pc'[t] \notin Busy \cup Ending \cup Publishing
      <3>1. op'[t] = 0 /\ sound'[t]
        BY <1>0, <1>3, <2>4 DEF OpOK
      <3> QED
        BY <2>4, <3>1, IdleOK
    <2> QED
      BY <1>0, <1>3, <2>1, <2>2, <2>3, <2>4, RingMoves
  <1> QED
    BY <1>0, <1>1, <1>2, <1>3, WorkerKinds


-----------------------------------------------------------------------------
(* What the threads have in common.                                         *)

\* The record of a slot is touched as long as the epoch is executed or committed.
LEMMA FreeUntouched ==
  ASSUME RingInv, ListsInv, NEW i \in Slot,
         \/ status[i] = "commit"
         \/ \E t \in Thread : pc[t] = "commit_done" /\ Index(cur[t]) = i,
         NEW a \in Addr
  PROVE  i \notin readers[a] \cup writers[a]
  <1>1. head[i] = NoAddr
    BY DEF ListsInv, EmptyOK
  <1>2. \A u \in Thread : ~Clearing(u, i)
    <2> SUFFICES ASSUME NEW u \in Thread, pc[u] \in Publishing, Index(cur[u]) = i PROVE FALSE
      BY DEF Clearing
    <2>1. status[i] # "commit"
      BY OwnedStatus DEF CommitLabels
    <2>2. PICK t \in Thread : pc[t] = "commit_done" /\ Index(cur[t]) = i
      BY <2>1
    <2>3. Owns(t, i) /\ Owns(u, i) /\ pc[t] # pc[u]
      BY <2>2 DEF Owns, CommitLabels, Publishing
    <2> QED
      BY <2>3, OneOwner
  <1>3. PICK n \in Nat, r \in [Nat -> Addr \cup {NoAddr}] :
          IsList(i, n, r) /\ \A b \in Touched(i) : On(n, r, b)
    BY <1>2 DEF ListsInv, ListOK
  <1>4. n = 0
    BY <1>1, <1>3, EmptyList
  <1> QED
    BY <1>3, <1>4 DEF On, Touched

\* Steps from one label of the tracker.
LEMMA LabelSteps ==
  ASSUME RingInv, Sane, NoDelay, NEW t \in Thread, Worker(t)
  PROVE  /\ pc[t] = "publish_last" => CommitLast(t)
         /\ pc[t] \in RunLabels \ {"next_mark"} => pc'[t] \in RunLabels \ {"next_mark"} \/ SetDone(t)
  <1>0. pc \in [Thread -> Client!Labels \cup TrackerLabels]
    BY CursorFacts
  <1>1. CASE Load(t) \/ Store(t) \/ LoadEnd(t) \/ Return(t)
    BY <1>0, <1>1 DEF Load, LoadFlag, Store, StoreBuf, LoadEnd, LoadCheck, LoadMem, Return, Goto,
       RunLabels, Tracking, Loading
  <1>2. CASE Tracker(t)
    <2>1. CASE LoadMask(t) \/ LoadFirst(t) \/ LoadBuf(t) \/ StoreFlag(t)
      BY <1>0, <2>1 DEF LoadMask, LoadFirst, LoadBuf, StoreFlag, Goto, RunLabels, Tracking, Loading
    <2>2. CASE ViolationLast(t) \/ ViolationFlags(t) \/ UndoPop(t) \/ UndoReturn(t)
      BY <1>0, <2>2 DEF ViolationLast, ViolationFlags, UndoPop, UndoReturn, Goto, RunLabels, Tracking,
         Client!Rolling
    <2>3. CASE CommitWrite(t) \/ CommitLast(t) \/ CommitClear(t) \/ CommitReturn(t)
      BY <1>0, <2>3 DEF CommitWrite, CommitLast, CommitClear, CommitReturn, Goto, RunLabels, Tracking,
         Loading, Client!Rolling
    <2> QED
      BY <1>2, <2>1, <2>2, <2>3 DEF Tracker
  <1>3. CASE Ring(t)
    <2>0. pc[t] \notin TrackerLabels
      BY <1>3, RingLabels DEF RingInv, TypeInv
    <2>1. CASE Quiet(t)
      BY <1>0, <2>0, <2>1 DEF Quiet, RunLabels, CommitLabels, RollTail, TrackerLabels, Tracking,
         Loading, Client!Rolling, Publishing
    <2>2. CASE Counts(t)
      BY <1>0, <2>0, <2>2 DEF Counts, NextClaim, NextMark, RollbackDone, RollbackEnter, RollbackSkip,
         RollbackStatus, RollbackFlag, RollbackNext, SetDone, GetCommitCas, CommitDone, FirstCas, Goto,
         RunLabels, TrackerLabels, Tracking, Loading, Client!Rolling
    <2> QED
      BY <1>3, <2>1, <2>2, RingKinds
  <1> QED
    BY <1>1, <1>2, <1>3, WorkerKinds

\* NextMark starts an execution, and SetDone alone ends it.
LEMMA StepRunsInv ==
  ASSUME RingInv, ResultInv, Sane, NEW t \in Thread, Worker(t)
  PROVE  RunsInv'
  <1>0. /\ NoDelay /\ RunsInv
        /\ first \in Nat /\ nextCommit \in Nat /\ next \in Nat /\ EpochMax \in Nat
        /\ first <= nextCommit /\ nextCommit <= next /\ next <= first + EpochMax
        /\ epoch[t] \in Nat /\ cur[t] \in Nat /\ start[t] \in Nat /\ epoch \in [Thread -> Nat]
        /\ status \in [Slot -> Status]
        /\ pc \in [Thread -> Client!Labels \cup TrackerLabels]
    BY CursorFacts DEF ResultInv
  <1> SUFFICES ASSUME NEW e \in Nat, nextCommit' <= e, e < next', status'[Index(e)] = "executing"
               PROVE  \E u \in Thread : pc'[u] \in RunLabels \ {"next_mark"} /\ epoch'[u] = e
    BY DEF RunsInv, Index
  <1>1. Index(e) \in Slot /\ Index(epoch[t]) \in Slot /\ Index(cur[t]) \in Slot
    BY <1>0, IndexInSlot
  <1>2. nextCommit <= e
    <2>1. nextCommit' = nextCommit \/ (GetCommitCas(t) /\ nextCommit = cur[t])
      BY <1>0, CursorsStay
    <2> QED
      BY <1>0, <2>1 DEF GetCommitCas
  <1>3. CASE status[Index(e)] = "executing" /\ e < next
    <2>1. PICK u \in Thread : pc[u] \in RunLabels \ {"next_mark"} /\ epoch[u] = e
      BY <1>0, <1>2, <1>3 DEF RunsInv
    <2>2. CASE u # t
      <3>1. UNCHANGED <<pc[u], epoch[u]>>
        BY <1>0, <2>2, OthersStay
      <3> QED
        BY <2>1, <3>1
    <2>3. CASE u = t
      <3>1. ~SetDone(t)
        BY <1>0, <1>1, <1>3, <2>1, <2>3 DEF SetDone
      <3>2. pc'[t] \in RunLabels \ {"next_mark"}
        BY <1>0, <2>1, <2>3, <3>1, LabelSteps
      <3>3. epoch' = epoch
        <4>1. ~NextClaim(t)
          BY <2>1, <2>3 DEF NextClaim, Goto, RunLabels, Tracking, Loading, Client!Rolling
        <4> QED
          BY <1>0, <3>1, <4>1, EpochStays
      <3> QED
        BY <2>1, <2>3, <3>2, <3>3
    <2> QED
      BY <2>2, <2>3
  <1>4. CASE status[Index(e)] = "executing" /\ ~(e < next)
    <2>1. NextClaim(t)
      <3>1. next' # next /\ ~RollbackNext(t)
        BY <1>0, <1>4 DEF RollbackNext
      <3> QED
        BY <1>0, <3>1, CursorsStay
    <2>2. pc[t] = "next_stop" /\ next' = next + 1
      BY <2>1 DEF NextClaim, Goto
    <2>3. next < first + EpochMax
      BY <2>2, RunFacts
    <2>4. next <= e /\ e < first + EpochMax
      BY <1>0, <1>4, <2>2, <2>3
    <2> QED
      BY <1>4, <2>4, SlotFacts DEF RolledBack
  <1>5. CASE status[Index(e)] # "executing"
    <2>1. NextMark(t) /\ Index(epoch[t]) = Index(e)
      BY <1>0, <1>1, <1>5, StatusSteps DEF NextMark, RollbackStatus, SetDone, CommitDone
    <2>2. /\ pc[t] = "next_mark" /\ pc'[t] \in {"undo", "exec"} /\ UNCHANGED <<epoch, next>>
      BY <1>0, <2>1 DEF NextMark, Goto, cursors
    <2>3. first <= epoch[t] /\ epoch[t] < first + EpochMax
      BY <2>2, RunFacts DEF RunLabels
    <2>4. first <= e /\ e < first + EpochMax
      BY <1>0, <1>2, <2>2
    <2>5. epoch[t] = e
      BY <1>0, <2>1, <2>3, <2>4, SameSlot
    <2> QED
      BY <2>2, <2>5 DEF RunLabels
  <1> QED
    BY <1>3, <1>4, <1>5


\* Only StoreFlag sets a write flag.
LEMMA WritersGrow ==
  ASSUME RingInv, Sane, NoDelay, NEW t \in Thread, Worker(t), NEW i \in Slot, NEW a \in Addr,
         i \in writers'[a], i \notin writers[a]
  PROVE  StoreFlag(t) /\ i = Index(epoch[t]) /\ a = at[t]
  <1>0. /\ writers \in [Addr -> SUBSET Slot]
        /\ pc[t] \in TrackerLabels => at[t] \in Addr
        /\ head \in [Slot -> Addr \cup {NoAddr}] /\ Index(epoch[t]) \in Slot
    BY TypeFacts, CursorFacts, IndexInSlot
  <1>1. ~UNCHANGED writers
    BY <1>0
  <1>2. StoreFlag(t) \/ CommitClear(t) \/ UndoPop(t)
    BY <1>1, WorkerKinds DEF Tracker, Load, LoadFlag, Store, StoreBuf, LoadEnd, LoadCheck, LoadMem,
       Return, LoadMask, LoadFirst, LoadBuf, ViolationLast, ViolationFlags, CommitWrite, CommitLast,
       CommitReturn, UndoReturn, depVars, flags
  <1>3. ~CommitClear(t)
    BY <1>0 DEF CommitClear, ClearFlags, Goto, TrackerLabels
  <1>4. ~UndoPop(t)
    BY <1>0 DEF UndoPop, ClearFlags, Pop
  <1>5. StoreFlag(t)
    BY <1>2, <1>3, <1>4
  <1>6. at[t] \in Addr /\ writers' = [writers EXCEPT ![at[t]] = @ \cup {Index(epoch[t])}]
    BY <1>0, <1>5 DEF StoreFlag, Goto, TrackerLabels
  <1> QED
    BY <1>0, <1>5, <1>6

\* A slot that is used again has no flag left, so that a new flag is its own.
LEMMA StepFlagsInv ==
  ASSUME RingInv, ListsInv, ResultInv, Sane, NEW t \in Thread, Worker(t)
  PROVE  FlagsInv'
  <1>0. /\ NoDelay /\ FlagsInv /\ OpOK(t)
        /\ first \in Nat /\ nextCommit \in Nat /\ next \in Nat /\ EpochMax \in Nat \ {0, 1}
        /\ epoch[t] \in Nat /\ cur[t] \in Nat
    BY CursorFacts, EpochMaxAssumption DEF ResultInv, ThreadOK
  <1> SUFFICES ASSUME NEW e \in Nat, NEW a \in Addr, first' <= e, e < first' + EpochMax,
                      Index(e) \in writers'[a]
               PROVE  Writes(e, a)
    BY DEF FlagsInv, Index
  <1>1. Index(e) \in Slot
    BY IndexInSlot
  <1>2. first' = first \/ (FirstCas(t) /\ first = cur[t] /\ first' = first + 1 /\ UNCHANGED writers)
    <2>1. first' = first \/ (FirstCas(t) /\ first = cur[t])
      BY <1>0, CursorsStay
    <2>2. FirstCas(t) => Ring(t)
      BY DEF Ring
    <2>3. FirstCas(t) => UNCHANGED writers
      <3> SUFFICES ASSUME FirstCas(t) PROVE UNCHANGED writers
        OBVIOUS
      <3>1. pc[t] = "first_cas"
        BY DEF FirstCas, Goto
      <3>2. ~StoreFlag(t) /\ ~CommitClear(t) /\ ~UndoPop(t)
        BY <3>1 DEF StoreFlag, CommitClear, UndoPop, Goto
      <3> QED
        BY <1>0, <3>2, WorkerKinds DEF Tracker, Load, LoadFlag, Store, StoreBuf, LoadEnd, LoadCheck, LoadMem,
           Return, LoadMask, LoadFirst, LoadBuf, ViolationLast, ViolationFlags, CommitWrite, CommitLast,
           CommitReturn, UndoReturn, depVars, flags
    <2> QED
      BY <2>1, <2>3 DEF FirstCas
  <1>3. first <= e
    BY <1>0, <1>2
  <1>4. CASE Index(e) \in writers[a] /\ e < first + EpochMax
    BY <1>0, <1>3, <1>4 DEF FlagsInv
  <1>5. CASE Index(e) \notin writers[a]
    <2>1. StoreFlag(t) /\ Index(e) = Index(epoch[t]) /\ a = at[t]
      BY <1>0, <1>1, <1>5, WritersGrow
    <2>2. pc[t] = "store_flag"
      BY <2>1 DEF StoreFlag, Goto
    <2>3. first <= epoch[t] /\ epoch[t] < first + EpochMax
      BY <2>2, RunFacts DEF RunLabels, Tracking
    <2>4. first' = first
      BY <1>2, <2>2 DEF FirstCas, Goto
    <2>5. e = epoch[t]
      BY <1>0, <1>3, <2>1, <2>3, <2>4, SameSlot
    <2>6. WritesAt(e, a, op[t])
      BY <1>0, <2>1, <2>2, <2>5 DEF OpOK
    <2> QED
      BY <2>6 DEF Writes, WritesAt
  <1>6. CASE ~(e < first + EpochMax)
    <2>1. FirstCas(t) /\ first = cur[t] /\ e = first + EpochMax /\ UNCHANGED writers
      BY <1>0, <1>2, <1>6
    <2>2. status[Index(first)] = "commit"
      BY <2>1, CommitFacts DEF FirstCas, Goto
    <2>3. Index(e) = Index(first)
      BY <1>0, <2>1, Client!IndexTurn, ClientAssumptions DEF Index, Client!Index
    <2>4. Index(e) \notin writers[a]
      BY <1>1, <2>2, <2>3, FreeUntouched
    <2> QED
      BY <2>1, <2>4
  <1> QED
    BY <1>4, <1>5, <1>6

\* Whoever owns the slot of an epoch whose commit is not claimed runs that epoch.
LEMMA OwnerRuns ==
  ASSUME RingInv, NEW t \in Thread, NEW e \in Nat, first <= e, e < first + EpochMax, Owns(t, Index(e))
  PROVE  \/ pc[t] \in RunLabels /\ epoch[t] = e /\ nextCommit <= e
         \/ pc[t] \in CommitLabels /\ cur[t] = e /\ e < nextCommit
  <1>0. /\ first \in Nat /\ nextCommit \in Nat /\ next \in Nat /\ EpochMax \in Nat
        /\ nextCommit <= next /\ next <= first + EpochMax
        /\ epoch[t] \in Nat /\ cur[t] \in Nat
    BY CursorFacts
  <1>1. CASE pc[t] \in RunLabels /\ Index(epoch[t]) = Index(e)
    <2>1. first <= epoch[t] /\ nextCommit <= epoch[t] /\ epoch[t] < first + EpochMax
      BY <1>1, RunFacts
    <2>2. epoch[t] = e
      BY <1>0, <1>1, <2>1, SameSlot
    <2> QED
      BY <1>1, <2>1, <2>2
  <1>2. CASE pc[t] \in CommitLabels /\ Index(cur[t]) = Index(e)
    <2>1. first <= cur[t] /\ cur[t] < nextCommit
      BY <1>2, CommitFacts
    <2>2. cur[t] = e
      BY <1>0, <1>2, <2>1, SameSlot
    <2> QED
      BY <1>2, <2>1, <2>2
  <1> QED
    BY <1>1, <1>2 DEF Owns

\* SetDone: the execution has made all of its stores.  A doomed epoch stays doomed.
LEMMA StepDoneInv ==
  ASSUME RingInv, ResultInv, Sane, NEW t \in Thread, Worker(t)
  PROVE  DoneInv'
  <1>0. /\ NoDelay /\ DoneInv
        /\ first \in Nat /\ nextCommit \in Nat /\ next \in Nat /\ EpochMax \in Nat
        /\ first <= nextCommit /\ nextCommit <= next /\ next <= first + EpochMax
        /\ epoch[t] \in Nat /\ cur[t] \in Nat /\ start[t] \in Nat
        /\ status \in [Slot -> Status]
    BY CursorFacts DEF ResultInv
  <1> SUFFICES ASSUME NEW e \in Nat, nextCommit' <= e, e < next', status'[Index(e)] = "done"
               PROVE  /\ \A a \in Addr : Index(e) \in writers'[a] <=> Writes(e, a)
                      /\ Buffered(e)' \/ Doomed(e)'
    BY DEF DoneInv, Index, Writes, WritesAt
  <1>1. Index(e) \in Slot /\ Index(epoch[t]) \in Slot /\ Index(cur[t]) \in Slot
    BY <1>0, IndexInSlot
  <1>2. nextCommit <= e
    <2>1. nextCommit' = nextCommit \/ (GetCommitCas(t) /\ nextCommit = cur[t])
      BY <1>0, CursorsStay
    <2> QED
      BY <1>0, <2>1 DEF GetCommitCas
  <1>3. Live(e)'
    BY DEF Live, Index
  <1>4. ASSUME UNCHANGED wbuf \/ ~Owns(t, Index(e)), Buffered(e)
        PROVE  Buffered(e)'
    <2> SUFFICES ASSUME NEW a \in Addr, Writes(e, a)
                 PROVE  wbuf'[a][Index(e)] = Max(StoresOf(e, a))
      BY DEF Buffered, Index, Writes, WritesAt, StoresOf, Position
    <2>1. wbuf'[a][Index(e)] = wbuf[a][Index(e)]
      BY <1>0, <1>1, <1>4, SlotStays
    <2> QED
      BY <1>4, <2>1 DEF Buffered
  <1>5. CASE status[Index(e)] = "done" /\ e < next
    <2>1. ~Owns(t, Index(e))
      <3> SUFFICES ASSUME Owns(t, Index(e)) PROVE FALSE
        OBVIOUS
      <3>1. pc[t] \in RunLabels /\ epoch[t] = e
        BY <1>0, <1>2, <1>5, OwnerRuns
      <3> QED
        BY <1>5, <3>1, OwnedStatus
    <2>2. \A a \in Addr : Index(e) \in writers'[a] <=> Index(e) \in writers[a]
      BY <1>0, <1>1, <2>1, SlotStays
    <2>3. /\ \A a \in Addr : Index(e) \in writers[a] <=> Writes(e, a)
          /\ Buffered(e) \/ Doomed(e)
      BY <1>0, <1>2, <1>5 DEF DoneInv
    <2>4. Doomed(e) => Doomed(e)'
      <3>1. Live(e)
        BY <1>2, <1>5 DEF Live
      <3> QED
        BY <1>0, <1>3, <3>1, DoomedStays
    <2> QED
      BY <1>4, <2>1, <2>2, <2>3, <2>4
  <1>6. CASE status[Index(e)] = "done" /\ ~(e < next)
    <2>1. NextClaim(t)
      <3>1. next' # next /\ ~RollbackNext(t)
        BY <1>0, <1>6 DEF RollbackNext
      <3> QED
        BY <1>0, <3>1, CursorsStay
    <2>2. pc[t] = "next_stop" /\ next' = next + 1
      BY <2>1 DEF NextClaim, Goto
    <2>3. next < first + EpochMax
      BY <2>2, RunFacts
    <2>4. next <= e /\ e < first + EpochMax
      BY <1>0, <1>6, <2>2, <2>3
    <2> QED
      BY <1>6, <2>4, SlotFacts DEF RolledBack
  <1>7. CASE status[Index(e)] # "done"
    <2>1. SetDone(t) /\ Index(epoch[t]) = Index(e) /\ status[Index(e)] = "executing"
      BY <1>0, <1>1, <1>7, StatusSteps DEF NextMark, RollbackStatus, SetDone, CommitDone
    <2>2. pc[t] = "set_done" /\ UNCHANGED <<next, first>>
      BY <2>1 DEF SetDone, Goto, cursors
    <2>3. first <= epoch[t] /\ epoch[t] < first + EpochMax
      BY <2>2, RunFacts DEF RunLabels
    <2>4. first <= e /\ e < first + EpochMax
      BY <1>0, <1>2, <2>2
    <2>5. epoch[t] = e
      BY <1>0, <2>1, <2>3, <2>4, SameSlot
    <2>6. UNCHANGED <<writers, wbuf>>
      <3>1. ~(Load(t) \/ Store(t) \/ LoadEnd(t) \/ Return(t) \/ Tracker(t))
        BY <2>2 DEF Load, Store, LoadEnd, LoadCheck, LoadMem, Return, Tracker, LoadMask, LoadFirst,
           LoadBuf, StoreFlag, ViolationLast, ViolationFlags, CommitWrite, CommitLast, CommitClear,
           CommitReturn, UndoPop, UndoReturn, Goto
      <3> QED
        BY <1>0, <3>1, WorkerKinds DEF depVars, flags
    <2>7. OwnFlags(t) /\ SoundOK(t) /\ Executing(t)
      BY <2>1 DEF ResultInv, ThreadOK, Executing
    <2>8. \A a \in Addr : Index(e) \in writers[a] <=> Writes(e, a)
      <3>1. Made(t) = Len(Body(e))
        BY <2>2, <2>5 DEF Made, Ending
      <3>2. \A a \in Addr : Index(e) \in writers[a] <=> \E k \in Nat : k <= Len(Body(e)) /\ WritesAt(e, a, k)
        BY <2>2, <2>5, <2>7, <3>1 DEF OwnFlags, Ending
      <3>3. \A a, k : WritesAt(e, a, k) => k <= Len(Body(e))
        BY DEF WritesAt
      <3> QED
        BY <3>2, <3>3 DEF Writes
    <2>9. Buffered(e) \/ Doomed(e)
      BY <2>2, <2>5, <2>7 DEF SoundOK, Ending
    <2>10. Live(e)
      <3>1. e < next
        BY <2>2
      <3> QED
        BY <1>2, <2>1, <3>1 DEF Live
    <2>11. Doomed(e) => Doomed(e)'
      BY <1>0, <1>3, <2>10, DoomedStays
    <2> QED
      BY <1>4, <2>6, <2>8, <2>9, <2>11
  <1> QED
    BY <1>5, <1>6, <1>7


\* The claim of a commit: nobody dooms the epoch, so that its buffer is right.  Then
\* only its own commit clears a flag, once memory has the value.
LEMMA StepClaimInv ==
  ASSUME RingInv, ResultInv, Sane, NEW t \in Thread, Worker(t)
  PROVE  ClaimInv'
  <1>0. /\ NoDelay /\ ClaimInv /\ PublishOK(t)
        /\ first \in Nat /\ nextCommit \in Nat /\ next \in Nat /\ EpochMax \in Nat
        /\ first <= nextCommit /\ nextCommit <= next /\ next <= first + EpochMax
        /\ epoch[t] \in Nat /\ cur[t] \in Nat
        /\ status \in [Slot -> Status] /\ writers \in [Addr -> SUBSET Slot]
    BY CursorFacts, TypeFacts DEF ResultInv, ThreadOK
  <1> SUFFICES ASSUME NEW e \in Nat, NEW a \in Addr, first' <= e, e < nextCommit',
                      status'[Index(e)] = "done", Writes(e, a)
               PROVE  \/ Index(e) \in writers'[a] /\ wbuf'[a][Index(e)] = Max(StoresOf(e, a))
                      \/ lastCommit'[a] >= e
    BY DEF ClaimInv, Index, Writes, WritesAt, StoresOf, Position
  <1>1. Index(e) \in Slot /\ Index(epoch[t]) \in Slot /\ Index(cur[t]) \in Slot
    BY <1>0, IndexInSlot
  <1>2. first <= e
    <2>1. first' = first \/ (FirstCas(t) /\ first = cur[t])
      BY <1>0, CursorsStay
    <2> QED
      BY <1>0, <2>1 DEF FirstCas
  <1>3. CASE e < nextCommit
    <2>1. e < first + EpochMax
      BY <1>0, <1>3
    <2>2. status[Index(e)] = "done"
      <3> SUFFICES ASSUME status[Index(e)] = "commit" PROVE FALSE
        BY <1>2, <1>3, SlotFacts
      <3>1. (NextMark(t) \/ SetDone(t)) /\ Index(epoch[t]) = Index(e)
        BY <1>0, <1>1, StatusSteps DEF NextMark, RollbackStatus, SetDone, CommitDone
      <3>2. pc[t] \in RunLabels
        BY <3>1 DEF NextMark, SetDone, Goto, RunLabels
      <3>3. Owns(t, Index(e))
        BY <3>1, <3>2 DEF Owns
      <3>4. nextCommit <= e
        BY <1>2, <2>1, <3>2, <3>3, OwnerRuns DEF RunLabels, CommitLabels, Publishing, Tracking, Loading,
           Client!Rolling
      <3> QED
        BY <1>0, <1>3, <3>4
    <2>3. CASE lastCommit[a] >= e
      BY <2>3, LastCommitStays
    <2>4. CASE Index(e) \in writers[a] /\ wbuf[a][Index(e)] = Max(StoresOf(e, a))
      <3>1. CASE ~Owns(t, Index(e))
        BY <1>0, <1>1, <2>4, <3>1, SlotStays
      <3>2. CASE Owns(t, Index(e))
        <4>1. pc[t] \in CommitLabels /\ cur[t] = e
          <5>1. ~(nextCommit <= e)
            BY <1>0, <1>3
          <5> QED
            BY <1>2, <2>1, <3>2, <5>1, OwnerRuns
        <4>2. CASE CommitClear(t)
          <5>1. /\ pc[t] = "publish_clear" /\ at[t] \in Addr /\ UNCHANGED wbuf
                /\ writers' = [writers EXCEPT ![at[t]] = @ \ {Index(e)}]
            BY <4>1, <4>2, TypeFacts DEF CommitClear, ClearFlags, Goto, TrackerLabels
          <5>2. CASE a = at[t]
            <6>1. lastCommit[a] >= e
              BY <1>0, <2>4, <4>1, <5>1, <5>2 DEF PublishOK
            <6> QED
              BY <6>1, LastCommitStays
          <5>3. CASE a # at[t]
            BY <1>0, <2>4, <5>1, <5>3
          <5> QED
            BY <5>2, <5>3
        <4>3. CASE ~CommitClear(t)
          <5>1. UNCHANGED <<writers, wbuf>>
            BY <1>0, <4>1, <4>3, WorkerKinds DEF Tracker, Load, LoadFlag, Store, StoreBuf, LoadEnd,
               LoadCheck, LoadMem, Return, LoadMask, LoadFirst, LoadBuf, StoreFlag, ViolationLast,
               ViolationFlags, CommitWrite, CommitLast, CommitReturn, UndoPop, UndoReturn, Goto,
               CommitLabels, Publishing, depVars, flags
          <5> QED
            BY <2>4, <5>1
        <4> QED
          BY <4>2, <4>3
      <3> QED
        BY <3>1, <3>2
    <2> QED
      BY <1>0, <1>2, <1>3, <2>2, <2>3, <2>4 DEF ClaimInv
  <1>4. CASE ~(e < nextCommit)
    <2>1. GetCommitCas(t) /\ nextCommit = cur[t]
      <3>1. nextCommit' # nextCommit
        BY <1>0, <1>4
      <3> QED
        BY <1>0, <3>1, CursorsStay
    <2>2. pc[t] = "commit_cas" /\ nextCommit' = nextCommit + 1
      BY <2>1 DEF GetCommitCas, Goto
    <2>3. e = nextCommit
      BY <1>0, <1>4, <2>2
    <2>4. status[Index(e)] = "done" /\ e < next
      BY <2>1, <2>2, <2>3, CommitFacts
    <2>5. ~Doomed(e)
      BY <2>3, NoThreat
    <2>6. Index(e) \in writers[a] /\ Buffered(e)
      BY <1>0, <2>3, <2>4, <2>5 DEF ResultInv, DoneInv
    <2>7. UNCHANGED <<writers, wbuf>>
      <3>1. ~(Load(t) \/ Store(t) \/ LoadEnd(t) \/ Return(t) \/ Tracker(t))
        BY <2>2 DEF Load, Store, LoadEnd, LoadCheck, LoadMem, Return, Tracker, LoadMask, LoadFirst,
           LoadBuf, StoreFlag, ViolationLast, ViolationFlags, CommitWrite, CommitLast, CommitClear,
           CommitReturn, UndoPop, UndoReturn, Goto
      <3> QED
        BY <1>0, <3>1, WorkerKinds DEF depVars, flags
    <2> QED
      BY <2>6, <2>7 DEF Buffered
  <1> QED
    BY <1>3, <1>4

\* A commit that is over has cleared every flag, so that every record was committed.
LEMMA StepPastInv ==
  ASSUME RingInv, ListsInv, ResultInv, Sane, NEW t \in Thread, Worker(t)
  PROVE  PastInv'
  <1>0. /\ NoDelay /\ PastInv
        /\ first \in Nat /\ nextCommit \in Nat /\ next \in Nat /\ EpochMax \in Nat
        /\ first <= nextCommit /\ nextCommit <= next /\ next <= first + EpochMax
        /\ epoch[t] \in Nat /\ cur[t] \in Nat
        /\ status \in [Slot -> Status]
    BY CursorFacts DEF ResultInv
  <1> SUFFICES ASSUME NEW e \in Nat, NEW a \in Addr, e < nextCommit',
                      e < first' \/ status'[Index(e)] = "commit", Writes(e, a)
               PROVE  lastCommit'[a] >= e
    BY DEF PastInv, Index, Writes, WritesAt
  <1>1. Index(e) \in Slot /\ Index(epoch[t]) \in Slot /\ Index(cur[t]) \in Slot
    BY <1>0, IndexInSlot
  <1>2. lastCommit[a] >= e => lastCommit'[a] >= e
    BY LastCommitStays
  <1>3. CASE e < nextCommit /\ (e < first \/ status[Index(e)] = "commit")
    BY <1>0, <1>2, <1>3 DEF PastInv
  <1>4. CASE e < nextCommit /\ ~(e < first) /\ status[Index(e)] # "commit"
    <2>1. first <= e /\ e < first + EpochMax
      BY <1>0, <1>4
    <2>2. status[Index(e)] = "done"
      BY <1>4, <2>1, SlotFacts
    <2>3. ~(e < first')
      <3> SUFFICES ASSUME e < first' PROVE FALSE
        OBVIOUS
      <3>1. FirstCas(t) /\ first = cur[t]
        <4>1. first' # first
          BY <1>4
        <4> QED
          BY <1>0, <4>1, CursorsStay
      <3>2. pc[t] = "first_cas" /\ first' = first + 1
        BY <3>1 DEF FirstCas, Goto
      <3>3. e = first
        BY <1>0, <2>1, <3>2
      <3> QED
        BY <1>4, <3>1, <3>2, <3>3, CommitFacts
    <2>4. CommitDone(t) /\ Index(cur[t]) = Index(e)
      BY <1>0, <1>1, <1>4, <2>3, StatusSteps DEF NextMark, RollbackStatus, SetDone, CommitDone
    <2>5. pc[t] = "commit_done"
      BY <2>4 DEF CommitDone, Goto
    <2>6. Index(e) \notin writers[a]
      BY <1>1, <2>4, <2>5, FreeUntouched
    <2> QED
      BY <1>2, <1>4, <2>1, <2>2, <2>6 DEF ResultInv, ClaimInv
  <1>5. CASE ~(e < nextCommit)
    <2>1. GetCommitCas(t) /\ nextCommit = cur[t]
      <3>1. nextCommit' # nextCommit
        BY <1>0, <1>5
      <3> QED
        BY <1>0, <3>1, CursorsStay
    <2>2. pc[t] = "commit_cas" /\ nextCommit' = nextCommit + 1 /\ UNCHANGED <<first, status>>
      BY <2>1 DEF GetCommitCas, Goto
    <2>3. e = nextCommit
      BY <1>0, <1>5, <2>2
    <2>4. status[Index(e)] = "done"
      BY <2>1, <2>2, <2>3, CommitFacts
    <2> QED
      BY <1>0, <2>2, <2>3, <2>4
  <1> QED
    BY <1>3, <1>4, <1>5

\* Memory is written by the commit that holds the lock of the record.
LEMMA StepMemoryInv ==
  ASSUME RingInv, ResultInv, Sane, NEW t \in Thread, Worker(t)
  PROVE  MemoryInv'
  <1>0. /\ NoDelay /\ MemoryInv /\ PublishOK(t)
        /\ nextCommit \in Nat /\ cur[t] \in Nat
        /\ pc \in [Thread -> Client!Labels \cup TrackerLabels]
        /\ lastCommit \in [Addr -> Int] /\ mem \in [Addr -> Value]
        /\ at \in [Thread -> Addr \cup {NoAddr}]
    BY CursorFacts, TypeFacts DEF ResultInv, ThreadOK
  <1> SUFFICES ASSUME NEW a \in Addr
               PROVE  /\ lastCommit'[a] # -1 =>
                           lastCommit'[a] \in Nat /\ lastCommit'[a] < nextCommit' /\ Writes(lastCommit'[a], a)
                      /\ (\A u \in Thread : ~(pc'[u] = "publish_last" /\ at'[u] = a)) =>
                           mem'[a] = IF lastCommit'[a] = -1 THEN Initial
                                     ELSE Max(StoresOf(lastCommit'[a], a))
    BY DEF MemoryInv, Writes, WritesAt, StoresOf, Position
  <1>1. nextCommit' = nextCommit \/ nextCommit' = nextCommit + 1
    <2>1. nextCommit' = nextCommit \/ (GetCommitCas(t) /\ nextCommit = cur[t])
      BY <1>0, CursorsStay
    <2> QED
      BY <1>0, <2>1 DEF GetCommitCas
  <1>2. CASE CommitLast(t) /\ at[t] = a
    <2>1. /\ pc[t] = "publish_last" /\ lastCommit' = [lastCommit EXCEPT ![a] = cur[t]] /\ UNCHANGED mem
      BY <1>2 DEF CommitLast, Goto
    <2>2. lastCommit'[a] = cur[t] /\ mem'[a] = mem[a]
      BY <1>0, <2>1
    <2>3. Writes(cur[t], a) /\ mem[a] = Max(StoresOf(cur[t], a))
      BY <1>0, <1>2, <2>1 DEF PublishOK
    <2>4. cur[t] < nextCommit
      BY <2>1, CommitFacts DEF CommitLabels, Publishing
    <2> QED
      BY <1>0, <1>1, <2>2, <2>3, <2>4
  <1>3. CASE ~(CommitLast(t) /\ at[t] = a)
    <2>1. lastCommit'[a] = lastCommit[a]
      BY <1>3, LastCommitStays
    <2>2. ASSUME \A u \in Thread : ~(pc'[u] = "publish_last" /\ at'[u] = a)
          PROVE  mem'[a] = mem[a] /\ \A u \in Thread : ~(pc[u] = "publish_last" /\ at[u] = a)
      <3>1. ASSUME NEW u \in Thread, pc[u] = "publish_last", at[u] = a
            PROVE  FALSE
        <4>1. CASE u = t
          BY <1>0, <1>3, <3>1, <4>1, LabelSteps
        <4>2. CASE u # t
          <5>1. pc'[u] = pc[u] /\ at'[u] = at[u]
            BY <1>0, <4>2, OthersStay
          <5> QED
            BY <2>2, <3>1, <5>1
        <4> QED
          BY <4>1, <4>2
      <3>2. CASE UNCHANGED mem
        BY <3>1, <3>2
      <3>3. CASE CommitWrite(t)
        <4>1. PICK b : /\ b = head[Index(cur[t])]
                       /\ mem' = IF Newer(t, b) THEN [mem EXCEPT ![b] = wbuf[b][Index(cur[t])]] ELSE mem
                       /\ at' = [at EXCEPT ![t] = b]
                       /\ pc' = [pc EXCEPT ![t] = IF Newer(t, b) THEN "publish_last" ELSE "publish_clear"]
          BY <3>3 DEF CommitWrite, Goto
        <4>2. Newer(t, b) => b # a
          BY <1>0, <2>2, <4>1
        <4> QED
          BY <1>0, <3>1, <4>1, <4>2
      <3>4. UNCHANGED mem \/ CommitWrite(t)
        BY <1>0, WorkerKinds DEF Tracker, Load, LoadFlag, Store, StoreBuf, LoadEnd, LoadCheck, LoadMem,
           Return, LoadMask, LoadFirst, LoadBuf, StoreFlag, ViolationLast, ViolationFlags, CommitLast,
           CommitClear, CommitReturn, UndoPop, UndoReturn, depVars
      <3> QED
        BY <3>2, <3>3, <3>4
    <2>3. lastCommit[a] # -1 => lastCommit[a] \in Nat /\ lastCommit[a] < nextCommit'
      BY <1>0, <1>1 DEF MemoryInv
    <2> QED
      BY <1>0, <2>1, <2>2, <2>3 DEF MemoryInv
  <1> QED
    BY <1>2, <1>3

-----------------------------------------------------------------------------
(* The invariant is one.                                                    *)

\* A step that changes nothing dooms nobody,
LEMMA StutterDoom ==
  ASSUME UNCHANGED vars, NEW e \in Nat
  PROVE  Doomed(e)' <=> Doomed(e)
  <1> USE DEF vars, epochVars, depVars, depLocals, cursors, locals, flags
  <1>1. \A d \in Nat : Exposed(d)' <=> Exposed(d)
    BY DEF Exposed, Index
  <1>2. \A u \in Thread, a \in Addr : Outstanding(u, a)' <=> Outstanding(u, a)
    BY DEF Outstanding, WritesAt
  <1>3. \A u \in Thread : Misses(u, e)' <=> Misses(u, e)
    BY <1>1, <1>2 DEF Misses, Index
  <1>4. \A u \in Thread : Finds(u, e)' <=> Finds(u, e)
    BY <1>1 DEF Finds, Index
  <1>5. \A u \in Thread : Undoes(u, e)' <=> Undoes(u, e)
    BY DEF Undoes
  <1> QED
    BY <1>3, <1>4, <1>5 DEF Doomed, Threat

\* and keeps the invariant.
LEMMA StutterResultInv == RingInv /\ ResultInv /\ UNCHANGED vars => ResultInv'
  <1> SUFFICES ASSUME RingInv, ResultInv, UNCHANGED vars PROVE ResultInv'
    OBVIOUS
  <1> USE DEF vars, epochVars, depVars, depLocals, cursors, locals, flags
  <1>0. \A t \in Thread : epoch[t] \in Nat
    BY CursorFacts
  <1>1. NoDelay' /\ RunsInv'
    BY DEF ResultInv, NoDelay, RunsInv, Index
  <1>2. ASSUME NEW t \in Thread PROVE ThreadOK(t)'
    <2>1. ThreadOK(t)
      BY DEF ResultInv
    <2>2. Doomed(epoch[t])' <=> Doomed(epoch[t])
      <3>1. PICK e \in Nat : e = epoch[t] /\ e = epoch'[t]
        BY <1>0
      <3> QED
        BY <3>1, StutterDoom
    <2>3. OpOK(t)'
      BY <2>1 DEF ThreadOK, OpOK, WritesAt
    <2>4. OwnFlags(t)'
      BY <2>1 DEF ThreadOK, OwnFlags, Made, WritesAt, Index
    <2>5. OwnValues(t)'
      BY <2>1 DEF ThreadOK, OwnValues, LastBefore, WritesAt, Position, Index
    <2>6. Executing(t)' <=> Executing(t)
      BY DEF Executing, Index
    <2>7. Buffered(epoch[t])' <=> Buffered(epoch[t])
      BY DEF Buffered, Writes, WritesAt, StoresOf, Position, Index
    <2>8. SoundOK(t)'
      BY <2>1, <2>2, <2>6, <2>7 DEF ThreadOK, SoundOK
    <2>9. (OwnEarlier(t)' <=> OwnEarlier(t)) /\ \A c \in Nat : Found(t, c)' <=> Found(t, c)
      BY <2>2 DEF OwnEarlier, Found, WritesAt
    <2>10. ReadsOK(t)' /\ SeenOK(t)'
      BY <2>1, <2>6, <2>9 DEF ThreadOK, LoadOK, ReadsOK, SeenOK, Index, Writes, WritesAt
    <2>11. PickOK(t)' /\ MemOK(t)'
      BY <2>1, <2>6, <2>9 DEF ThreadOK, LoadOK, PickOK, MemOK, Writes, WritesAt
    <2>12. ReadOK(t)'
      BY <2>1, <2>6, <2>9, TypeFacts DEF ThreadOK, LoadOK, ReadOK, StoresOf, Position, Index
    <2>13. PublishOK(t)'
      BY <2>1 DEF ThreadOK, PublishOK, Writes, WritesAt, StoresOf, Position, Index
    <2> QED
      BY <2>3, <2>4, <2>5, <2>8, <2>10, <2>11, <2>12, <2>13 DEF ThreadOK, LoadOK
  <1>3. FlagsInv'
    BY DEF ResultInv, FlagsInv, Index, Writes, WritesAt
  <1>4. DoneInv'
    <2>1. \A e \in Nat : Buffered(e)' <=> Buffered(e)
      BY DEF Buffered, Writes, WritesAt, StoresOf, Position, Index
    <2>2. \A e \in Nat : Doomed(e)' <=> Doomed(e)
      BY StutterDoom
    <2> QED
      BY <2>1, <2>2 DEF ResultInv, DoneInv, Index, Writes, WritesAt
  <1>5. ClaimInv'
    BY DEF ResultInv, ClaimInv, Index, Writes, WritesAt, StoresOf, Position
  <1>6. PastInv'
    BY DEF ResultInv, PastInv, Index, Writes, WritesAt
  <1>7. MemoryInv'
    BY DEF ResultInv, MemoryInv, Writes, WritesAt, StoresOf, Position
  <1> QED
    BY <1>1, <1>2, <1>3, <1>4, <1>5, <1>6, <1>7 DEF ResultInv

\* A step of a worker, or none.
LEMMA StepResultInv == Sane /\ RingInv /\ ListsInv /\ ResultInv /\ [Next]_vars => ResultInv'
  <1> SUFFICES ASSUME Sane, RingInv, ListsInv, ResultInv, [Next]_vars PROVE ResultInv'
    OBVIOUS
  <1>1. RingInv'
    BY StepRingInv
  <1>2. CASE UNCHANGED vars
    BY <1>2, StutterResultInv
  <1>3. ASSUME NEW t \in Thread, Worker(t) PROVE ResultInv'
    <2>1. NoDelay'
      <3>1. NoDelay /\ Next
        BY <1>3 DEF ResultInv, Next
      <3> QED
        BY <3>1, StepNoDelay
    <2>2. \A u \in Thread : ThreadOK(u)'
      BY <1>1, <1>3, OwnOK, OthersOK
    <2>3. RunsInv' /\ FlagsInv' /\ DoneInv' /\ ClaimInv' /\ PastInv' /\ MemoryInv'
      BY <1>3, StepRunsInv, StepFlagsInv, StepDoneInv, StepClaimInv, StepPastInv, StepMemoryInv
    <2> QED
      BY <2>1, <2>2, <2>3 DEF ResultInv
  <1> QED
    BY <1>2, <1>3 DEF Next

\* Nothing was run at first.
LEMMA InitResultInv == Init => ResultInv
  <1> SUFFICES ASSUME Init PROVE ResultInv
    OBVIOUS
  <1>1. /\ pc = [t \in Thread |-> "next"] /\ first = 0 /\ nextCommit = 0 /\ next = 0
        /\ status = [i \in Slot |-> "commit"]
        /\ writers = [a \in Addr |-> {}] /\ lastCommit = [a \in Addr |-> -1]
        /\ mem = [a \in Addr |-> Initial]
        /\ op = [t \in Thread |-> 0] /\ sound = [t \in Thread |-> TRUE]
    BY DEF Init, EpochInit, DependencyInit
  <1>2. NoDelay
    BY InitNoDelay
  <1>3. \A t \in Thread : ThreadOK(t)
    BY <1>1 DEF ThreadOK, OpOK, OwnFlags, OwnValues, SoundOK, LoadOK, ReadsOK, SeenOK, PickOK, ReadOK,
       MemOK, PublishOK, Busy, Tracking, Loading, Client!Rolling, Ending, Publishing
  <1>4. RunsInv /\ DoneInv /\ ClaimInv /\ PastInv
    BY <1>1 DEF RunsInv, DoneInv, ClaimInv, PastInv
  <1>5. FlagsInv /\ MemoryInv
    BY <1>1 DEF FlagsInv, MemoryInv
  <1> QED
    BY <1>2, <1>3, <1>4, <1>5 DEF ResultInv

\* The invariant holds always.
LEMMA AlwaysResultInv ==
  ASSUME Sane
  PROVE  Spec => [](RingInv /\ ListsInv /\ ResultInv)
  BY InitRingInv, StepRingInv, InitListsInv, StepListsInv, InitResultInv, StepResultInv, PTL DEF Spec

\* The invariant implies the property.
LEMMA ResultCommitsRight == RingInv /\ ResultInv => CommitsRight
  <1> SUFFICES ASSUME RingInv, ResultInv, NEW e \in Claimed, NEW a \in Addr
               PROVE  IF StoresOf(e, a) = {}
                      THEN Index(e) \notin writers[a]
                      ELSE \/ Index(e) \in writers[a] /\ wbuf[a][Index(e)] = Max(StoresOf(e, a))
                           \/ lastCommit[a] >= e
    BY DEF CommitsRight
  <1>1. e \in Nat /\ first <= e /\ e < nextCommit /\ e < first + EpochMax /\ status[Index(e)] = "done"
    BY CursorFacts DEF Claimed
  <1>2. StoresOf(e, a) # {} <=> Writes(e, a)
    BY <1>1, StoresOfWrites
  <1>3. StoresOf(e, a) = {} => Index(e) \notin writers[a]
    BY <1>1, <1>2 DEF ResultInv, FlagsInv
  <1>4. Writes(e, a) => \/ Index(e) \in writers[a] /\ wbuf[a][Index(e)] = Max(StoresOf(e, a))
                        \/ lastCommit[a] >= e
    BY <1>1 DEF ResultInv, ClaimInv
  <1> QED
    BY <1>2, <1>3, <1>4

(* An epoch whose commit is claimed has stored what its iteration stores in *)
(* the sequential run and nothing else, for every loop whose executions     *)
(* store where the sequential run does, and without delayed writes: what it *)
(* misread was found by an earlier epoch before that one was done.          *)
THEOREM CommitsAreRight ==
  ASSUME ~DataDependent, ~Delays
  PROVE  Spec => []CommitsRight
  <1>1. Sane
    BY DEF Sane
  <1>2. RingInv /\ ResultInv => CommitsRight
    BY ResultCommitsRight
  <1> QED
    BY <1>1, <1>2, AlwaysResultInv, PTL

-----------------------------------------------------------------------------
(* The end of the loop, whatever executions misread.                        *)

EndLabels == {"stop", "set_done", "next_stop", "commit_cas", "exit", "update_stop_cas"} \cup RollTail

\* No commit passes the last iteration, and once it is over the bound says so: until
\* a rollback that takes it back, or the loop ends.
EndGlobal ==
  /\ stop < first \/ stop > LastEpoch
  /\ nextCommit <= LastEpoch + 1
  /\ LastEpoch < next /\ (nextCommit > LastEpoch \/ status[Index(LastEpoch)] = "done") =>
       stop = LastEpoch + 1

\* What a thread has read of the bound.
EndThread(t) ==
  /\ pc[t] = "stop" => epoch[t] >= LastEpoch
  /\ pc[t] = "set_done" /\ epoch[t] = LastEpoch /\ status[Index(LastEpoch)] = "executing" =>
       stop = LastEpoch + 1
  /\ pc[t] = "commit_cas" => cur[t] <= LastEpoch
  /\ pc[t] = "next_stop" => oldStop[t] < first \/ oldStop[t] > LastEpoch
  /\ pc[t] = "exit" => first = LastEpoch + 1
  /\ pc[t] \in RollTail => next <= start[t]
  /\ pc[t] = "rollback_stop_cas" => start[t] < oldStop[t] /\ newStop[t] < first
  /\ pc[t] = "update_stop_cas" => oldStop[t] < first /\ newStop[t] < first

EndInv == EndGlobal /\ \A t \in Thread : EndThread(t)

\* The types of the bound and of its copies.
LEMMA StopTypes ==
  ASSUME RingInv
  PROVE  /\ stop \in Int /\ oldStop \in [Thread -> Int] /\ newStop \in [Thread -> Int]
         /\ LastEpoch \in Nat /\ Index(LastEpoch) \in Slot
  <1>1. LastEpoch \in Nat
    BY LoopType
  <1>2. Index(LastEpoch) \in Slot
    BY <1>1, IndexInSlot
  <1>3. stop \in Int /\ oldStop \in [Thread -> Int] /\ newStop \in [Thread -> Int]
    BY DEF RingInv, TypeInv, Client!TypeOK
  <1> QED
    BY <1>1, <1>2, <1>3

\* Two threads do not both hold g_next_lock; what the commit has checked.
LEMMA StopFacts ==
  ASSUME RingInv, NEW t \in Thread
  PROVE  /\ pc[t] \in RollTail =>
              \A u \in Thread : u # t => pc[u] \notin {"next_stop", "rollback_scan"} \cup RollTail
         /\ pc[t] \in {"commit_stop", "commit_first", "commit_cas"} =>
              /\ cur[t] <= nextCommit
              /\ cur[t] = nextCommit => cur[t] < next
  <1>1. Client!LockInv /\ Client!CommitInv
    BY DEF RingInv, Client!Inductive
  <1>2. \A u \in Thread : pc[u] \in {"next_stop", "rollback_scan"} \cup RollTail => nextLock = u
    <2> TAKE u \in Thread
    <2>1. pc[u] \in {"next_stop", "rollback_scan"} \cup RollTail =>
            Phase(pc[u]) = pc[u] /\ pc[u] \in Client!NextHolds
      BY DEF RollTail, Phase, Tracking, Loading, Publishing, Client!NextHolds, Client!RollbackHolds,
         Client!Rolling
    <2> QED
      BY <1>1, <2>1 DEF Client!LockInv
  <1>3. pc[t] \in {"commit_stop", "commit_first", "commit_cas"} => Phase(pc[t]) = pc[t]
    BY DEF Phase, Tracking, Loading, Publishing
  <1> QED
    BY <1>1, <1>2, <1>3 DEF RollTail, Client!CommitInv, Client!Unblocked, Client!FoundDone, Client!Looking

\* The steps that are not of epoch.c.
LEMMA AsideFrame ==
  ASSUME RingInv, NEW t \in Thread, Executor(t) \/ Tracker(t) \/ Drain(t)
  PROVE  /\ UNCHANGED <<status, first, next, nextCommit, stop, epoch, cur, oldStop, newStop>>
         /\ \A u \in Thread : pc'[u] \in EndLabels =>
              (pc'[u] = pc[u] /\ start'[u] = start[u]) \/ (Return(t) /\ u = t)
  <1>0. pc \in [Thread -> Client!Labels \cup TrackerLabels] /\ start \in [Thread -> Nat]
    BY CursorFacts
  <1> USE DEF epochData, cursors, locals, EndLabels, RollTail, Goto
  <1>1. CASE Load(t) \/ Store(t) \/ \E a \in Addr : StoreAstray(t, a)
    BY <1>0, <1>1 DEF Load, LoadFlag, Store, StoreAstray, StoreBuf
  <1>2. CASE StoreNowhere(t)
    BY <1>0, <1>2 DEF StoreNowhere, epochVars
  <1>3. CASE LoadEnd(t)
    BY <1>0, <1>3 DEF LoadEnd, LoadCheck, LoadMem
  <1>4. CASE Return(t)
    BY <1>0, <1>4 DEF Return
  <1>5. CASE LoadMask(t) \/ LoadFirst(t) \/ LoadBuf(t) \/ StoreFlag(t) \/ ViolationLast(t)
    BY <1>0, <1>5 DEF LoadMask, LoadFirst, LoadBuf, StoreFlag, ViolationLast
  <1>6. CASE ViolationFlags(t)
    BY <1>0, <1>6 DEF ViolationFlags
  <1>7. CASE CommitWrite(t) \/ CommitLast(t) \/ CommitClear(t) \/ CommitReturn(t)
    BY <1>0, <1>7 DEF CommitWrite, CommitLast, CommitClear, CommitReturn
  <1>8. CASE UndoPop(t) \/ UndoReturn(t) \/ Drain(t)
    BY <1>0, <1>8 DEF UndoPop, UndoReturn, Drain
  <1> QED
    BY <1>1, <1>2, <1>3, <1>4, <1>5, <1>6, <1>7, <1>8 DEF Executor, Tracker

\* They leave the bound alone; the last iteration returns yarn_ret_break.
LEMMA AsideEndInv ==
  ASSUME RingInv, EndInv, NEW t \in Thread, Executor(t) \/ Tracker(t) \/ Drain(t)
  PROVE  EndInv'
  <1>0. /\ UNCHANGED <<status, first, next, nextCommit, stop, epoch, cur, oldStop, newStop>>
        /\ \A u \in Thread : pc'[u] \in EndLabels =>
              (pc'[u] = pc[u] /\ start'[u] = start[u]) \/ (Return(t) /\ u = t)
    BY AsideFrame
  <1>1. EndGlobal'
    BY <1>0 DEF EndInv, EndGlobal, Index, LastEpoch
  <1>2. ASSUME NEW u \in Thread
        PROVE  EndThread(u)'
    <2>1. CASE pc'[u] = pc[u] /\ start'[u] = start[u]
      BY <1>0, <2>1 DEF EndInv, EndThread, Index, LastEpoch
    <2>2. CASE Return(t) /\ u = t
      <3>1. /\ pc'[u] = IF epoch[u] >= LastEpoch THEN "stop" ELSE "set_done"
            /\ epoch[u] \in Nat /\ LastEpoch \in Nat
        BY <2>2, CursorFacts, StopTypes DEF Return, Goto
      <3> QED
        BY <1>0, <3>1 DEF EndThread, RollTail, LastEpoch, Index
    <2>3. CASE pc'[u] \notin EndLabels
      BY <2>3 DEF EndThread, EndLabels, RollTail
    <2> QED
      BY <1>0, <2>1, <2>2, <2>3
  <1> QED
    BY <1>1, <1>2 DEF EndInv

\* A step of epoch.c: what the other threads see of it.
EndFrame(t) ==
  /\ \A u \in Thread : u # t =>
       UNCHANGED <<pc[u], epoch[u], start[u], cur[u], oldStop[u], newStop[u]>>
  /\ first' = first \/ (FirstCas(t) /\ first = cur[t])
  /\ nextCommit' = nextCommit \/ (GetCommitCas(t) /\ nextCommit = cur[t])
  /\ next' = next \/ NextClaim(t) \/ RollbackNext(t)
  /\ status' = status \/ NextMark(t) \/ RollbackStatus(t) \/ SetDone(t) \/ CommitDone(t)
  /\ stop' = stop \/ Stop(t)
       \/ ((RollbackStopCas(t) \/ UpdateStopCas(t)) /\ stop = oldStop[t] /\ stop' = newStop[t])

\* A step of epoch.c is one of these.
LEMMA RingEndFrame ==
  ASSUME RingInv, NEW t \in Thread, Ring(t)
  PROVE  EndFrame(t)
  <1>0. /\ pc \in [Thread -> Client!Labels \cup TrackerLabels]
        /\ epoch \in [Thread -> Nat] /\ start \in [Thread -> Nat] /\ cur \in [Thread -> Nat]
        /\ oldStop \in [Thread -> Int] /\ newStop \in [Thread -> Int]
    BY CursorFacts, StopTypes
  <1> USE DEF cursors, locals, Forget, Goto, EndFrame
  <1>1. CASE NextEnter(t) \/ NextLook(t) \/ NextStall(t) \/ NextFinish(t) \/ NextClaim(t)
    BY <1>0, <1>1 DEF NextEnter, NextLook, NextStall, NextFinish, NextClaim
  <1>2. CASE NextMark(t) \/ RollbackDone(t) \/ RollbackLock(t) \/ RollbackEnter(t)
             \/ RollbackSkip(t) \/ RollbackStatus(t)
    BY <1>0, <1>2 DEF NextMark, RollbackDone, RollbackLock, RollbackEnter, RollbackSkip, RollbackStatus
  <1>3. CASE RollbackFlag(t) \/ RollbackNext(t) \/ RollbackStopKeep(t) \/ RollbackStopRead(t)
             \/ RollbackExit(t)
    BY <1>0, <1>3 DEF RollbackFlag, RollbackNext, RollbackStopKeep, RollbackStopRead, RollbackExit
  <1>4. CASE RollbackStopCas(t) \/ UpdateStopCas(t)
    BY <1>0, <1>4 DEF RollbackStopCas, UpdateStopCas, StopCas
  <1>5. CASE Stop(t) \/ SetDone(t) \/ GetCommit(t) \/ GetCommitNone(t) \/ GetCommitCheck(t)
             \/ GetCommitCas(t)
    BY <1>0, <1>5 DEF Stop, SetDone, GetCommit, GetCommitNone, GetCommitCheck, GetCommitCas
  <1>6. CASE CommitDone(t) \/ FirstRead(t) \/ FirstCheck(t) \/ FirstCas(t)
             \/ UpdateStopKeep(t) \/ UpdateStopRead(t) \/ Signal(t)
    BY <1>0, <1>6 DEF CommitDone, FirstRead, FirstCheck, FirstCas, UpdateStopKeep, UpdateStopRead,
       Signal
  <1> QED
    BY <1>1, <1>2, <1>3, <1>4, <1>5, <1>6 DEF Ring

\* What the thread itself has read, at the labels where it matters.
LEMMA OwnEndThread ==
  ASSUME RingInv, EndInv, NEW t \in Thread, Ring(t), EndGlobal'
  PROVE  EndThread(t)'
  <1>0. /\ pc \in [Thread -> Client!Labels \cup TrackerLabels]
        /\ epoch[t] \in Nat /\ start \in [Thread -> Nat] /\ cur \in [Thread -> Nat]
        /\ oldStop \in [Thread -> Int] /\ newStop \in [Thread -> Int]
        /\ first \in Nat /\ next \in Nat /\ nextCommit \in Nat /\ stop \in Int
        /\ first <= nextCommit /\ nextCommit <= next
        /\ LastEpoch \in Nat
        /\ EndThread(t) /\ EndGlobal
    BY CursorFacts, StopTypes DEF EndInv
  <1> USE DEF Goto, EndThread, RollTail, LastEpoch, cursors, locals, IsStopSet
  <1>1. CASE NextLook(t)
    BY <1>0, <1>1 DEF NextLook, EndGlobal
  <1>2. CASE NextFinish(t)
    BY <1>0, <1>2 DEF NextFinish, Blocked, EndGlobal
  <1>3. CASE RollbackNext(t)
    BY <1>0, <1>3 DEF RollbackNext
  <1>4. CASE RollbackStopKeep(t) \/ RollbackStopRead(t)
    BY <1>0, <1>4 DEF RollbackStopKeep, RollbackStopRead
  <1>5. CASE RollbackStopCas(t) \/ UpdateStopCas(t)
    BY <1>0, <1>5 DEF RollbackStopCas, UpdateStopCas, StopCas
  <1>6. CASE Stop(t)
    BY <1>0, <1>6 DEF Stop, EndGlobal
  <1>7. CASE GetCommitCheck(t)
    <2>1. CASE pc'[t] = "commit_cas"
      <3>1. /\ pc[t] \in {"commit_stop", "commit_first"}
            /\ pc[t] = "commit_stop" => stop # cur[t]
            /\ pc[t] = "commit_first" => ~IsStopSet(cur[t])
            /\ UNCHANGED <<cur, first, next, nextCommit, stop>>
        BY <1>0, <1>7, <2>1 DEF GetCommitCheck
      <3>2. cur[t] <= nextCommit /\ (cur[t] = nextCommit => cur[t] < next)
        BY <3>1, StopFacts
      <3>3. cur[t] = LastEpoch + 1 => FALSE
        <4> SUFFICES ASSUME cur[t] = LastEpoch + 1 PROVE FALSE
          OBVIOUS
        <4>1. nextCommit = LastEpoch + 1 /\ stop = LastEpoch + 1
          BY <1>0, <3>2 DEF EndGlobal
        <4>2. ~(cur[t] < first)
          BY <1>0, <4>1
        <4>3. cur[t] >= first
          BY <1>0, <4>2
        <4> QED
          BY <3>1, <4>1, <4>3
      <3>4. cur[t] <= LastEpoch
        BY <1>0, <3>2, <3>3 DEF EndGlobal
      <3> QED
        BY <2>1, <3>1, <3>4
    <2>2. CASE pc'[t] # "commit_cas"
      BY <1>0, <1>7, <2>2 DEF GetCommitCheck
    <2> QED
      BY <2>1, <2>2
  <1>8. CASE UpdateStopRead(t)
    BY <1>0, <1>8 DEF UpdateStopRead
  <1>9. CASE NextEnter(t) \/ NextStall(t) \/ NextClaim(t) \/ NextMark(t) \/ RollbackDone(t)
    BY <1>0, <1>9 DEF NextEnter, NextStall, NextClaim, NextMark, RollbackDone
  <1>10. CASE RollbackLock(t) \/ RollbackEnter(t) \/ RollbackSkip(t) \/ RollbackStatus(t) \/ RollbackFlag(t)
    BY <1>0, <1>10 DEF RollbackLock, RollbackEnter, RollbackSkip, RollbackStatus, RollbackFlag
  <1>11. CASE RollbackExit(t) \/ SetDone(t) \/ GetCommit(t) \/ GetCommitNone(t) \/ GetCommitCas(t)
    BY <1>0, <1>11 DEF RollbackExit, SetDone, GetCommit, GetCommitNone, GetCommitCas
  <1>12. CASE CommitDone(t) \/ FirstRead(t) \/ FirstCheck(t) \/ FirstCas(t) \/ UpdateStopKeep(t) \/ Signal(t)
    BY <1>0, <1>12 DEF CommitDone, FirstRead, FirstCheck, FirstCas, UpdateStopKeep, Signal
  <1> QED
    BY <1>1, <1>2, <1>3, <1>4, <1>5, <1>6, <1>7, <1>8, <1>9, <1>10, <1>11, <1>12 DEF Ring

\* The last iteration is done only when its thread has set the bound.
LEMMA LastDone ==
  ASSUME RingInv, EndInv, NEW t \in Thread, Ring(t), EndFrame(t),
         LastEpoch < next', nextCommit' > LastEpoch \/ status'[Index(LastEpoch)] = "done",
         next' = next \/ ~RollbackNext(t)
  PROVE  LastEpoch < next /\ stop = LastEpoch + 1
  <1>0. /\ epoch[t] \in Nat /\ cur[t] \in Nat
        /\ first \in Nat /\ next \in Nat /\ nextCommit \in Nat /\ stop \in Int /\ EpochMax \in Nat
        /\ first <= nextCommit /\ nextCommit <= next /\ next <= first + EpochMax
        /\ LastEpoch \in Nat /\ Index(LastEpoch) \in Slot /\ status \in [Slot -> Status]
        /\ Index(epoch[t]) \in Slot /\ Index(cur[t]) \in Slot
        /\ EndThread(t) /\ EndGlobal
    BY CursorFacts, StopTypes, IndexInSlot DEF EndInv
  <1>1. CASE NextClaim(t)
    <2>1. next' = next + 1 /\ UNCHANGED <<status, nextCommit>> /\ pc[t] = "next_stop"
      BY <1>1 DEF NextClaim, Goto
    <2>2. CASE LastEpoch < next
      BY <1>0, <2>1, <2>2 DEF EndGlobal
    <2>3. CASE ~(LastEpoch < next)
      <3>1. LastEpoch = next /\ ~(nextCommit > LastEpoch)
        BY <1>0, <2>1, <2>3
      <3>2. next < first + EpochMax
        BY <2>1, RunFacts
      <3>3. status[Index(LastEpoch)] # "done"
        BY <1>0, <3>1, <3>2, SlotFacts DEF RolledBack
      <3> QED
        BY <2>1, <3>1, <3>3
    <2> QED
      BY <2>2, <2>3
  <1>2. CASE GetCommitCas(t) /\ nextCommit = cur[t]
    <2>1. /\ pc[t] = "commit_cas" /\ nextCommit' = nextCommit + 1 /\ UNCHANGED <<status, next>>
      BY <1>2 DEF GetCommitCas, Goto
    <2>2. status[Index(nextCommit)] = "done"
      BY <1>2, <2>1, CommitFacts
    <2>3. nextCommit > LastEpoch \/ status[Index(LastEpoch)] = "done"
      <3>1. nextCommit > LastEpoch \/ nextCommit = LastEpoch \/ nextCommit + 1 <= LastEpoch
        BY <1>0
      <3> QED
        BY <1>0, <2>1, <2>2, <3>1
    <2> QED
      BY <1>0, <2>1, <2>3 DEF EndGlobal
  <1>3. CASE SetDone(t)
    <2>1. /\ pc[t] = "set_done" /\ UNCHANGED <<next, nextCommit>>
          /\ status' = [status EXCEPT ![Index(epoch[t])] =
                          IF status[Index(epoch[t])] = "executing" THEN "done" ELSE "rollback"]
      BY <1>3 DEF SetDone, Goto, cursors
    <2>2. CASE nextCommit > LastEpoch \/ status[Index(LastEpoch)] = "done"
      BY <1>0, <2>1, <2>2 DEF EndGlobal
    <2>3. CASE ~(nextCommit > LastEpoch) /\ status[Index(LastEpoch)] # "done"
      <3>1. Index(epoch[t]) = Index(LastEpoch) /\ status[Index(LastEpoch)] = "executing"
        BY <1>0, <2>1, <2>3
      <3>2. first <= epoch[t] /\ epoch[t] < first + EpochMax
        BY <2>1, RunFacts DEF RunLabels
      <3>3. epoch[t] = LastEpoch
        BY <1>0, <2>1, <2>3, <3>1, <3>2, SameSlot
      <3> QED
        BY <1>0, <2>1, <3>1, <3>3 DEF EndThread
    <2> QED
      BY <2>2, <2>3
  <1>4. CASE ~NextClaim(t) /\ ~(GetCommitCas(t) /\ nextCommit = cur[t]) /\ ~SetDone(t)
    <2>1. next' = next /\ nextCommit' = nextCommit
      BY <1>4 DEF EndFrame
    <2>2. status'[Index(LastEpoch)] = "done" => status[Index(LastEpoch)] = "done"
      BY <1>0, <1>4 DEF EndFrame, NextMark, RollbackStatus, CommitDone
    <2> QED
      BY <1>0, <2>1, <2>2 DEF EndGlobal
  <1> QED
    BY <1>1, <1>2, <1>3, <1>4

\* The bound after a step, if it was LastEpoch + 1.
LEMMA StopStays ==
  ASSUME RingInv, EndInv, NEW t \in Thread, Ring(t), EndFrame(t), stop = LastEpoch + 1
  PROVE  \/ stop' = LastEpoch + 1
         \/ RollbackStopCas(t) /\ next <= LastEpoch /\ UNCHANGED <<next, status>>
  <1>0. /\ epoch[t] \in Nat /\ start[t] \in Nat /\ oldStop[t] \in Int
        /\ first \in Nat /\ next \in Nat /\ nextCommit \in Nat /\ first <= nextCommit
        /\ LastEpoch \in Nat
        /\ EndThread(t) /\ EndGlobal
    BY CursorFacts, StopTypes DEF EndInv
  <1>1. CASE Stop(t)
    <2>1. pc[t] = "stop" /\ epoch[t] >= LastEpoch /\ stop >= first
      BY <1>0, <1>1 DEF Stop, Goto, EndThread, EndGlobal
    <2> QED
      BY <1>0, <1>1, <2>1 DEF Stop, IsStopSet
  <1>2. CASE RollbackStopCas(t) /\ stop = oldStop[t]
    <2>1. pc[t] = "rollback_stop_cas" /\ UNCHANGED <<next, status>>
      BY <1>2 DEF RollbackStopCas, StopCas, Goto, cursors
    <2>2. next <= start[t] /\ start[t] < oldStop[t]
      BY <1>0, <2>1 DEF EndThread, RollTail
    <2> QED
      BY <1>0, <1>2, <2>1, <2>2
  <1>3. CASE UpdateStopCas(t) /\ stop = oldStop[t]
    <2>1. oldStop[t] < first
      BY <1>0, <1>3 DEF UpdateStopCas, StopCas, Goto, EndThread
    <2> QED
      BY <1>0, <1>3, <2>1 DEF EndGlobal
  <1>4. CASE stop' = stop
    BY <1>4
  <1> QED
    BY <1>1, <1>2, <1>3, <1>4 DEF EndFrame

\* The bound survives every step until the rollback of an earlier epoch.
LEMMA RingEndGlobal ==
  ASSUME RingInv, EndInv, NEW t \in Thread, Ring(t)
  PROVE  EndGlobal'
  <1>0. /\ epoch[t] \in Nat /\ cur[t] \in Nat /\ newStop[t] \in Int
        /\ first \in Nat /\ next \in Nat /\ nextCommit \in Nat /\ stop \in Int
        /\ LastEpoch \in Nat
        /\ EndThread(t) /\ EndGlobal /\ EndFrame(t)
    BY CursorFacts, StopTypes, RingEndFrame DEF EndInv
  <1>1. first' \in Nat /\ first <= first'
    BY <1>0 DEF EndFrame, FirstCas
  <1>2. stop' < first' \/ stop' > LastEpoch
    <2>1. CASE stop' = stop
      BY <1>0, <1>1, <2>1 DEF EndGlobal
    <2>2. CASE Stop(t)
      <3>1. pc[t] = "stop" /\ epoch[t] >= LastEpoch
        BY <1>0, <2>2 DEF Stop, Goto, EndThread
      <3> QED
        BY <1>0, <1>1, <2>2, <3>1 DEF Stop, IsStopSet, EndGlobal
    <2>3. CASE (RollbackStopCas(t) \/ UpdateStopCas(t)) /\ stop' = newStop[t]
      <3>1. newStop[t] < first
        BY <1>0, <2>3 DEF RollbackStopCas, UpdateStopCas, StopCas, Goto, EndThread
      <3> QED
        BY <1>0, <1>1, <2>3, <3>1
    <2> QED
      BY <1>0, <2>1, <2>2, <2>3 DEF EndFrame
  <1>3. nextCommit' <= LastEpoch + 1
    <2>1. CASE nextCommit' = nextCommit
      BY <1>0, <2>1 DEF EndGlobal
    <2>2. CASE GetCommitCas(t) /\ nextCommit = cur[t]
      <3>1. cur[t] <= LastEpoch /\ nextCommit' = cur[t] + 1
        BY <1>0, <2>2 DEF GetCommitCas, Goto, EndThread
      <3> QED
        BY <1>0, <3>1
    <2> QED
      BY <1>0, <2>1, <2>2 DEF EndFrame
  <1>4. ASSUME LastEpoch < next', nextCommit' > LastEpoch \/ status'[Index(LastEpoch)] = "done"
        PROVE  stop' = LastEpoch + 1
    <2>1. CASE RollbackNext(t) /\ next' # next
      <3>1. /\ pc[t] = "rollback_scan" /\ next' = start[t] /\ ~(next <= start[t]) /\ start[t] \in Nat
            /\ UNCHANGED <<status, nextCommit, stop>>
        BY <2>1, CursorFacts DEF RollbackNext, Goto
      <3> QED
        BY <1>0, <1>4, <3>1 DEF EndGlobal
    <2>2. CASE next' = next \/ ~RollbackNext(t)
      <3>1. LastEpoch < next /\ stop = LastEpoch + 1
        BY <1>0, <1>4, <2>2, LastDone
      <3>2. ~(next <= LastEpoch)
        BY <1>0, <3>1
      <3> QED
        BY <1>0, <3>1, <3>2, StopStays
    <2> QED
      BY <2>1, <2>2
  <1> QED
    BY <1>2, <1>3, <1>4 DEF EndGlobal, Index, LastEpoch

\* What another thread has read stays true.
LEMMA OtherEndThread ==
  ASSUME RingInv, EndInv, NEW t \in Thread, Ring(t), NEW u \in Thread, u # t
  PROVE  EndThread(u)'
  <1>0. /\ epoch[u] \in Nat /\ cur[t] \in Nat /\ oldStop[u] \in Int /\ newStop[u] \in Int
        /\ first \in Nat /\ next \in Nat /\ nextCommit \in Nat /\ stop \in Int
        /\ LastEpoch \in Nat /\ Index(LastEpoch) \in Slot /\ status \in [Slot -> Status]
        /\ Index(epoch[t]) \in Slot /\ Index(cur[t]) \in Slot
        /\ EndThread(u) /\ EndGlobal /\ EndFrame(t)
    BY CursorFacts, StopTypes, IndexInSlot, RingEndFrame DEF EndInv
  <1>1. UNCHANGED <<pc[u], epoch[u], start[u], cur[u], oldStop[u], newStop[u]>>
    BY <1>0 DEF EndFrame
  <1>2. first' \in Nat /\ first <= first'
    BY <1>0 DEF EndFrame, FirstCas
  <1>3. ASSUME pc[u] = "set_done", epoch[u] = LastEpoch, status'[Index(LastEpoch)] = "executing"
        PROVE  stop' = LastEpoch + 1
    <2>1. status[Index(LastEpoch)] = "executing"
      <3> SUFFICES ASSUME status[Index(LastEpoch)] # "executing" PROVE FALSE
        OBVIOUS
      <3>1. NextMark(t) /\ Index(epoch[t]) = Index(LastEpoch)
        BY <1>0, <1>3 DEF EndFrame, NextMark, RollbackStatus, SetDone, CommitDone
      <3>2. Owns(t, Index(LastEpoch)) /\ Owns(u, Index(LastEpoch))
        BY <1>3, <3>1 DEF Owns, RunLabels, NextMark, Goto
      <3> QED
        BY <3>2, OneOwner
    <2>2. stop = LastEpoch + 1
      BY <1>0, <1>3, <2>1 DEF EndThread
    <2>3. LastEpoch < next
      BY <1>3, <2>1, RunFacts DEF RunLabels
    <2>4. ~(next <= LastEpoch)
      BY <1>0, <2>3
    <2> QED
      BY <1>0, <2>2, <2>4, StopStays
  <1>4. ASSUME pc[u] = "exit"
        PROVE  first' = LastEpoch + 1
    <2>1. first = LastEpoch + 1
      BY <1>0, <1>4 DEF EndThread
    <2>2. FirstCas(t) => cur[t] < nextCommit
      BY CommitFacts DEF FirstCas, Goto
    <2> QED
      BY <1>0, <2>1, <2>2 DEF EndFrame, EndGlobal
  <1>5. ASSUME pc[u] \in RollTail
        PROVE  next' <= start[u]
    <2>1. pc[t] \notin {"next_stop", "rollback_scan"}
      BY <1>5, StopFacts
    <2>2. next' = next
      BY <1>0, <2>1 DEF EndFrame, NextClaim, RollbackNext, Goto
    <2> QED
      BY <1>0, <1>5, <2>2 DEF EndThread
  <1> QED
    BY <1>0, <1>1, <1>2, <1>3, <1>4, <1>5 DEF EndThread, Index, LastEpoch

\* The steps, put together.
LEMMA StepEndInv == RingInv /\ EndInv /\ [Next]_vars => EndInv'
  <1> SUFFICES ASSUME RingInv, EndInv, [Next]_vars PROVE EndInv'
    OBVIOUS
  <1>1. CASE UNCHANGED vars
    BY <1>1 DEF vars, epochVars, cursors, locals, EndInv, EndGlobal, EndThread, Index
  <1>2. ASSUME NEW t \in Thread, Ring(t) PROVE EndInv'
    <2>1. EndGlobal'
      BY <1>2, RingEndGlobal
    <2>2. EndThread(t)'
      BY <1>2, <2>1, OwnEndThread
    <2>3. \A u \in Thread : u # t => EndThread(u)'
      BY <1>2, OtherEndThread
    <2> QED
      BY <2>1, <2>2, <2>3 DEF EndInv
  <1>3. ASSUME NEW t \in Thread, Worker(t) PROVE EndInv'
    <2>1. Executor(t) \/ Tracker(t) \/ Drain(t) \/ Ring(t)
      BY <1>3 DEF Worker
    <2> QED
      BY <1>2, <2>1, AsideEndInv
  <1> QED
    BY <1>1, <1>3 DEF Next

\* No bound is set at first.
LEMMA InitEndInv == Init => EndInv
  <1> SUFFICES ASSUME Init PROVE EndInv
    OBVIOUS
  <1>1. /\ pc = [t \in Thread |-> "next"] /\ first = 0 /\ nextCommit = 0 /\ next = 0 /\ stop = -1
        /\ LastEpoch \in Nat
    BY LoopType DEF Init, EpochInit
  <1>2. EndGlobal
    BY <1>1 DEF EndGlobal
  <1>3. \A t \in Thread : EndThread(t)
    BY <1>1 DEF EndThread, RollTail
  <1> QED
    BY <1>2, <1>3 DEF EndInv

\* The invariant of the end holds always.
LEMMA AlwaysEndInv == Spec => [](RingInv /\ EndInv)
  BY InitRingInv, StepRingInv, InitEndInv, StepEndInv, PTL DEF Spec

\* When the loop is over, every store of the sequential run is in memory.
LEMMA ResultIsSequential == RingInv /\ ResultInv /\ EndInv => SequentialResult
  <1> SUFFICES ASSUME RingInv, ResultInv, EndInv, Finished, NEW a \in Addr
               PROVE  mem[a] = ValueAfter(a, LastEpoch)
    BY DEF SequentialResult
  <1>0. /\ LastEpoch \in Nat /\ first \in Nat /\ nextCommit \in Nat /\ first <= nextCommit
        /\ lastCommit[a] \in Int
    BY CursorFacts, TypeFacts, StopTypes
  <1>1. first = LastEpoch + 1 /\ nextCommit = LastEpoch + 1
    <2>1. PICK t \in Thread : pc[t] = "exit"
      BY ThreadAssumption DEF Finished
    <2> QED
      BY <1>0, <2>1 DEF EndInv, EndGlobal, EndThread
  <1>2. \A e \in Nat : e <= LastEpoch /\ Writes(e, a) => lastCommit[a] >= e
    BY <1>0, <1>1 DEF ResultInv, PastInv
  <1>3. /\ lastCommit[a] # -1 =>
             lastCommit[a] \in Nat /\ lastCommit[a] < LastEpoch + 1 /\ Writes(lastCommit[a], a)
        /\ mem[a] = IF lastCommit[a] = -1 THEN Initial ELSE Max(StoresOf(lastCommit[a], a))
    BY <1>1 DEF ResultInv, MemoryInv, Finished
  <1>4. ValueAfter(a, LastEpoch) = ValueAt(a, LastEpoch + 1, 1)
    BY DEF ValueAfter
  <1>5. LastEpoch + 1 \in Nat /\ 1 \in Nat /\ 1 <= 1 /\ \A k \in Nat : k < 1 => ~WritesAt(LastEpoch + 1, a, k)
    <2>1. \A k \in Nat : k < 1 => ~(k \in 1 .. Len(Body(LastEpoch + 1)))
      OBVIOUS
    <2> QED
      BY <1>0, <2>1 DEF WritesAt
  <1>6. CASE lastCommit[a] = -1
    <2>1. \A c \in Nat : c < LastEpoch + 1 => ~Writes(c, a)
      BY <1>0, <1>2, <1>6
    <2>2. ValueAt(a, LastEpoch + 1, 1) = Initial
      BY <1>5, <2>1, InitialValue
    <2> QED
      BY <1>3, <1>4, <1>6, <2>2
  <1>7. CASE lastCommit[a] # -1
    <2>1. PICK c \in Nat : c = lastCommit[a] /\ c < LastEpoch + 1 /\ Writes(c, a)
      BY <1>3, <1>7
    <2>2. \A d \in Nat : c < d /\ d < LastEpoch + 1 => ~Writes(d, a)
      BY <1>0, <1>2, <2>1
    <2>3. ValueAt(a, LastEpoch + 1, 1) = Max(StoresOf(c, a))
      BY <1>5, <2>1, <2>2, EarlierValue
    <2> QED
      BY <1>3, <1>4, <1>7, <2>1, <2>3
  <1> QED
    BY <1>6, <1>7

(* Once every worker is done, memory is what the sequential loop leaves: no *)
(* store is lost, none comes late, and none that was rolled back stays.     *)
(* This is so for every ring, number of threads and schedule, and for every *)
(* loop whose executions store where the sequential run does, without       *)
(* delayed writes: it is false with either (MCYarnStray and MCYarnDelay).   *)
THEOREM ResultRight ==
  ASSUME ~DataDependent, ~Delays
  PROVE  Spec => []SequentialResult
  <1>1. Sane
    BY DEF Sane
  <1>2. RingInv /\ ResultInv /\ EndInv => SequentialResult
    BY ResultIsSequential
  <1> QED
    BY <1>1, <1>2, AlwaysResultInv, AlwaysEndInv, PTL

-----------------------------------------------------------------------------
(* The loop, one iteration at a time.                                       *)

\* The memory that a reader can rely on.
Memory(a) == IF Pending(a) = {} THEN mem[a] ELSE wbuf[a][Index(Max(Pending(a)))]

\* It holds what the iterations before iteration n store in the sequential run.
MemoryIs(n) == \A a \in Addr : Memory(a) = ValueAt(a, n, 1)

\* One iteration of the sequential run.
LEMMA ValueStep ==
  ASSUME NEW n \in Nat, NEW a \in Addr
  PROVE  /\ ValueAt(a, 0, 1) = Initial
         /\ ValueAt(a, n + 1, 1) = IF StoresOf(n, a) = {} THEN ValueAt(a, n, 1) ELSE Max(StoresOf(n, a))
  <1>0. n + 1 \in Nat /\ 0 \in Nat /\ 1 \in Nat /\ 1 <= 1
    OBVIOUS
  <1>1. ASSUME NEW e \in Nat
        PROVE  \A k \in Nat : k < 1 => ~WritesAt(e, a, k)
    <2>1. \A k \in Nat : k < 1 => ~(k \in 1 .. Len(Body(e)))
      OBVIOUS
    <2> QED
      BY <2>1 DEF WritesAt
  <1>2. ValueAt(a, 0, 1) = Initial
    <2>1. \A c \in Nat : c < 0 => ~Writes(c, a)
      OBVIOUS
    <2> QED
      BY <1>0, <1>1, <2>1, InitialValue
  <1>3. CASE Writes(n, a)
    <2>1. n < n + 1 /\ \A d \in Nat : n < d /\ d < n + 1 => ~Writes(d, a)
      OBVIOUS
    <2>2. ValueAt(a, n + 1, 1) = Max(StoresOf(n, a))
      BY <1>0, <1>1, <1>3, <2>1, EarlierValue
    <2> QED
      BY <1>2, <1>3, <2>2, StoresOfWrites
  <1>4. CASE ~Writes(n, a)
    <2>0. StoresOf(n, a) = {}
      BY <1>4, StoresOfWrites
    <2>1. CASE \A c \in Nat : c < n => ~Writes(c, a)
      <3>1. \A c \in Nat : c < n + 1 => ~Writes(c, a)
        <4>1. \A c \in Nat : c < n + 1 => c < n \/ c = n
          OBVIOUS
        <4> QED
          BY <1>4, <2>1, <4>1
      <3>2. ValueAt(a, n + 1, 1) = Initial
        BY <1>0, <1>1, <3>1, InitialValue
      <3>3. ValueAt(a, n, 1) = Initial
        BY <1>0, <1>1, <2>1, InitialValue
      <3> QED
        BY <1>2, <2>0, <3>2, <3>3
    <2>2. CASE \E c \in Nat : c < n /\ Writes(c, a)
      <3> DEFINE T == {c \in Nat : c < n /\ Writes(c, a)}
      <3>1. PICK c \in T : \A d \in T : d <= c
        <4>1. T \subseteq Int /\ T # {} /\ \A d \in T : d <= n
          BY <2>2
        <4>2. n \in Int
          OBVIOUS
        <4> HIDE DEF T
        <4> QED
          BY <4>1, <4>2, Greatest
      <3>2. /\ c \in Nat /\ c < n /\ c < n + 1 /\ Writes(c, a)
            /\ \A d \in Nat : c < d /\ d < n => ~Writes(d, a)
        BY <3>1
      <3>3. \A d \in Nat : c < d /\ d < n + 1 => ~Writes(d, a)
        <4>1. \A d \in Nat : d < n + 1 => d < n \/ d = n
          OBVIOUS
        <4> QED
          BY <1>4, <3>2, <4>1
      <3> HIDE DEF T
      <3>4. ValueAt(a, n + 1, 1) = Max(StoresOf(c, a))
        BY <1>0, <1>1, <3>2, <3>3, EarlierValue
      <3>5. ValueAt(a, n, 1) = Max(StoresOf(c, a))
        BY <1>0, <1>1, <3>2, EarlierValue
      <3> QED
        BY <1>2, <2>0, <3>4, <3>5
    <2> QED
      BY <2>1, <2>2
  <1> QED
    BY <1>3, <1>4

\* A value that is pending is that of the latest iteration that stores there.
LEMMA MemoryRelies == RingInv /\ ResultInv => MemoryIs(nextCommit)
  <1> SUFFICES ASSUME RingInv, ResultInv, NEW a \in Addr
               PROVE  Memory(a) = ValueAt(a, nextCommit, 1)
    BY DEF MemoryIs
  <1>0. /\ first \in Nat /\ nextCommit \in Nat /\ next \in Nat /\ EpochMax \in Nat
        /\ first <= nextCommit /\ nextCommit <= next /\ next <= first + EpochMax
        /\ lastCommit[a] \in Int /\ status \in [Slot -> Status]
    BY CursorFacts, TypeFacts
  <1>1. Pending(a) = {e \in Nat : /\ first <= e /\ e < nextCommit /\ status[Index(e)] = "done"
                                  /\ e > lastCommit[a] /\ Index(e) \in writers[a]}
    <2>1. Claimed = {e \in Nat : first <= e /\ e < nextCommit /\ status[Index(e)] = "done"}
      BY <1>0 DEF Claimed
    <2> QED
      BY <2>1 DEF Pending
  <1>2. 1 \in Nat /\ 1 <= 1 /\ \A k \in Nat : k < 1 => ~WritesAt(nextCommit, a, k)
    <2>1. \A k \in Nat : k < 1 => ~(k \in 1 .. Len(Body(nextCommit)))
      OBVIOUS
    <2> QED
      BY <2>1 DEF WritesAt
  \* The record is behind only for iterations whose value is pending.
  <1>3. ASSUME NEW e \in Nat, e < nextCommit, Writes(e, a)
        PROVE  lastCommit[a] >= e \/ e \in Pending(a)
    <2>1. CASE e < first \/ status[Index(e)] = "commit"
      BY <1>3, <2>1 DEF ResultInv, PastInv
    <2>2. CASE first <= e /\ status[Index(e)] # "commit"
      <3>1. status[Index(e)] = "done"
        BY <1>3, <2>2, SlotFacts
      <3>2. lastCommit[a] >= e \/ Index(e) \in writers[a]
        BY <1>3, <2>2, <3>1 DEF ResultInv, ClaimInv
      <3> QED
        BY <1>0, <1>1, <1>3, <2>2, <3>1, <3>2
    <2> QED
      BY <1>0, <2>1, <2>2
  <1>4. CASE Pending(a) = {}
    <2>1. \A u \in Thread : ~(pc[u] = "publish_last" /\ at[u] = a)
      <3> SUFFICES ASSUME NEW u \in Thread, pc[u] = "publish_last", at[u] = a PROVE FALSE
        OBVIOUS
      <3>1. lastCommit[a] < cur[u] /\ Writes(cur[u], a) /\ cur[u] < nextCommit /\ cur[u] \in Nat
        BY CommitFacts, CursorFacts DEF ResultInv, ThreadOK, PublishOK, CommitLabels, Publishing
      <3> QED
        BY <1>0, <1>3, <1>4, <3>1
    <2>2. /\ lastCommit[a] # -1 =>
               lastCommit[a] \in Nat /\ lastCommit[a] < nextCommit /\ Writes(lastCommit[a], a)
          /\ mem[a] = IF lastCommit[a] = -1 THEN Initial ELSE Max(StoresOf(lastCommit[a], a))
      BY <2>1 DEF ResultInv, MemoryInv
    <2>3. \A e \in Nat : e < nextCommit /\ Writes(e, a) => lastCommit[a] >= e
      BY <1>3, <1>4
    <2>4. CASE lastCommit[a] = -1
      <3>1. \A c \in Nat : c < nextCommit => ~Writes(c, a)
        BY <2>3, <2>4
      <3>2. ValueAt(a, nextCommit, 1) = Initial
        BY <1>0, <1>2, <3>1, InitialValue
      <3> QED
        BY <1>4, <2>2, <2>4, <3>2 DEF Memory
    <2>5. CASE lastCommit[a] # -1
      <3>1. PICK c \in Nat : c = lastCommit[a] /\ c < nextCommit /\ Writes(c, a)
        BY <2>2, <2>5
      <3>2. \A d \in Nat : c < d /\ d < nextCommit => ~Writes(d, a)
        BY <2>3, <3>1
      <3>3. ValueAt(a, nextCommit, 1) = Max(StoresOf(c, a))
        BY <1>0, <1>2, <3>1, <3>2, EarlierValue
      <3> QED
        BY <1>4, <2>2, <2>5, <3>1, <3>3 DEF Memory
    <2> QED
      BY <2>4, <2>5
  <1>5. CASE Pending(a) # {}
    <2> DEFINE c == Max(Pending(a))
    <2>1. c \in Pending(a) /\ \A d \in Pending(a) : d <= c
      <3>1. Pending(a) \subseteq Int /\ nextCommit \in Int /\ \A d \in Pending(a) : d <= nextCommit
        BY <1>0, <1>1
      <3> QED
        BY <1>5, <3>1, LatestOf
    <2> HIDE DEF c
    <2>2. /\ c \in Nat /\ first <= c /\ c < nextCommit /\ status[Index(c)] = "done"
          /\ c > lastCommit[a] /\ Index(c) \in writers[a]
      BY <1>1, <2>1
    <2>3. Writes(c, a)
      <3>1. c < first + EpochMax
        BY <1>0, <2>2
      <3> QED
        BY <2>2, <3>1 DEF ResultInv, FlagsInv
    <2>4. wbuf[a][Index(c)] = Max(StoresOf(c, a))
      <3>1. ~(lastCommit[a] >= c)
        BY <1>0, <2>2
      <3> QED
        BY <2>2, <2>3, <3>1 DEF ResultInv, ClaimInv
    <2>5. \A d \in Nat : c < d /\ d < nextCommit => ~Writes(d, a)
      <3> SUFFICES ASSUME NEW d \in Nat, c < d, d < nextCommit, Writes(d, a) PROVE FALSE
        OBVIOUS
      <3>1. lastCommit[a] >= d \/ d <= c
        BY <1>3, <2>1
      <3> QED
        BY <1>0, <2>2, <3>1
    <2>6. ValueAt(a, nextCommit, 1) = Max(StoresOf(c, a))
      BY <1>0, <1>2, <2>2, <2>3, <2>5, EarlierValue
    <2> QED
      BY <1>5, <2>4, <2>6 DEF Memory, c
  <1> QED
    BY <1>4, <1>5

\* What the loop sees of the state.
MemoryMatches == MemoryIs(nextCommit)

\* The loop starts in the initial memory.
LEMMA InitLoop == Init => Loop!Init
  <1> SUFFICES ASSUME Init PROVE Loop!Init
    OBVIOUS
  <1>1. nextCommit = 0
    BY DEF Init, EpochInit
  <1>2. RingInv /\ ResultInv
    BY InitRingInv, InitResultInv
  <1>3. \A a \in Addr : Memory(a) = Initial
    BY <1>1, <1>2, MemoryRelies, ValueStep DEF MemoryIs
  <1> QED
    BY <1>1, <1>3 DEF Loop!Init, Memory

\* The claim of a commit is the step of the loop, and no other step is seen.
LEMMA StepLoop ==
  ASSUME RingInv, ResultInv, EndInv, Sane, MemoryMatches, MemoryMatches', [Next]_vars
  PROVE  [Loop!Next]_(Loop!vars)
  <1>0. nextCommit \in Nat /\ NoDelay /\ LastEpoch \in Nat /\ Len(Program) = LastEpoch + 1
    <2>1. Len(Program) \in Nat
      BY ProgramAssumption
    <2> QED
      BY <2>1, CursorFacts, StopTypes DEF ResultInv, LastEpoch
  <1>1. nextCommit' = nextCommit \/ (nextCommit < Len(Program) /\ nextCommit' = nextCommit + 1)
    <2>1. CASE UNCHANGED vars
      BY <2>1 DEF vars, epochVars, cursors
    <2>2. ASSUME NEW t \in Thread, Worker(t), nextCommit' # nextCommit
          PROVE  nextCommit < Len(Program) /\ nextCommit' = nextCommit + 1
      <3>1. GetCommitCas(t) /\ nextCommit = cur[t]
        BY <1>0, <2>2, CursorsStay
      <3>2. cur[t] <= LastEpoch
        BY <3>1 DEF EndInv, EndThread, GetCommitCas, Goto
      <3> QED
        BY <1>0, <3>1, <3>2 DEF GetCommitCas
    <2> QED
      BY <2>1, <2>2 DEF Next
  <1>2. \A a \in Addr : Memory(a) = ValueAt(a, nextCommit, 1)
    BY DEF MemoryMatches, MemoryIs
  <1>3. \A a \in Addr : Memory(a)' = ValueAt(a, nextCommit', 1)
    BY DEF MemoryMatches, MemoryIs, ValueAt, StoresOf, Position
  <1>4. CASE nextCommit' = nextCommit
    <2>1. \A a \in Addr : Memory(a)' = Memory(a)
      BY <1>2, <1>3, <1>4
    <2> QED
      BY <1>4, <2>1 DEF Loop!vars, Memory
  <1>5. CASE nextCommit < Len(Program) /\ nextCommit' = nextCommit + 1
    <2>1. \A a \in Addr : Memory(a)' = IF StoresOf(nextCommit, a) = {} THEN Memory(a)
                                       ELSE Max(StoresOf(nextCommit, a))
      BY <1>0, <1>2, <1>3, <1>5, ValueStep
    <2> QED
      BY <1>5, <2>1 DEF Loop!Next, Run, Memory
  <1> QED
    BY <1>1, <1>4, <1>5

(* The memory goes through the states of the loop run one iteration at a    *)
(* time: each iteration happens at the moment its commit is claimed,        *)
(* however many steps and threads the commits themselves take; for the      *)
(* loops, and the writes, of CommitsAreRight.                               *)
THEOREM LoopRefinement ==
  ASSUME ~DataDependent, ~Delays
  PROVE  Spec => ImplementsLoop
  <1>1. Sane
    BY DEF Sane
  <1>2. RingInv /\ ResultInv => MemoryMatches
    BY MemoryRelies DEF MemoryMatches
  <1>3. Sane /\ (RingInv /\ ResultInv /\ EndInv /\ MemoryMatches) /\ MemoryMatches' /\ [Next]_vars
          => [Loop!Next]_(Loop!vars)
    BY StepLoop
  <1> QED
    BY <1>1, <1>2, <1>3, InitLoop, AlwaysResultInv, AlwaysEndInv, PTL DEF Spec, ImplementsLoop, Loop!Spec
=============================================================================
